# Formal models of Devel::StatProfiler

Devel::StatProfiler is a sampling profiler for perl. An XS part (`src/`) samples
a running program and writes trace files; a perl part (`lib/`) reads the trace
files of many processes and merges them into reports. This directory holds TLA+
models of the parts where interleavings, forks, crashes and long sequences of
calls decide whether the result is right, the TLC configurations that check the
models on small instances, and TLAPS proofs for instances of any size.

Paths below are relative to the repository. `PROJECT.json` maps every definition
to the lines it models and lists the runs, the mutants that show each property
can fail, the hazards and the theorems.

## 1. Inventory

| component | state | operations | hard behaviour |
|---|---|---|---|
| counter thread (`src/runloop.cpp`) | `refcount`, `refcount_mutex`, `tid_mutex`, `counter`, the thread's countdown, `destroyed` | enter and leave a run loop, start and end the thread, fork handlers, clone and exit | one detached thread per process, reference counted, with unlocked reads and writes of the count; failing `pthread_create`; fork; static destruction |
| sampling (`runloop()`, `collect_sample()`) | `pred_counter` of each run loop, `MY_CXT.pred_counter` | compare the counter after each op, write a weighted sample | nested run loops, exceptions, stops, a counter that moves meanwhile and wraps around |
| trace session (`Cxt`) | stream id, ordinal, parent, sections, the open trace | create, rotate and close trace files, sections, enable/disable/stop, fork, clone | streams split by forks and ithreads; files that cannot be opened; crashes |
| run loop switching (`trampoline`, `switch_runloop`) | `PL_runops`, `resuming`, `enabled` | switch between the two run loops | changes inside nested run loops |
| trace collection (`src/tracecollector.cpp`) | perl's context stacks | walk them from the inside out | contexts that are not entered yet, recursion, BEGIN blocks, the debugger, several stacks |
| eval source capture (`enter_eval_hook()`, `save_eval_once()`) | a mark on the scalar of each text | mark an eval, save its source when sampled or when it ends | scalars that are evaluated again, nested evals, subs that live longer than their eval |
| trace file format (`src/tracefile.cpp`, `doc/fileformat.txt`) | none | varints, strings, records | declared sizes, numbers of five bytes |
| trace file reader (`src/tracefile.cpp`, `Reader.pm`) | open sections, metadata, eval names | read records, hand state to the next file | files that end anywhere; names known after the frames that need them |
| buffers and packets (`src/snappy.cpp`, `src/tracefile.cpp`) | two buffers on either side | collect, compress, flush; load, expand, skip | packets cut by the end of a buffer or of the file |
| snappy compression (`src/snappy`) | the hash table, the output | compress by blocks, expand by elements | sizes of elements, copies that overlap, short cuts near the end of buffers |
| aggregator (`Aggregator.pm`) | per process: last ordinal, reader state, partial report; genealogy; report shards | process trace files, save parts, merge parts | several aggregator processes on the same directory; crashes between files |
| eval source index (`EvalSource.pm`) | hashes of evals per process and ordinal, by number or packed | add, pack, merge, look up along the genealogy | gaps, holes, ranges in any order, numbers used by relatives |
| eval source storage (`EvalSourceStorage.pm`) | loose files, archives, a manifest | add, pack, look up | concurrent writers, packers and readers; killed packers |
| sections API (`StatProfiler.pm`, `SectionGuard.pm`) | guards | start/end sections | guards dropped at any time |
| aggregate reports, report, source map, metadata, name maps | tables | merge, look up, remap | sequential |
| options and XS glue, HTML, flame graphs, random numbers, vendored headers | | | formatting, generated or third-party code; not modelled |

How they interact: perl calls the sections API and the run loops; the run loops
poll `counter`, which only the counter thread writes; `collect_sample()` walks
the context stacks and writes through the trace session: records into the output
buffer, packets into trace files. Nothing is shared between the
profiled program and the aggregator but the files: their names, their headers
(stream id, ordinal, parent) and their records. Aggregator processes share a
directory of parts, written under a temporary name and renamed, and the
directory of eval sources.

What makes each one correct:

* counter thread: the count is the number of references; a running run loop has
  exactly one thread; the thread ends only unreferenced, and does end.
* sampling: no tick is in two weights, none is lost.
* trace session: every stream is readable on its own and in order, has one
  writer, depends only on files that no longer change, and names its origin.
* collection: a sample shows what the program had entered, and the sources of
  the evals in it are saved under their own numbers.
* formats, buffers, compression: reading returns what was written.
* aggregator: every trace file counts exactly once, whatever crashes and
  however many processes run.
* eval sources: a name leads to the source its process gave it, and a source
  that was stored is found, also while it is packed.

## 2. Modules

```
CounterThread              <- CounterThreadProofs    MCCounterThread
Sampler, TraceCollect      <- SampleProofs           MCSampler, MCTraceCollect
TraceStream <= TraceSession <- TraceSessionProofs    MCTraceSession
TraceFormat <- TraceFile   <- TraceFileProofs        MCTraceFile
TraceBuffer                <- TraceBufferProofs      MCTraceBuffer
Snappy                     <- SnappyProofs           MCSnappy
Aggregator                 <- AggregatorProofs       MCAggregator
EvalSource, SourceStorage  <- EvalProofs             MCEvalSource, MCSourceStorage
```

`A <- B`: B extends A, the `...Proofs` with theorems. `A <= B`: B implements the abstract A.

The modules follow a sample through the program: `Sampler` decides when and with which
weight, `TraceCollect` what is in it, `TraceFile` and `TraceFormat` turn it into bytes, `TraceBuffer` into packets,
`Snappy` into compressed packets and back, `TraceSession` says in which files they
are, `Aggregator` what becomes of these. What one module assumes of the next is a property of that one:
`TraceBuffer!SizesAssumption` (a packet fits the reader's buffer) is what `BuffersSuffice` of `Snappy` bounds,
`TraceFile` reads the bytes that `TraceBuffer!InOrder` delivers, and `EvalSource!Possible` lists the
evals a file may have by `TraceSession!ImplementsStream`: a file that a child names as its parent has ended before the child's evals begin.

### CounterThread

One process, any number of interpreters (`Interps`), slots for counter threads
(`Threads`). `pc[i]` says where an interpreter is in `enter_runloop()`,
`leave_runloop()`, the fork handlers or `clone_runloop()`; each access to
`refcount` that is not under `refcount_mutex` is a step of its own
(`ChildCountRead`/`ChildCountWrite` for the `++refcount` of a forked child,
`Check` for the thread's reads). `Tick`, `Check`, `ThreadLock`, `ThreadFinal` are
`increment_counter()`; `TestCheck` is `test_increment_counter()`, which the
tests select (variable `clock`). A fork continues in the parent (`ForkParent`) or in the child
(`ForkChild`): the process followed becomes the child, where only the forking
interpreter exists, `refcount_mutex` is new and `tid_mutex` is inherited as it was.
`orphans` is a history variable: references nobody will drop. `Events` selects
what the environment does: a failing `pthread_create` or `pthread_attr_init`,
forks, forks of a suspended profile, forked children slower than their new
thread, ithreads, process exit.

### Sampler

One interpreter with `depth` nested run loops. Each has its `pred`; a step reads
`counter` once, so the counter thread's `Tick` can fall between any two reads.
The weight of a sample is an unsigned difference modulo `Modulus`. `charged` is a
history of where every tick went (in a sample, while idle, between two reads) and
`happened` records which events occurred so far, so that a property can speak of
executions "until a run loop nests".

### TraceSession and TraceStream

`TraceSession` has a set of contexts (processes and ithreads), each with its
`Cxt` record, and the files on disk. Operators such as `Open`, `CreateTrace`,
`Reopen`, `Restart`, `PidChanged` and `Clone` are the methods of `Cxt` and map a
context to the set of its next states (an open may fail). A fork is three steps:
the fork with the prepare handler, and the parent's and the child's handlers in either
order. `ReadStream` is what a reader makes of the files of a stream, with the
section state handed from file to file. `happened` is a history of the rare events
so far (`early`, `guards`, `openfail`, `nothread`, `evals`, `always`), so that each property names
those that break it, and every property is checked in behaviours with all the others. `guards` says that
sections stayed open when the profile was switched on or off; a clone switches nothing (it copies `enabled`, `src/runloop.cpp:294`).
The output is a template, to which id and ordinal are appended; with `-file` (`is_template` false, `src/tracefile.cpp:1076`) all trace files have
one name, which is outside of this model (section 5).
`unmarked` is a history of the streams that begin inside sections with fewer markers than they were opened (section 5), of which
`SectionsMatched` does not speak.
`TraceStream` is the abstract promise to
readers: files only grow while open, are frozen as soon as another stream depends
on them, come one after the other, and the last says so. `StreamFiles` is the
refinement mapping.

### TraceCollect

The interpreter's part keeps `stacks` as perl does: `Call`, `CallBack` (a new stack for ties and
overloading), `Begin`, `Require`, `EvalString`, `Block`, `NextState`, `Leave`. A context remembers the
statement that was current before it; `at` is the truth next to it. A context has a position (`Positions`, `Cx`), the number of its
stack and its index there; `Inside` orders them by who called whom. `Entered` are the contexts a sample has to show, each in the
place `Rank`. `Sample` starts
`collect_trace()` at any op, `SkipStacks`, `SkipDebugger`, `Report` and `ReportMain` are the turns of its loop, and `EndSample` lets
the program go on. `Marks`, `Overwritten`, `SaveEval` and `WriteEvalIfNeeded` are the life of `EvalCollected`, the magic on the
text of an eval; `hooked` are the evals with magic that writes their source at their end, for which the trace may not be open
(`OpenFails`, history `missed`). `SetEnabled` and `SetSaveSource` switch the profile and `source_code_kind` while the program runs.

### TraceFormat and TraceFile

`TraceFormat` has the bytes: a byte is a tag, a number or the k-th byte of a string, so that a
record that is read at a wrong place is noticed. `Varint`, `StringBytes` and `DeclaredSize` write, `ReadNumber`,
`ReadString` and `ReadRecord` read. `TraceFile` has the writer (`start_sample`, `add_frame`, `end_sample`, `add_eval_source`,
sections, metadata, `flush`, `close`, `Kill`) and the reader: `Open` checks what a file begins with, `ReadHeader` is one turn of
the loop of `read_header()`, and `ReadTrace` consumes one record of the body. `WithFrame` adds a frame to the sample being read, and `Remapped` is
what `try_eval_remap` makes of its evals. `NoText`, the empty string, stands for what is absent. `sent` is a history of what
the reader has to return, `lost` one of the bytes that a killed writer never wrote: they tell a cut between two records from one inside a record
(`CutInside`), at which the reader is `"croak"`.

### TraceBuffer

`OutputBuffer` and `SnappyOutput` on one side, `SnappyInput` and `InputBuffer` on the other. Bytes are numbered; a packet is the
range it holds and its size in the file. `Kill` leaves any part of the file behind what was flushed; the reader's `Load` ends
wherever its buffer is full.

### Snappy

`csnappy_compress()` and `csnappy_decompress()` over bytes. An action is one turn of a loop: `NextBlock`, `Scan`, `Extend`,
`EmitCopy`, `AfterCopy`, `EmitRemainder`, then `TakeLiteral`, `TakeCopy`, `Repeat`, `Eights`, `CopyBytes`, `Finish`. The hash is any
function. Short cuts that copy more than was asked for leave `Junk` behind, and `reached` and its counterparts record how far buffers are used.

### Aggregator

`trace` is what the profiled program left: the files of every process, each of which
stands for the samples after its last change of sections. Samples inside a section wait in
the state of the process (`saved[s][p].report`) until the file where the
section is closed (`Counted`, `Waiting`). Per shard there are a worker
(`Start`, `Process`, then `save_part()` as `SaveGenealogy`, `SaveState` per process in
any order, `SaveSources`, `SaveReport`) and a merger (`merge_metadata()` as
`LoadGenealogy`, `LoadSources`, two `SaveMerged`, `Unlink`; `merge_report()` as
`LoadReports`, `SaveAggregate`, `Unlink`). Files are written
under a temporary name and renamed, so each write is a step, and `Crash` and `MergerCrash`
fall between any two. The program that owns the aggregators is not part of the
repository: it sends all files of a process to one shard, gives its mappers the merged
genealogies (`Known`) and deletes the files a worker saved (`Finish`), as the tests do.
Reports and parts are bags of trace files, so "counted once" is a statement about copies: `Copies` is how often a file is in a bag,
`Count` in how many bags of a set, `MergedReports` what a merge makes of them. `happened`,
`ended` and `torn` are histories: the events so far, the processes whose state was deleted, and those that a killed worker had saved the state of but not
the report (`HalfSaved`). The code packs the merged sources once, after all files of a merge, where `EvalSource` may pack after each; that adds behaviours.

### EvalSource

Each holder (an aggregator, a merger, a report) has an entry per trace file: `sparse` hashes by number, and `packed` hashes behind
a `first` number. `Pack`, `MergeSource`, `Join` and `HashFrom` are the functions of `EvalSource.pm`; a hash stands for the process that ran
the eval and its number. `RanBy`, `Line` and `HashFrom` follow the genealogy as recursive functions of a process. `added` is a history of what reached a holder, `skewed` of indexes packed over a gap.

### SourceStorage

Processes that write, pack and read the directory of sources, each one in the steps in which it touches files:
`Mkpath`, `CheckFile`, `CreateFile`, `RenameFile`; `GlobFiles`, `ChooseName`, `WriteArchive`, `RenameArchive`, `GlobArchives`, `WriteManifest`,
`UnlinkFile`, `RemoveDirs`; `FirstLookup`, `ReloadManifest`, `SecondLookup`. `KillPacker` falls between any two. The two levels of directories are
one, and whether 10000 files are enough to pack is open.

## 3. What the runs check

| run | properties | shows |
|---|---|---|
| `counter_safety` | `RefcountAccounting`, `OneCounterThread`, `SamplingHasCounter`, `ExitsUnreferenced` | three interpreters that fork, suspend, clone and exit, either clock |
| `counter_failures` | `TypeOK`, `IdleProcessReportsIdle`, `CounterThreadStops`, `MutexReleased` | thread starts fail, children are slow, no fork of a suspended profile (section 5); safety and liveness |
| `sampler_runloops` | `TypeOK`, `AttributedOnce`, `AllAttributed` | three nested run loops, all events, a counter that wraps after four ticks |
| `session_streams` | `TypeOK`, `OneWriter`, `LineageKept`, `SectionsMatched`, `ChildShutsQuietly`, `ImplementsStream` | what readers rely on, over forks, ithreads, suspension, rotation, crashes and one kind of rare event; the files evolve as `TraceStream` says |
| `collect_samples` | `FramesTrue`, `SampledEvalsSaved`, `SubsHaveSource` | programs with three nested contexts of any kind, sampled at any op, that switch the profile and the saving of sources outside of evals, with a trace that may not open |
| `file_records` | `RecordsRead`, `SamplesReturned`, `MetadataReturned`, `EndReported` | up to four records of every kind in any order, closed or cut, are read as they were written; a file that was cut ends its stream if it was cut between two records, and makes the reader croak if inside one |
| `buffer_packets` | `NoOverflow`, `InOrder`, `ReadToTheEnd` | writes around the size of the buffer, loads that end inside a packet, files that are cut |
| `snappy_roundtrip` | `TypeOK`, `RoundTrip`, `BuffersSuffice` | texts at every boundary of the format are restored, within the buffers |
| `aggregator_shards` | `TypeOK`, `NeverTwice`, `Accounted`, `SourcesFirst`, `GenealogyKept`, `AllMerged` | two shards, any single event: no file counts twice; none that was saved is lost, also when a worker is killed, but for the processes whose state it had saved and whose report it had not (section 5); genealogies follow their sources; without events, everything is merged in the end |
| `eval_index` | `LookupsRight` | two indexes of a process and its child, read, packed and merged in any order |
| `storage_packers` | `NothingLost`, `SourcesFindable`, `LookupsSucceed` | a writer, a reader and two packers at once, any of them killed |
| `genealogy_first` | `SourcesSaved` violated | a worker killed inside `save_part()` leaves a genealogy part without its sources |

Bounds, and why they are enough:

* `CounterThread`: two interpreters race, a third joins while the thread is in its
  last checks; two thread slots, so that a second thread could exist if the code
  let it. A countdown of two ticks has both of its kinds of steps (start or
  continue, and finish); the code's ten repeats them. Two interpreters suffice
  for the failures and the liveness, because each failure involves one interpreter and at
  most one competitor.
* `Sampler`: depth 3 has an inner, a middle and an outer loop; `MaxTicks` equals `Modulus`,
  so the counter wraps around once. Safety only depends on differences of reads.
* `TraceSession`: two contexts, a parent and a child of either kind, two files per
  stream (one rotation), three ids (a stream, a child, a restart), sections one
  level deep. A file is closed once it has one record, so that sections start and end on either side of a
  rotation. A behaviour has one kind of rare event, and one stream less after it: the properties separate
  which event breaks what, and none needs two of them.
* `TraceCollect`: three nested contexts have a caller, a callee and one between them, which all the
  conditions of the walk compare at most (that more of them add nothing is proved); two scalars and two evals, so that one scalar is evaluated again or both are nested;
  a depth limit of three, which contexts with the main program exceed by one and most samples do not reach (the theorems hold for any). Left out (see section 5): a profile
  or `save_source` switched on inside a string eval (`SwitchInside`), and a scalar evaluated again inside its own eval, which the source names as unsupported (`src/tracecollector.cpp:157`).
* `TraceFile`: four records are a sample with a frame and one record before or behind it; a weight of two bytes, a line of one and
  a negative first line of five; a killed writer loses nothing or six bytes (`Cuts`), which end inside a
  record and reach into the last record but one (the theorems hold for any cuts). Both kinds of perl, with the mapper for evals only on the older one (section 5).
* `TraceBuffer`: requests below, at and above a buffer of three bytes; packets that shrink to one byte or grow by two; a reader's
  buffer that holds one packet and part of the next.
* `Snappy`: texts with repetitions whose lengths and distances are on either side of every size the format distinguishes.
* `EvalSource`: numbers up to four with holes of one (kept) and two (too long, as `HoleLimit` is two for the code's five); three reads, any number of
  packs, merges and deletions; a child that starts after three evals, in a process with two files.
* `SourceStorage`: two sources in one directory, so that one keeps it alive for the other; two archive names; one writer and one reader, which do not
  interfere with others of their kind but through files.
* `Aggregator`: a parent and a child process, because acceptance only looks at the parent,
  in two set-ups (`MCTraces`): both in one shard, the parent with two files so that
  its state is carried over, with sections that end in either file or never; and in two shards with
  mappers, so that the child waits for a merge elsewhere. One event per behaviour
  suffices to separate which event breaks what, since each property names the events it
  excludes. The invariants also hold with any two events (24.6 million states, not kept as a run).

Deadlock is not checked where programs may simply end (`CHECK_DEADLOCK FALSE`).

Fairness: `CounterThread!FairSpec` assumes weak fairness of each counter thread and of an
interpreter that is inside a function of the module: the operating system
schedules every thread, and these functions have no loops. Nothing is assumed
about the program: it need not enter, leave or fork. Mutex acquisition needs no
strong fairness there: `CounterThreadStops` speaks of quiet processes, where only
the thread competes for the mutex. A counter thread can wait for the mutex of a
fork in progress, which `Proceed` completes.

`Aggregator!FairSpec` assumes that the program goes on calling the aggregators while files or
parts remain (weak fairness of `Start`, of the steps of `save_part()` and of the
steps of a merge), and that a worker that is offered acceptable files again and again takes one before it
saves (strong fairness: saving an idle worker disables processing in between). Which file it
takes and when merges run is open. A file is acceptable only after its predecessor and, with
mappers, after the merge of its parent, so `AllMerged` depends on the whole cycle.

## 4. What is proved

Constants are arbitrary sets and numbers that satisfy the named assumptions, which TLC evaluates in every run. They say what
the types of the constants are (`BoundsAssumption` and its like), that processes, shards, threads and sections are finite sets, and:

* `CountdownAssumption`: the counter thread counts down at least one tick;
* `SizesAssumption`: a packet fits the reader's buffer, which `BuffersSuffice` proves of the compressor;
* `TextAssumption`, `BlockAssumption`, `HashAssumption`: texts below 2^31 bytes, blocks between 15 bytes and 64K, any hash function;
* `BoundAssumption` of `TraceCollect`: subs have none of the names that stand for the other kinds of code;
* `StringsAssumption`, `TextsAssumption`: numbers and the sizes of strings have 32 bits, only `NoText` has no bytes, and evals have names;
* `GenealogyAssumption`: a process starts after its parent (so that parents are no cycle), and goes on counting evals where that was.

The bounds for TLC (`MaxContexts`, `MaxOrdinal`, `MaxEvents` and so on) are constants as well, so the theorems hold for all their values.

`CounterThreadProofs`, for any number of interpreters and any countdown:

* `TypeCorrect`, `RefcountCorrect`, `AtMostOneThread`: from the inductive invariant
  `IInv`. `RefcountAccounting` alone is not inductive: a step of a function needs to know
  who holds the mutex (`MutexInv`), that absent interpreters do nothing and
  that a forked child is alone (`InterpInv`), and that no thread exists
  where one is started (`StartInv`). The counting argument uses the cardinalities of the
  sets of references, one lemma per way an interpreter or a thread joins or leaves them.
* `CounterNeverMissing`: when thread starts succeed and a child counts its thread before that
  thread ends (`ThreadsStart`), a running run loop has a thread. `FinalInv` and `CounterInv`
  strengthen `IInv`: as long as someone holds a reference, a thread exists or a start is
  under way. The hypothesis is necessary: one failed `pthread_create` violates the conclusion (section 5).
* `ThreadEndsLast`: the thread that ends drops the last reference (not for slow forked children).
* `IdleReportsIdle`: `refcount > 1` means a run loop is active, unless the process forks while
  suspended (`OrphanInv` bounds the orphans by one, and by none while a thread lives).

`SampleProofs` about `Sampler`, for any depth, number of ticks and width of the counter:

* `SamplerTypeCorrect`.
* `NoTickTwice`: from `AccountInv`, an account for every tick: ticks spent plus what each
  run loop would still charge never exceed the ticks so far.
* `NoTickLost`: from `FlatInv`, while run loops do not nest and nothing failed.

`AggregatorProofs`, for any shards, processes and trace files, and any number of events:

* `SourcesBeforeGenealogy`: `SourcesFirst`, from `MetadataInv`. That the merged genealogy is
  covered by the merged sources depends on files that are still parts: each genealogy part has its
  sources among the merged ones and the source parts, or its worker is between the two
  (`PartsCovered`); and what a merger holds is covered at each of its steps by what it
  will read, holds or has saved (`MergerCovered`). The second needs that it deletes only
  source parts that are merged.
* `GenealogyGrows`: `GenealogyKept`, from `HoldsMerged`: a merger that will write the genealogy
  holds at least what is merged. It holds for crashes and overlaps as well.
* `TypeCorrect`: `TypeOK`, from `TypeInv`, which adds the types of what a worker and a merger hold at each of
  their steps (`WorkerOK`, `PartsOK`).
* `NothingCountsTwice`: `NeverTwice`, from `OnceInv`. The property speaks of what is on disk; to keep it, a worker that still
  has to write its report must not hold a file that is reported, and what it wrote of the states so far decides what a crash leaves. `Once`
  therefore counts three places together: the reports, the worker's report, and the state each process has when the worker is through
  with its states (`Target`); and a file beyond the ordinal of the state is in none. The lemmas on `Copies` and `Count` say what
  adding, removing and merging a part does to the count, by bijections between the sets of parts that hold a file.
* `NothingIsLost`: `Accounted`, which is about runs where workers may be killed and nothing is damaged or offered again, from `KeptInv`: a file that is still in the inbox is nowhere else and beyond
  its state (`FileOK`); samples that wait in a state are of an open section that did not change since (`WaitingOK`); a worker's states on disk are those it holds
  (`SavedOK`); and what is on disk while a worker runs satisfies the same, should it be killed now (`DiskOK`), but for the processes that it has `HalfSaved`.

`TraceSessionProofs`, for any contexts, sections, ids and files, and any number of rare events:

* `TypeCorrect`, `ForkChildrenShutQuietly`: from `BaseInv`, which says that a context writes the last file of its stream, that between
  the handlers of a fork neither side has anything buffered, and that ids are below the next one.
* `FilesHaveOneWriter`: `OneWriter`, from `OwnersInv`: a stream has one context, which has opened all of its files. A child in its fork handler has its
  parent's id still and counts as no owner.
* `GenealogyIsComplete`: `LineageKept`, from `LineInv`.
* `StreamsImplemented`: `Spec => ImplementsStream`. Each step of `TraceSession` changes the files of one context (`Step`), and maps to a step
  of `TraceStream` or to a stutter. It needs `ChainInv`: a parent that is named does not
  change any more (`Settled`), and a context that opens the next file has finished the one before it, which did not say it was the last.

* `SectionsAreMatched`: `SectionsMatched`, from `SectionsInv`: a context knows the sections its program has open (`Counted`), and a reader
  of its stream finds them open, but for markers that are still to be restored (`Marked`). What a reader makes of records is a recursive function
  (`ReadRecords`, `ReadFiles`), of which the proof needs that its values follow each other (by a least counterexample), that reading more goes on from the state
  reached (`ReadTwice`, `ReadMore`), and what markers give (`ReadMarkers`). Each action appends records to one stream, at the end of its
  last file or in the next one, and `Tallies` says how these fit what the program did.

`TraceBufferProofs`, for buffers, packets and requests of any size:

* `NeverOverflows`, `DeliversInOrder`, `ReadsToTheEnd`: from `IInv`. `PacketsInv` is the layout of the file: packets
  without gaps. `FileInv` says what of it a killed writer leaves. `ReaderInv` is the key: the reader always stands between two packets, has expanded those
  before and has in its buffer what lies behind, wherever loads end. The reader's place is a number of packets,
  which takes the place of an induction over the file.

`EvalProofs` about `SourceStorage`, for any writers, readers, packers and sources:

* `NoSourceIsLost`, `SourcesStayFindable`, `NoLookupMisses`: all from `IInv`. A packer has a name of its own for
  its archive (`NamesOK`), what it found is a file or archived until it deletes it (`FoundOK`), one that is alone lists
  everything (`AloneOK`, `ListsAll`), and a reader's manifest is right although it may be old (`ReaderOK`).
  They assume `NoCollision`: no two packers choose the same name at once. It is necessary, section 5 shows the loss. Everything else may
  happen: packers overlap, and are killed anywhere.

`SampleProofs` about `TraceCollect`, for any program, any nesting of contexts and stacks, and any depth:

* `TypeCorrect`, with what perl guarantees about its stacks: all but the first begin with a sub, and no text is evaluated inside itself.
* `FramesAreTrue`: `FramesTrue`, from `LinesInv`, `DebugInv` and `WalkInv`. The walk only sees the statements that contexts remember, and has to tell from
  them where the next outer one is. `LinesInv` says that this is so: the statement a context remembers is where its caller is, and the current
  statement is where the innermost context is, unless it was just called. `DebugInv` places `&DB::sub` directly below
  the sub it calls. `WalkInv` says that the contexts passed so far have their frames, each at its `Rank`. Every step of the program opens the
  innermost context, closes it, or moves its statement (`Opened`, `Closed`, `Moved`), and the invariants speak of the order `Inside`
  only, so sequences occur in the first lemmas alone.
* `SampledEvalsAreSaved`: `SampledEvalsSaved`, from `EvalsInv` (the mark on a text that is being evaluated has the number of its eval) and `FramesSaved`. It assumes
  that the profile and `save_source` are not switched inside a string eval; section 5 shows what happens otherwise.
* `SubsAlwaysHaveSource`: `SubsHaveSource`, from `EvalsInv`: an eval that defined a sub has a mark that says so until it ends. It is about evals that
  were `hooked` when they began (all of them with `all_evals_always`, those in an enabled profile with `all_evals`), wherever the profile is switched.

`EvalProofs` about `EvalSource`, for any processes, files, numbers and `HoleLimit`:

* `LookupsAreRight`: `LookupsRight`, from `IndexInv`. `Fits` relates an entry of the index to the evals whose sources reached its holder: each of them
  is known, and every hash, sparse or packed, is that of the eval the genealogy gives the number. Adding, packing without a gap, joining ranges
  and merging two entries keep it. A lookup follows the genealogy as far as it goes; that it finds the right process, or is masked, is shown by the
  oldest process for which it does not. Holders in `skewed` are left out, as in the property (section 5).

`TraceFileProofs`, for any texts, evals, samples and frames, any number of records and a cut anywhere behind the header:

* `RecordsAreRead`, `SamplesAreReturned`, `MetadataAreReturned`, `EndsAreReported`: `RecordsRead`, `SamplesReturned`, `MetadataReturned` and `EndReported`,
  all from `IInv`. The first part is about bytes: numbers of up to five bytes and strings are read as they were written, wherever they lie,
  and so is every record (`BodyCodes`, `HeaderCodes`), whose declared size is that of its payload. The second is about files. A milestone is
  the state in which a reader stands between two records; `Chain` says that from each but the last one record leads to another (`Link`). Every action of the
  writer adds links behind the last milestone, where the reader's sample, sources, sections and metadata are the writer's (`Counterparts`) and what it
  returned is what was sent (`Facts`). A reader is at a milestone, or ended at one (`ReaderInv`), and in what remains of a file that was killed
  it cannot go wrong before the end. The sample in between is the hard part: evals are remapped when it ends, by their place in `try_eval_remap`,
  while the frames below a `BEGIN` are dropped as they come (`FramesInv`).
* All four assume `Known = Tags`, a reader of this release, and `SamplesAreReturned` also that evals are not mapped on a Perl from 5.36 on. Both are necessary: section 5
  shows what happens otherwise.
* `IInv` quantifies over all chains of milestones, which TLC cannot enumerate, so that here it checks the properties but not the invariant behind them.

`SnappyProofs`, for any texts, block size and hash function:

* `TypeCorrect`, `RoundTripCorrect`, `BuffersCorrect`, all from `IInv`. Neither property is inductive: that the text is restored depends on
  which part of the text each element stands for (`LayoutOf`: the elements written so far cover the text up to `next_emit`, and
  each copy refers to bytes that equal its own). That the compressed buffer suffices needs an account
  (`CostInv`): a copy takes at least one byte less than it covers, and pays for the length bytes of the literal behind it.
  `DecompressInv` says that the output is the text up to the elements consumed, whatever `Junk` lies behind. Elements are identified by
  their place in the stream, so that no induction over sequences is needed.

Only model-checked:

* the liveness properties (`CounterThreadStops`, `MutexReleased`, `AllMerged`): liveness under fairness and `ENABLED` are beyond the prover.

Every safety property that a passing run checks is stated by a theorem. Recursive definitions (`ReadRecords` of a stream, the records of a file, the genealogy)
are recursive functions, of which the proofs use that each value follows from the one before, with a least counterexample or an invariant in
the place of the library's induction theorems, whose operator parameters no installed back end instantiates.

## 5. Disagreements the models show

`genealogy_first` is a run of its own, and the finding in `PROJECT.json`. While modelling, TLC also
showed these; each is reproduced by the change named. Where an event or a constant
is excluded from a property, this is why.

Counter thread and sampling:

* `create` (`src/runloop.cpp:704`): after one failed `pthread_create()` the reference of a thread that does not exist stays, although the
  comment at `:703` says "implicit reference held by the counter thread"; no later run loop starts a thread. `SamplingHasCounter` fails without `ThreadsStart`.
* `slowfork` (`:1150`): `++refcount` in a forked child is not protected; if the
  child's new thread reaches its exit first, the child's run loop has no thread.
* `suspend` with `IdleProcessReportsIdle` and `CounterThreadStops` (`:1148`): a fork with profiling off and the trace
  open counts a reference nobody drops. `refcount` stays above what is in use, and the child's counter thread never ends. `counter_failures`, which checks the
  two properties, leaves out the event.
* `clone` with `fork` (`:1154`): a child forked while another ithread is in `clone_runloop()` inherits a
  locked `tid_mutex` and waits for it forever.
* `exit` (`:589`): a thread that passed its check of `destroyed` locks a destroyed mutex.
* `overload` (`:811`): a sub called through an overloaded `&{}` runs inside `collect_sample()`; its ticks are in two weights, although the comment
  at `:784` says that the weight is right "when an inner runloop already collected a trace for this line". `AttributedOnce` fails without `Accountable`.
* wrap-around (`:786`): a `counter` that wraps between an inner and an outer sample makes the outer
  one include the inner ticks.
* `nest` (`:787`): ticks between the inner run loop's last sample and its return are lost, while Changes:130 speaks of correct weights.
* `sampling_interval` may be changed while the thread counts down (`:500`): it reads the interval several times.

Trace session (remove the event from the hypothesis of the property):

* `guards` (`:1366`): a section started before and ended after a stop and an enable is an unmatched end.
* `early` (`:300`): a thread created before anything was written names a parent file that never exists.
* `-file` (`src/tracefile.cpp:1076`): without a template neither id nor ordinal are in the name. Files do not rotate then (`:791`), but a restart after
  `stop_profile` opens the same file and overwrites it, as a fork's child or a thread does, for which the documentation rules `-file` out (`lib/Devel/StatProfiler.pm:205`). `OneWriter` and
  the other properties speak of templates.
* `nothread` (`:1151`): a child that catches the croak of its fork handler writes under its parent's id.
* `openfail` (`:486`): a file that could not be opened still takes an ordinal, and a reader
  that wants the next ordinal ignores the rest of the stream.
* `always` (`:851`): an eval after `stop_profile` goes to a file behind the end of its stream.
* sections opened twice (`:474`): a child forked two levels inside a section writes one marker for it, and its second end is unmatched. Without
  the exclusion of `unmarked`, `SectionsMatched` fails with `MaxNest` of two, `MaxRecords` of three, `MaxIds` of two and only `fork` as an event.
* sections without markers (`:1155`): a process that forks inside a section while no run loop is active has its trace closed (`:1129`). The child of its next fork does not count as
  running, so that neither its first file nor a later one starts with the section, whose end in that stream is unmatched. Without the exclusion of `unmarked`,
  `SectionsMatched` fails with three contexts, `MaxNest` and `MaxRecords` of one, `MaxOrdinal` of two, `MaxIds` of three and only `fork` as an event.
* With ithreads the buffers of the other threads' traces are duplicated by a fork and flushed by the child (`src/tracefile.cpp:238`); stdio's own buffers are not modelled.

Trace files:

* `src/snappy.cpp:56`: the bytes that a cut packet lacks are taken from what the buffer held before. If they expand, the
  remainder is negative and `memmove()` takes it as a huge length, while `src/tracefile.cpp:753` says "treat truncated files as the end of a stream". In
  `TraceBuffer` the reader is then `"crashed"`, which `ReadToTheEnd` allows for killed writers only.
* `src/tracefile.cpp:323`, `:140`: a file that was cut inside a record, as one is whose writer was killed between two flushes, makes `read_trace()` croak ("Unexpected end-of-file while reading
  a varint", "... bytes"), and neither `file_ended` nor `stream_ended` is set, while the comment at `:753` says "treat truncated files as the end of a stream". Only a file that was cut
  between two records is treated so. `EndReported` states both; without `~CutInside`, requiring that every cut file ends its stream, it fails.
* `src/tracefile.cpp:302`, `:297`: declared sizes leave out the flag byte of strings and the fifth byte of numbers from 2^28 on; a reader that skips
  an unknown record continues inside it, while `doc/fileformat.txt:32` speaks of "the total record size". With `Known <- Older`, `RecordsRead` fails.
* `src/tracefile.cpp:856`: the frame that Perl 5.36 drops behind a BEGIN block keeps its entry among the names to remap, so those of the frames behind it
  move by one, the last past the end. With `Perls <- NewMapping`, `SamplesReturned` fails.
* `src/tracefile.cpp:1159`: `rename()` is not checked when a trace is closed; a failure leaves it under its temporary name.

Collection:

* `src/tracecollector.cpp:99`: `PL_op` is compared with the first op of the sub of every frame, not only of the innermost. When a sub has just been called and not
  reached its first statement, the frame of any caller that is the same sub is left out if it called the next one from the statement it was itself
  called from, although the comment at `:96` says "but make sure it's not a recursive sub". `FramesTrue` fails without
  `RecursiveEntry`. Attempting the proof showed that subs in between do not matter (four nested contexts), which the run with three cannot reach.
* `src/tracecollector.cpp:148`: a profile enabled inside a string eval saves its source under the number of the last eval that was
  started, although the comment at `:110` expects every eval to be marked. So does a `save_source()` inside one (`lib/Devel/StatProfiler.pm:90`, `src/runloop.cpp:1312`) that begins to save sources.
  With `SwitchInside`, `SampledEvalsSaved` fails.
* `src/runloop.cpp:853`: an eval that ends while the trace could not be opened counts as saved although nothing was written (`missed`).

Aggregator:

* `crash`, `keep` (`lib/Devel/StatProfiler/Aggregator.pm:197`): the state of a stream that
  ended is deleted. If its first file is still there (its worker was killed after the state was
  written, or the file was not deleted), a new aggregator accepts it again and
  counts it twice, while `t/352_can_process_trace_file.t` says that files are not reprocessed.
  `NeverTwice` therefore speaks of processes that have a state (`ended`).
* `crash` (`:192`, `:207`): a worker that is killed after it wrote the state of a process and before it wrote the reports loses samples: those of earlier files, already deleted, that
  waited in that state (they are neither in the new state nor in a report), and those of the files it read, which are still there but behind the ordinal of the state and are never accepted again. `Accounted` leaves
  out these processes (`torn`), and fails without that.
* `mergecrash` (`:456`): a merge of reports that is killed before it deletes its parts is repeated.
* `broken` (`:156`): a file that dies after a section change leaves waiting samples both in the report
  and in the state on disk, which is not rewritten.
* `own` (`:387`): `merge_metadata()` on an aggregator that processed files loads nothing and
  overwrites what was merged before.
* `overlap` (`:389`, `:187`): a merger reads genealogy parts before source parts, a worker writes
  them in the same order, so a merger that overlaps with a save may get the first without the second.
* Samples of a section that is never closed are dropped at the end of the stream (`Unfinished`).

Eval sources:

* `lib/Devel/StatProfiler/EvalSource.pm:105`: behind a packed range `_pack_data()` takes as many steps as there are sparse hashes and appends nothing for a number that is
  missing. With 1 packed and 2, 4 and a further number sparse, the hash of eval 4 is stored under 3. The comment at `:80` knows that there may be "holes in the
  sequence". `LookupsRight` fails without `skewed`. It takes two packs of one file, which `t/060_evalsource.t` does ("repeated packing").
* `:185`, `:248`: a hole that merging left between two ranges ends a lookup: an eval that another file of the process has is not found (`Masked`).
* `lib/Devel/StatProfiler/EvalSourceStorage.pm:188`: with two packers, the one that listed the archives first may write the manifest last. The sources are hidden until a packer runs
  alone (`overlapped`), never lost.
* `:199`, `:209`: two packers that choose the same name overwrite each other's archive and delete the files of both: with the event `collide`, `NothingLost` fails.
* `:65`, `:53`: a writer dies when a packer removes the directory it just made, a reader when a packer deletes the file it just found. Both lose the call, not the source.
* `:139`: the manifest is compared with the literal `'contents'`, so it is always read again.

## 6. Not modelled, and why

* `trampoline()` and `switch_runloop()` with `PL_runops` and `JMPENV`: what they do to the count, the ticks and the trace is modelled; perl's own run loops are not.
* Reports, aggregate reports, source maps, metadata and name maps, HTML and flame graphs: sequential functions of large data, no
  state that several actors share, and no steps in between that another actor could see.
* The time a tick takes: `INCREMENT_COUNTER` divides elapsed time by the interval; a wake-up is one tick.
* Aggregator: the contents of reports and metadata, several reports per aggregator, source maps
  (merged like sources), `discard_expired`, and `save_part()` called twice on one object, which would
  write the same reports again (`partial` is not cleared, `Aggregator.pm:177`).
* Formats written by older releases, which readers accept (`EvalSource.pm:145`, older file versions).
* stdio: a file is either written or not; `rename()` succeeds. Archive::Zip is modelled by how `EvalSourceStorage.pm` uses it.
* The variants of the compressor for other machines (big-endian, without unaligned access, kernel mode).
* Option parsing, generated glue, compatibility headers.

## 7. Plan

In order of importance:

1. an abstract specification of `Aggregator`, a bag of counted files, with the refinement proved from `OnceInv` and `KeptInv`;
2. `RunLoop`: `trampoline()` and `switch_runloop()` in nested run loops;
3. `Report` (merge and recursion against counting at once), tick arithmetic;
4. `Aggregate`: expiry of processes beside writers.
