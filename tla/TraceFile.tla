------------------------------ MODULE TraceFile ------------------------------
(***************************************************************************)
(* How samples, sections, metadata and eval sources are written to a trace *)
(* file, and what read_trace() makes of them (TraceFileWriter and          *)
(* TraceFileReader in src/tracefile.cpp).                                  *)
(*                                                                         *)
(* One file is written and then read.  Modules TraceBuffer and Snappy      *)
(* carry its bytes; a writer that is killed leaves a part of them.  The    *)
(* files of a stream are the subject of module TraceSession.               *)
(*                                                                         *)
(* Next to the file, sent keeps what the reader has to return for it.      *)
(***************************************************************************)
EXTENDS TraceFormat, FiniteSets

CONSTANTS
    Plain,       \* a source file
    EvalName,    \* "(eval n)", for the numbers n of evals
    Source,      \* the source of each eval
    Mapped,      \* evals that the mapper knows from other files
    Sections,
    MetaKeys, MetaValues,
    Weights, Names, Lines, FirstLines,   \* of samples and frames; a BEGIN block is named "BEGIN"
    Known,       \* the tags the reader knows
    Perls,       \* <<the reading Perl is 5.36 or later, evals are mapped>>
    MaxRecords,  \* records in the body, and
    Cuts         \* how many bytes a killed writer may lose, bounds for TLC

(* The tags this release reads.                                            *)
Tags == {"SAMPLE_START", "SAMPLE_END", "SUB_FRAME", "EVAL_FRAME", "XSUB_FRAME",
         "MAIN_FRAME", "EVAL_SEQ", "FILE_END", "STREAM_END", "SECTION_START",
         "SECTION_END", "CUSTOM_META"}

ASSUME KnownAssumption == Known \subseteq Tags /\ MaxRecords \in Nat /\ Cuts \subseteq Nat

ASSUME TextsAssumption ==
    /\ {"op", "main", "meta", Plain} \cup Sections \cup MetaKeys \cup MetaValues \cup Names
          \subseteq Strings
    /\ EvalName \in [DOMAIN EvalName -> Strings \ {NoText}] /\ Source \in [DOMAIN EvalName -> Strings]
    /\ \A v \in DOMAIN EvalName \cup Weights \cup Lines \cup FirstLines : IsInt32(v)
    /\ Weights \subseteq Nat
    /\ Perls \subseteq BOOLEAN \X BOOLEAN

VARIABLES
    writer,      \* "new", "body", "sample", "closed" or "killed"
    file,        \* its bytes
    durable,     \* those that write_header() flushed
    force_empty_frame,
    records,     \* the number of records in the body
    opened,      \* how often each section is open
    perl,        \* an element of Perls
    reader,      \* "none", "header", "body", or how reading ended: "end", "croak",
                 \* "garbage", "crashed"
    at,          \* the bytes that are read
    sample,      \* the sample that is read, its frames and try_eval_remap
    new_metadata, custom_metadata, source_code, sections,
    file_ended, stream_ended,
    returned,    \* what read_trace() returned
    current,     \* history: frames of the sample that is written
    sent,        \* history: what read_trace() has to return
    unsent,      \* history: metadata written since
    saved,       \* history: the evals whose source is written
    lost,        \* history: the bytes that a killed writer lost
    metadata     \* history: all metadata of the body

output == <<writer, file, durable, force_empty_frame, records, opened>>
input == <<reader, at, sample, new_metadata, custom_metadata, source_code, sections,
           file_ended, stream_ended, returned>>
history == <<current, sent, unsent, saved, lost, metadata>>
vars == <<output, perl, input, history>>

newPerl == perl[1]
map_evals == perl[2]

Evals == DOMAIN EvalName
IsEval(f) == \E n \in Evals : f = EvalName[n]
EvalNumber(f) == CHOOSE n \in Evals : f = EvalName[n]

NoSections == [s \in Sections |-> 0]
Active(depths) == {s \in Sections : depths[s] > 0}

(* A hash, as a set of pairs.                                              *)
Store(hash, k, v) == {e \in hash : e[1] # k} \cup {<<k, v>>}

(* A name that read_trace() gives to a file: the file itself, an eval of   *)
(* this stream, its source, or what the mapper makes of it.                *)
FileName(how, f) == <<how, f>>
make_fullfile(f) == FileName(IF IsEval(f) THEN "qeval" ELSE "file", f)

NoFrames == <<>>
NoSample == [weight |-> -1, frames |-> NoFrames, remap |-> <<>>, begin |-> FALSE]

Init ==
    /\ writer = "new" /\ file = <<>> /\ durable = 0
    /\ force_empty_frame = FALSE /\ records = 0 /\ opened = NoSections
    /\ perl \in Perls
    /\ reader = "none" /\ at = 0 /\ sample = NoSample
    /\ new_metadata = {} /\ custom_metadata = {} /\ source_code = {}
    /\ sections = NoSections /\ file_ended = FALSE /\ stream_ended = FALSE
    /\ returned = <<>>
    /\ current = NoSample /\ sent = <<>> /\ unsent = {} /\ saved = {} /\ metadata = {}
    /\ lost = <<>>

-----------------------------------------------------------------------------
(* Writing                                                                 *)

EmptySample ==
    Record("SAMPLE_START", <<Num(0), Str(NoText)>>) \o Record("SAMPLE_END", <<>>)

Put(bytes) == file' = file \o bytes /\ records' = records + 1
MayPut == writer = "body" /\ records < MaxRecords

(* What read_trace() has to return next: a sample with the frames that     *)
(* were written, the sections that are open and the metadata since.        *)
Expect(weight, frames, open) ==
    [weight |-> weight, frames |-> frames, sections |-> Active(open),
     metadata |-> unsent]
Send(x) == sent' = Append(sent, x) /\ unsent' = {}

(* flush(): an empty sample carries what has no sample to go with.         *)
FlushRecords ==
    IF force_empty_frame
    THEN EmptySample ELSE <<>>
FlushSends ==
    IF force_empty_frame THEN Send(Expect(0, NoFrames, opened))
    ELSE UNCHANGED <<sent, unsent>>

Header ==
    HeaderRecord("META_PERL_VERSION", <<Num(5), Num(36), Num(0)>>)
    \o HeaderRecord("META_TICK_DURATION", <<Num(1000)>>)
    \o HeaderRecord("META_STACK_SAMPLE_DEPTH", <<Num(20)>>)
    \o HeaderRecord("META_GENEALOGY", <<Num(2), Num(1), Id("id"), Id("id")>>)

(* open() and write_header(); with global metadata it flushes an empty     *)
(* sample behind the header.                                               *)
WriteHeader(global) ==
    /\ writer = "new"
    /\ LET meta == IF global THEN Record("CUSTOM_META", <<Str("meta"), Str("meta")>>)
                   ELSE <<>> IN
       file' = Header \o meta \o <<Tag("HEADER_SEPARATOR")>>
               \o (IF global THEN EmptySample ELSE <<>>)
    /\ durable' = Len(file')
    /\ sent' = IF global THEN <<Expect(0, NoFrames, opened)>> ELSE <<>>
    /\ writer' = "body"
    /\ UNCHANGED <<force_empty_frame, records, opened, perl, lost, input, current, unsent,
                   saved, metadata>>

start_sample(w) ==
    /\ MayPut
    /\ Put(Record("SAMPLE_START", <<Num(w), Str("op")>>))
    /\ writer' = "sample" /\ current' = [NoSample EXCEPT !.weight = w]
    /\ UNCHANGED <<durable, force_empty_frame, opened, perl, lost, input, sent, unsent, saved,
                   metadata>>

Frame(kind, name, f, line, first) ==
    [kind |-> kind, name |-> name, file |-> f, line |-> line, first |-> first]
FileFrame(kind, f, line) == Frame(kind, NoText, f, line, 0)

(* add_frame(): a Perl sub, an XSUB, an eval, a file.                      *)
FrameFields(x) ==
    CASE x.kind = "SUB_FRAME" ->
             <<Str("main"), Str(x.name), Str(x.file), Num(x.line), Num(x.first)>>
      [] x.kind = "XSUB_FRAME" -> <<Str("main"), Str(x.name)>>
      [] OTHER -> <<Str(x.file), Num(x.line)>>

Files == {Plain} \cup {EvalName[n] : n \in Evals}
SubFrames ==
    {Frame("SUB_FRAME", name, f, l, first) :
        name \in Names, f \in Files, l \in Lines, first \in FirstLines}
XSubFrames == {Frame("XSUB_FRAME", name, NoText, -1, -1) : name \in Names \ {"BEGIN"}}
FileFrames(kind) == {FileFrame(kind, f, l) : f \in Files, l \in Lines}
Frames == SubFrames \cup XSubFrames \cup FileFrames("EVAL_FRAME") \cup FileFrames("MAIN_FRAME")

add_frame(x) ==
    /\ writer = "sample" /\ records < MaxRecords
    /\ Put(Record(x.kind, FrameFields(x)))
    /\ current' = [current EXCEPT !.frames = Append(@, x)]
    /\ UNCHANGED <<writer, durable, force_empty_frame, opened, perl, lost, input, sent, unsent,
                   saved, metadata>>

(* In a sample, or when an eval is left.                                   *)
add_eval_source(n) ==
    /\ writer \in {"body", "sample"} /\ records < MaxRecords
    /\ Put(Record("EVAL_SEQ", <<Str(Source[n]), Num(n)>>))
    /\ saved' = saved \cup {n}
    /\ UNCHANGED <<writer, durable, force_empty_frame, opened, perl, lost, input, current, sent,
                   unsent, metadata>>

(* Newer Perls put the frame of an eval or a file behind that of a BEGIN   *)
(* block; it is left out.                                                  *)
Hidden(frames, i) ==
    /\ newPerl /\ i > 1 /\ frames[i].kind \in {"EVAL_FRAME", "MAIN_FRAME"}
    /\ frames[i - 1].name = "BEGIN"
Shown(frames) == {i \in DOMAIN frames : ~Hidden(frames, i)}

(* The name a frame's file has to get: an eval is named by its source if   *)
(* the file has it, or else by the mapper if that knows it.                *)
NameOf(x, known) ==
    IF map_evals /\ IsEval(x.file)
    THEN IF EvalNumber(x.file) \in known
         THEN FileName("eval", Source[EvalNumber(x.file)])
         ELSE IF EvalNumber(x.file) \in Mapped THEN FileName("mapped", x.file)
         ELSE make_fullfile(x.file)
    ELSE IF x.kind \in {"MAIN_FRAME", "XSUB_FRAME"} THEN FileName("file", x.file)
    ELSE make_fullfile(x.file)

Nth(ns, i) == CHOOSE n \in ns : Cardinality({m \in ns : m <= n}) = i
Named(frames) ==
    LET shown(i) == frames[Nth(Shown(frames), i)] IN
    [i \in 1 .. Cardinality(Shown(frames)) |->
        [shown(i) EXCEPT !.file = NameOf(shown(i), saved)]]

end_sample ==
    /\ writer = "sample"
    /\ file' = file \o Record("SAMPLE_END", <<>>)
    /\ force_empty_frame' = FALSE
    /\ writer' = "body" /\ current' = NoSample
    /\ Send(Expect(current.weight, Named(current.frames), opened))
    /\ UNCHANGED <<durable, records, opened, perl, lost, input, saved, metadata>>

(* The reader returns an empty sample for each change of the sections.     *)
start_section(s) ==
    /\ MayPut
    /\ Put(Record("SECTION_START", <<Str(s)>>))
    /\ force_empty_frame' = FALSE
    /\ opened' = [opened EXCEPT ![s] = @ + 1]
    /\ Send(Expect(0, NoFrames, opened'))
    /\ UNCHANGED <<writer, durable, perl, lost, input, current, saved, metadata>>

end_section(s) ==
    /\ MayPut /\ opened[s] > 0
    /\ Put(Record("SECTION_END", <<Str(s)>>))
    /\ force_empty_frame' = TRUE
    /\ opened' = [opened EXCEPT ![s] = @ - 1]
    /\ Send(Expect(0, NoFrames, opened'))
    /\ UNCHANGED <<writer, durable, perl, lost, input, current, saved, metadata>>

(* Mutant of write_custom_metadata: no sample is forced.                   *)
write_metadata_alone(k, v) ==
    /\ MayPut
    /\ Put(Record("CUSTOM_META", <<Str(k), Str(v)>>))
    /\ unsent' = Store(unsent, k, v) /\ metadata' = Store(metadata, k, v)
    /\ UNCHANGED <<writer, durable, force_empty_frame, opened, perl, lost, input, current, sent,
                   saved>>

write_custom_metadata(k, v) ==
    /\ MayPut
    /\ Put(Record("CUSTOM_META", <<Str(k), Str(v)>>))
    /\ force_empty_frame' = TRUE
    /\ unsent' = Store(unsent, k, v) /\ metadata' = Store(metadata, k, v)
    /\ UNCHANGED <<writer, durable, opened, perl, lost, input, current, sent, saved>>

(* A record of a later release, with a payload of k bytes.                 *)
LaterRecord(k) == <<Tag("LATER")>> \o (Varint(k) \o [i \in 1 .. k |-> Byte(130)])
WriteLater(k) ==
    /\ MayPut
    /\ Put(LaterRecord(k))
    /\ UNCHANGED <<writer, durable, force_empty_frame, opened, perl, lost, input, history>>

(* Without force_empty_frame, flush() only moves bytes on.                 *)
flush ==
    /\ writer = "body" /\ force_empty_frame
    /\ file' = file \o FlushRecords
    /\ force_empty_frame' = FALSE
    /\ FlushSends
    /\ UNCHANGED <<writer, durable, records, opened, perl, lost, input, current, saved, metadata>>

(* close(): the tag that ends the file is written before what is flushed.  *)
close(tag) ==
    /\ writer = "body"
    /\ file' = file \o Record(tag, <<>>) \o FlushRecords
    /\ force_empty_frame' = FALSE
    /\ FlushSends
    /\ writer' = "closed"
    /\ UNCHANGED <<durable, records, opened, perl, lost, input, current, saved, metadata>>

Kill ==
    /\ writer \in {"body", "sample"}
    /\ \E k \in Cuts :
          /\ durable + k <= Len(file)
          /\ file' = SubSeq(file, 1, Len(file) - k)
          /\ lost' = SubSeq(file, Len(file) - k + 1, Len(file))
    /\ writer' = "killed"
    /\ UNCHANGED <<durable, force_empty_frame, records, opened, perl, input, current, sent,
                   unsent, saved, metadata>>

-----------------------------------------------------------------------------
(* Reading                                                                 *)

Stop(why) ==
    /\ reader' = why
    /\ UNCHANGED <<at, sample, new_metadata, custom_metadata, source_code, sections,
                   file_ended, stream_ended, returned>>

Open ==
    /\ writer \in {"closed", "killed"} /\ reader = "none"
    /\ reader' = "header" /\ at' = 0
    /\ UNCHANGED <<output, perl, sample, new_metadata, custom_metadata, source_code, sections,
                   file_ended, stream_ended, returned, history>>

(* An iteration of the loop of read_header().                              *)
ReadHeader ==
    /\ reader = "header"
    /\ LET p == ReadHeaderRecord(file, at) IN
       /\ reader' = IF p.status # "ok" THEN "garbage"
                    ELSE IF p.tag = "HEADER_SEPARATOR" THEN "body" ELSE "header"
       /\ at' = p.at
       /\ custom_metadata' = IF p.status = "ok" /\ p.tag = "CUSTOM_META"
                             THEN Store(custom_metadata, p.values[2], p.values[3])
                             ELSE custom_metadata
    /\ UNCHANGED <<output, perl, sample, new_metadata, source_code, sections, file_ended,
                   stream_ended, returned, history>>

(* What read_trace() returns; its locals start again.                      *)
Return(x) ==
    /\ returned' = Append(returned, x)
    /\ sample' = NoSample /\ new_metadata' = {}

Returned(weight, frames, open) ==
    [weight |-> weight, frames |-> frames, sections |-> Active(open),
     metadata |-> new_metadata]

(* A record of the body that is known and complete.                        *)
Reading(p, tags) == p.status = "ok" /\ p.tag \in tags \cap Known

(* Mutant of EndOfFile: a file that was cut ends, its stream goes on.      *)
EndOfFileOnly(p) ==
    /\ p.status # "ok"
    /\ IF p.status = "end"
       THEN /\ reader' = "end" /\ file_ended' = TRUE
            /\ UNCHANGED <<at, sample, new_metadata, custom_metadata, source_code,
                           sections, stream_ended, returned>>
       ELSE Stop(IF p.status = "garbage" THEN "garbage" ELSE "croak")
    /\ UNCHANGED <<output, perl, history>>

EndOfFile(p) ==
    /\ p.status # "ok"
    /\ IF p.status = "end"
       THEN /\ reader' = "end" /\ file_ended' = TRUE
            /\ stream_ended' = (stream_ended \/ ~file_ended)
            /\ UNCHANGED <<at, sample, new_metadata, custom_metadata, source_code,
                           sections, returned>>
       ELSE Stop(IF p.status = "garbage" THEN "garbage" ELSE "croak")
    /\ UNCHANGED <<output, perl, history>>

(* in.skip_bytes() of a record that is not known.                          *)
SkipUnknown(p) ==
    /\ p.status = "ok" /\ p.tag \notin Known
    /\ at' = p.at
    /\ UNCHANGED <<output, perl, history, reader, sample, new_metadata, custom_metadata,
                   source_code, sections, file_ended, stream_ended, returned>>

ReadSampleStart(p) ==
    /\ Reading(p, {"SAMPLE_START"})
    /\ at' = p.at
    /\ sample' = [NoSample EXCEPT !.weight = p.values[1]]
    /\ UNCHANGED <<output, perl, history, reader, new_metadata, custom_metadata,
                   source_code, sections, file_ended, stream_ended, returned>>

(* The frame that a record stands for, with the name of its file.          *)
FrameRead(tag, v) ==
    CASE tag = "SUB_FRAME" -> Frame(tag, v[2], make_fullfile(v[3]), v[4], v[5])
      [] tag = "XSUB_FRAME" -> Frame(tag, v[2], FileName("file", NoText), -1, -1)
      [] tag = "EVAL_FRAME" -> FileFrame(tag, make_fullfile(v[1]), v[2])
      [] tag = "MAIN_FRAME" -> FileFrame(tag, FileName("file", v[1]), v[2])

FileRead(tag, v) ==
    CASE tag = "SUB_FRAME" -> v[3] [] tag = "XSUB_FRAME" -> NoText [] OTHER -> v[1]

(* What is pushed to try_eval_remap: the file of an eval, or NULL.         *)
TryRemap(tag, v) ==
    IF ~map_evals THEN <<>>
    ELSE <<IF IsEval(FileRead(tag, v)) THEN FileRead(tag, v) ELSE NoText>>

(* The sample with the frame that is read; behind a BEGIN block it is left *)
(* out.                                                                    *)
WithFrame(x, tag, v) ==
    LET hide == newPerl /\ x.begin /\ tag \in {"EVAL_FRAME", "MAIN_FRAME"} IN
    [x EXCEPT !.frames = IF hide THEN @ ELSE Append(@, FrameRead(tag, v)),
              !.remap = @ \o TryRemap(tag, v),
              !.begin = tag \in {"SUB_FRAME", "XSUB_FRAME"} /\ v[2] = "BEGIN"]

ReadFrame(p) ==
    /\ Reading(p, {"SUB_FRAME", "XSUB_FRAME", "EVAL_FRAME", "MAIN_FRAME"})
    /\ IF sample = NoSample THEN Stop("croak")
       ELSE /\ sample' = WithFrame(sample, p.tag, p.values)
            /\ at' = p.at
            /\ UNCHANGED <<reader, new_metadata, custom_metadata, source_code, sections,
                           file_ended, stream_ended, returned>>
    /\ UNCHANGED <<output, perl, history>>

ReadEvalSource(p) ==
    /\ Reading(p, {"EVAL_SEQ"})
    /\ source_code' = Store(source_code, p.values[2], p.values[1])
    /\ at' = p.at
    /\ UNCHANGED <<output, perl, history, reader, sample, new_metadata, custom_metadata,
                   sections, file_ended, stream_ended, returned>>

(* maybe_map_eval(): the source of the eval, or what the mapper knows.     *)
maybe_map_eval(code, f) ==
    LET sources == {e \in code : e[1] = EvalNumber(f)} IN
    IF sources # {} THEN FileName("eval", (CHOOSE e \in sources : TRUE)[2])
    ELSE IF EvalNumber(f) \in Mapped THEN FileName("mapped", f)
    ELSE make_fullfile(f)

(* Mutant of Remapped: an eval is mapped when its frame is read.           *)
RemappedNot(x, code) == x.frames

(* try_eval_remap[i] is taken for the file of frame i.                     *)
Remapped(x, code) ==
    [i \in DOMAIN x.frames |->
        IF i \in DOMAIN x.remap /\ x.remap[i] # NoText
        THEN [x.frames[i] EXCEPT !.file = maybe_map_eval(code, x.remap[i])]
        ELSE x.frames[i]]

(* av_fetch() returns NULL for a frame that is not there.                  *)
ReadSampleEnd(p) ==
    /\ Reading(p, {"SAMPLE_END"})
    /\ IF sample = NoSample THEN Stop("croak")
       ELSE IF \E i \in DOMAIN sample.remap \ DOMAIN sample.frames : sample.remap[i] # NoText
       THEN Stop("crashed")
       ELSE /\ Return(Returned(sample.weight, Remapped(sample, source_code), sections))
            /\ at' = p.at
            /\ UNCHANGED <<reader, custom_metadata, source_code, sections, file_ended,
                           stream_ended>>
    /\ UNCHANGED <<output, perl, history>>

ReadMetadata(p) ==
    /\ Reading(p, {"CUSTOM_META"})
    /\ LET k == p.values[1]
           v == p.values[2] IN
       /\ custom_metadata' = Store(custom_metadata, k, v)
       /\ new_metadata' = Store(new_metadata, k, v)
    /\ at' = p.at
    /\ UNCHANGED <<output, perl, history, reader, sample, source_code, sections,
                   file_ended, stream_ended, returned>>

Depth(start, d) == IF start THEN d + 1 ELSE d - 1

ReadSection(p) ==
    /\ Reading(p, {"SECTION_START", "SECTION_END"})
    /\ LET s == p.values[1]
           start == p.tag = "SECTION_START" IN
       IF ~start /\ sections[s] = 0 THEN Stop("croak")
       ELSE /\ sections' = [sections EXCEPT ![s] = Depth(start, @)]
            /\ Return(Returned(0, NoFrames, sections'))
            /\ at' = p.at
            /\ UNCHANGED <<reader, custom_metadata, source_code, file_ended, stream_ended>>
    /\ UNCHANGED <<output, perl, history>>

ReadEnd(p) ==
    /\ Reading(p, {"FILE_END", "STREAM_END"})
    /\ file_ended' = TRUE
    /\ stream_ended' = (stream_ended \/ p.tag = "STREAM_END")
    /\ at' = p.at
    /\ UNCHANGED <<output, perl, history, reader, sample, new_metadata, custom_metadata,
                   source_code, sections, returned>>

(* An iteration of the loop of read_trace().                               *)
ReadTrace ==
    /\ reader = "body"
    /\ \E p \in {ReadRecord(file, at, Known)} :
          \/ EndOfFile(p) \/ SkipUnknown(p)
          \/ ReadSampleStart(p) \/ ReadFrame(p) \/ ReadEvalSource(p)
          \/ ReadSampleEnd(p) \/ ReadMetadata(p) \/ ReadSection(p) \/ ReadEnd(p)

Next ==
    \/ \E global \in BOOLEAN : WriteHeader(global)
    \/ \E w \in Weights : start_sample(w)
    \/ \E x \in Frames : add_frame(x)
    \/ \E n \in Evals : add_eval_source(n)
    \/ end_sample
    \/ \E s \in Sections : start_section(s) \/ end_section(s)
    \/ \E k \in MetaKeys, v \in MetaValues : write_custom_metadata(k, v)
    \/ WriteLater(2)
    \/ flush
    \/ \E tag \in {"FILE_END", "STREAM_END"} : close(tag)
    \/ Kill
    \/ Open \/ ReadHeader \/ ReadTrace

Spec == Init /\ [][Next]_vars

-----------------------------------------------------------------------------
(* Every record is read as it was written, also behind records that the    *)
(* reader skips: only a file that was cut ends inside a record.            *)
RecordsRead ==
    /\ reader # "garbage"
    /\ reader = "croak" => writer = "killed"

(* read_trace() returns the samples that were written, in order, with      *)
(* their weights, their frames under the names of the sources, the         *)
(* sections they are in and the metadata before them; all of them, if the  *)
(* file was closed.                                                        *)
SamplesReturned ==
    /\ IsPrefix(returned, sent)
    /\ reader = "end" /\ writer = "closed" => returned = sent

(* The value that samples carry last for each key.                         *)
Latest(xs) ==
    UNION {{e \in xs[i].metadata : \A j \in i + 1 .. Len(xs) : \A m \in xs[j].metadata : m[1] # e[1]} :
              i \in DOMAIN xs}

(* The metadata returned with samples are all there are: force_empty_frame *)
(* makes a sample for those that have none.                                *)
MetadataReturned ==
    reader = "end" /\ writer = "closed" => Latest(returned) = metadata

(* A writer was killed inside a record: what it lost does not begin with a *)
(* tag.                                                                    *)
CutInside == lost # <<>> /\ lost[1][1] # "tag"

(* A file ends its stream if it was closed as its last one or cut between  *)
(* two records, and only then.  One that was cut inside a record ends      *)
(* nothing: the reader croaks there, although read_trace() means to treat  *)
(* truncated files as the end of a stream.                                 *)
EndReported ==
    /\ reader = "end" =>
          /\ file_ended /\ ~CutInside
          /\ stream_ended <=>
                writer = "killed" \/ \E k \in 1 .. Len(file) : file[k] = Tag("STREAM_END")
    /\ reader = "croak" => CutInside /\ ~file_ended /\ ~stream_ended

=============================================================================
