----------------------------- MODULE TraceFormat -----------------------------
(***************************************************************************)
(* The records of trace files: how src/tracefile.cpp writes numbers,       *)
(* strings and records, and how it reads them.                             *)
(*                                                                         *)
(* A file is a sequence of bytes.  A byte is a tag, a number or the k-th   *)
(* byte of a string; one that is read as something else makes what follows *)
(* garbage.                                                                *)
(***************************************************************************)
EXTENDS Integers, Sequences, SequencesExt

CONSTANTS
    Strings,     \* packages, names, files, sections, metadata, sources, ids
    Size         \* their lengths

NoText == ""

(* Numbers of 32 bits with a sign.                                         *)
IsInt32(v) == v \in Int /\ -2147483647 <= v + 1 /\ v <= 2147483647

ASSUME StringsAssumption ==
    /\ Size \in [Strings -> Nat] /\ \A s \in Strings : IsInt32(Size[s])
    /\ {NoText, "id"} \subseteq Strings /\ \A s \in Strings : Size[s] = 0 <=> s = NoText

-----------------------------------------------------------------------------
(* Bytes                                                                   *)

Tag(t) == <<"tag", t>>
Byte(v) == <<"byte", v>>
Char(s, k) == <<"char", s, k>>

IsByte(b) == b[1] = "byte"
Continued(b) == IsByte(b) /\ b[2] >= 128

(* The size of a varint as records declare it.                             *)
varint_size(v) ==
    IF v < 0 \/ v >= 2097152 THEN 4 ELSE IF v < 128 THEN 1 ELSE IF v < 16384 THEN 2 ELSE 3

(* Bits 7 * k .. 7 * k + 6 of an unsigned number of 32 bits.               *)
Group(v, k) ==
    CASE k = 0 -> v % 128 [] k = 1 -> (v \div 128) % 128
      [] k = 2 -> (v \div 16384) % 128 [] k = 3 -> (v \div 2097152) % 128
      [] k = 4 -> (v \div 268435456) % 16

(* The highest group that is written; negative numbers take all five.      *)
TopGroup(v) == IF v < 0 \/ v >= 268435456 THEN 4 ELSE varint_size(v) - 1

(* write_varint(): the highest group first, 128 added to all but the last. *)
Varint(v) ==
    [i \in 1 .. TopGroup(v) + 1 |->
        Byte(Group(v, TopGroup(v) + 1 - i) + (IF i <= TopGroup(v) THEN 128 ELSE 0))]

(* write_string(): flags, length, bytes.                                   *)
StringBytes(s) ==
    <<Byte(0)>> \o Varint(Size[s]) \o [k \in 1 .. Size[s] |-> Char(s, k)]

string_size(s) == varint_size(Size[s]) + Size[s]

-----------------------------------------------------------------------------
(* Records: a tag and fields; in the body of a file also their size.       *)

Num(v) == <<"number", v>>
Str(s) == <<"string", s>>
Id(s) == <<"id", s>>       \* bytes without flags and length

FieldBytes(f) ==
    CASE f[1] = "number" -> Varint(f[2])
      [] f[1] = "string" -> StringBytes(f[2])
      [] f[1] = "id" -> [k \in 1 .. Size[f[2]] |-> Char(f[2], k)]

(* No record has more than five fields.                                    *)
Payload(fields) ==
    LET part(i) == IF i <= Len(fields) THEN FieldBytes(fields[i]) ELSE <<>>
    IN  part(1) \o part(2) \o part(3) \o part(4) \o part(5)

(* The size of a record as it is declared, for metadata without the        *)
(* lengths of the strings.                                                 *)
DeclaredSize(tag, fields) ==
    LET fieldSize(f) == IF f[1] = "number" THEN varint_size(f[2])
                        ELSE IF tag = "CUSTOM_META" THEN Size[f[2]] ELSE string_size(f[2])
        part(i) == IF i <= Len(fields) THEN fieldSize(fields[i]) ELSE 0
    IN  part(1) + part(2) + part(3) + part(4) + part(5)

Record(tag, fields) ==
    <<Tag(tag)>> \o (Varint(DeclaredSize(tag, fields)) \o Payload(fields))

HeaderRecord(tag, fields) == <<Tag(tag)>> \o Payload(fields)

(* What is read of a record behind its size.                               *)
Layout(tag) ==
    CASE tag = "SAMPLE_START" -> <<"number", "string">>
      [] tag = "SUB_FRAME" -> <<"string", "string", "string", "number", "number">>
      [] tag = "XSUB_FRAME" -> <<"string", "string">>
      [] tag \in {"EVAL_FRAME", "MAIN_FRAME"} -> <<"string", "number">>
      [] tag = "EVAL_SEQ" -> <<"string", "number">>
      [] tag \in {"SECTION_START", "SECTION_END"} -> <<"string">>
      [] tag = "CUSTOM_META" -> <<"string", "string">>
      [] OTHER -> <<>>

(* What is read of a record of the header.                                 *)
HeaderLayout(tag) ==
    CASE tag = "META_PERL_VERSION" -> <<"number", "number", "number">>
      [] tag \in {"META_TICK_DURATION", "META_STACK_SAMPLE_DEPTH"} -> <<"number">>
      [] tag = "META_GENEALOGY" -> <<"number", "number", "id", "id">>
      [] tag = "CUSTOM_META" -> <<"number", "string", "string">>
      [] OTHER -> <<>>

-----------------------------------------------------------------------------
(* Reading: a state of the parser is the tag of the record, where it is,   *)
(* what it has read, and whether it is "ok", met the end of the file or    *)
(* read "garbage".                                                         *)

Parser(tag, k) == [tag |-> tag, at |-> k, values |-> <<>>, status |-> "ok"]
Failed(p, why) == [p EXCEPT !.status = why]
Read(p, v, k) == [p EXCEPT !.at = k, !.values = Append(@, v)]

(* The number whose groups are the bytes from .. to of a file, in 32 bits  *)
(* with a sign.                                                            *)
VarintValue(file, from, to) ==
    LET group(k) == IF to - k >= from THEN file[to - k][2] % 128 ELSE 0
        top == group(4) % 16
    IN  group(0) + 128 * group(1) + 16384 * group(2) + 2097152 * group(3)
        + 268435456 * (IF top >= 8 THEN top - 16 ELSE top)

(* read_varint()                                                           *)
ReadNumber(file, p) ==
    IF \A k \in p.at + 1 .. Len(file) : Continued(file[k]) THEN Failed(p, "eof")
    ELSE LET end == CHOOSE k \in p.at + 1 .. Len(file) :
                       ~Continued(file[k]) /\ \A j \in p.at + 1 .. k - 1 : Continued(file[j]) IN
         IF ~IsByte(file[end]) THEN Failed(p, "garbage")
         ELSE Read(p, VarintValue(file, p.at + 1, end), end)

(* read_bytes(): the k bytes of one string.                                *)
ReadChars(file, p, k) ==
    LET s == IF k = 0 THEN NoText ELSE file[p.at + 1][2] IN
    IF p.at + k > Len(file) THEN Failed(p, "eof")
    ELSE IF \A j \in 1 .. k : file[p.at + j] = Char(s, j) THEN Read(p, s, p.at + k)
    ELSE Failed(p, "garbage")

(* Mutant of ReadString: the flags are taken for the length.               *)
ReadStringPlain(file, p) ==
    LET size == ReadNumber(file, p)
        k == Last(size.values)
    IN  IF size.status # "ok" THEN Failed(p, size.status)
        ELSE ReadChars(file, [p EXCEPT !.at = size.at], k)

(* read_string()                                                           *)
ReadString(file, p) ==
    LET size == ReadNumber(file, [p EXCEPT !.at = @ + 1])
        k == Last(size.values)
    IN  IF p.at < Len(file) /\ ~IsByte(file[p.at + 1]) THEN Failed(p, "garbage")
        ELSE IF size.status # "ok" THEN Failed(p, size.status)
        ELSE ReadChars(file, [p EXCEPT !.at = size.at], k)

ReadField(file, p, kind) ==
    IF p.status # "ok" THEN p
    ELSE CASE kind = "number" -> ReadNumber(file, p)
           [] kind = "string" -> ReadString(file, p)
           [] kind = "id" -> ReadChars(file, p, Size["id"])

ReadFields(file, p, layout) ==
    LET read(q, i) == IF i <= Len(layout) THEN ReadField(file, q, layout[i]) ELSE q
    IN  read(read(read(read(read(p, 1), 2), 3), 4), 5)

(* The record behind the first k bytes: its tag, and for one that is read  *)
(* its fields.  The size of a record that is not known is skipped.         *)
NoTag == ""
TagAt(file, k) ==
    IF k < Len(file) /\ file[k + 1][1] = "tag" THEN file[k + 1][2] ELSE NoTag

ReadHeaderRecord(file, k) ==
    LET tag == TagAt(file, k)
        body == Parser(tag, k + 1)
    IN  IF tag = NoTag THEN Failed(body, "garbage")
        ELSE ReadFields(file, body, HeaderLayout(tag))

ReadRecord(file, k, known) ==
    LET tag == TagAt(file, k)
        size == ReadNumber(file, Parser(tag, k + 1))
        body == [size EXCEPT !.values = <<>>]
        skip == Last(size.values)
    IN  IF k = Len(file) THEN Failed(Parser(tag, k), "end")
        ELSE IF tag = NoTag THEN Failed(Parser(tag, k), "garbage")
        ELSE IF size.status # "ok" THEN size
        ELSE IF tag \in known THEN ReadFields(file, body, Layout(tag))
        ELSE IF body.at + skip > Len(file) THEN Failed(body, "eof")
        ELSE [body EXCEPT !.at = @ + skip]

=============================================================================
