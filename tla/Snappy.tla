------------------------------- MODULE Snappy -------------------------------
(***************************************************************************)
(* How the records of a trace are compressed and restored: the fast        *)
(* compressor and decompressor of src/snappy, in the variant for           *)
(* little-endian machines with unaligned access (x86-64).                  *)
(*                                                                         *)
(* Compressing is a loop over blocks; in each a scan for four bytes seen   *)
(* before, a loop that extends the match and a loop that cuts it into      *)
(* copies.  Decompressing is a loop over elements, some of which copy      *)
(* parts of the output that overlap themselves.  One action is one         *)
(* iteration of one of these loops.                                        *)
(*                                                                         *)
(* Both take short cuts that read or write a few bytes more than asked     *)
(* for.  A byte written that way into the output is Junk; reads and writes *)
(* record how far the buffers are used.                                    *)
(***************************************************************************)
EXTENDS Integers, Sequences

CONSTANTS
    Bytes,      \* the values of a byte
    Junk,       \* what a short cut leaves behind the bytes it is asked for
    Texts,      \* names of the texts to compress
    Size,       \* their sizes
    Content,    \* their bytes, from offset 0
    BlockSize,  \* kBlockSize
    Buckets,    \* the values of the hash function
    Hash(_)     \* any function from four bytes to Buckets

ASSUME TextAssumption ==
    /\ Size \in [Texts -> Nat]
    /\ \A t \in Texts : Content[t] \in [0 .. Size[t] - 1 -> Bytes]
    /\ \A t \in Texts : Size[t] \div 16384 < 8 * 16384
    /\ Junk \notin Bytes

(* What a buffer for the output holds.                                     *)
Cells == Bytes \cup {Junk}

(* The margin of the input that is not searched.                           *)
kInputMarginBytes == 15

(* Offsets are at most 16 bits wide, and a block is not all margin.        *)
ASSUME BlockAssumption ==
    BlockSize \in Nat /\ BlockSize >= kInputMarginBytes /\ BlockSize <= 65536

(* UNALIGNED_LOAD32                                                        *)
Word(t, i) == <<Content[t][i], Content[t][i + 1], Content[t][i + 2], Content[t][i + 3]>>

ASSUME HashAssumption ==
    \A t \in Texts : \A i \in 0 .. Size[t] - 4 : Hash(Word(t, i)) \in Buckets

VARIABLES
    text,       \* the text that is compressed
    pc,         \* where the program is
    \* the compressor
    block,      \* start of the current block (base_ip)
    ip, next_emit, skip, table, candidate,
    len,        \* matched, then what EmitCopy() has left to emit
    stream,     \* the elements written so far
    csize,      \* and the bytes they take, with the length in front
    reached,    \* the end of the furthest write into the compressed buffer
    \* the decompressor
    next,       \* the next element of the stream
    used,       \* the bytes of the stream behind which it begins
    dst, op,    \* the output and the bytes in it
    src, to,    \* pointers of the copy that is going on
    wrote       \* the end of the furthest write into the output

compressor == <<block, ip, next_emit, skip, table, candidate, stream, csize, reached>>
decompressor == <<next, used, dst, op, src, to, wrote>>
vars == <<text, pc, len, compressor, decompressor>>

-----------------------------------------------------------------------------
(* Lengths in front of the stream                                          *)

(* Groups of seven bits, the lowest first, 128 added to all but the last.  *)
Group(v, k) == ((v \div k) % 128) + 128

EncodeVarint32(v) ==
    IF v < 128 THEN <<v>>
    ELSE IF v < 16384 THEN <<Group(v, 1), v \div 128>>
    ELSE IF v < 128 * 16384 THEN <<Group(v, 1), Group(v, 128), v \div 16384>>
    ELSE IF v < 16384 * 16384
    THEN <<Group(v, 1), Group(v, 128), Group(v, 16384), v \div (128 * 16384)>>
    ELSE <<Group(v, 1), Group(v, 128), Group(v, 16384), Group(v, 128 * 16384),
           v \div (16384 * 16384)>>

(* The position of the byte that ends the number.                          *)
VarintEnd(s) ==
    CHOOSE i \in DOMAIN s : s[i] < 128 /\ \A j \in 1 .. i - 1 : s[j] >= 128

GetUncompressedLength(s) ==
    LET group(i) == IF i <= VarintEnd(s) THEN s[i] % 128 ELSE 0 IN
    group(1) + 128 * group(2) + 16384 * group(3)
             + (128 * 16384) * group(4) + (16384 * 16384) * group(5)

-----------------------------------------------------------------------------
(* Elements of the stream: an opcode, extra bytes with a number, and count *)
(* bytes of a literal.  Two fields are not written: at is the place in the *)
(* text that the element stands for, pos its own place in the stream.      *)

Byte(i) == Content[text][i]
n == Size[text]

Load32(i) == Word(text, i)

(* The number of bytes a positive number takes.                            *)
ByteCount(v) ==
    IF v < 256 THEN 1 ELSE IF v < 65536 THEN 2 ELSE IF v < 1024 * 16384 THEN 3 ELSE 4

(* get_unaligned_le(): the lowest k bytes.                                 *)
LowBytes(v, k) ==
    IF k = 0 THEN 0 ELSE IF k = 1 THEN v % 256 ELSE IF k = 2 THEN v % 65536
    ELSE IF k = 3 THEN v % (1024 * 16384) ELSE v

Literal(from, upto) ==
    LET m == upto - from - 1 IN
    [opcode  |-> IF m < 60 THEN 4 * m ELSE 4 * (59 + ByteCount(m)),
     extra   |-> IF m < 60 THEN 0 ELSE ByteCount(m),
     trailer |-> m,
     count   |-> m + 1,
     data    |-> [i \in 0 .. m |-> Byte(from + i)],
     at      |-> from,
     pos     |-> csize]

CopyOf(opcode, extra, trailer, from) ==
    [opcode |-> opcode % 256, extra |-> extra, trailer |-> trailer, count |-> 0,
     data |-> Junk, at |-> from, pos |-> csize]

(* Mutant of Copy: the short form is used for offsets of twelve bits.      *)
CopyShort(from, offset, l) ==
    IF l < 12 /\ offset < 4096
    THEN CopyOf(1 + (4 * (l - 4)) + (32 * (offset \div 256)), 1, offset % 256, from)
    ELSE CopyOf(2 + (4 * (l - 1)), 2, offset % 65536, from)

(* EmitCopyLessThan64()                                                    *)
Copy(from, offset, l) ==
    IF l < 12 /\ offset < 2048
    THEN CopyOf(1 + (4 * (l - 4)) + (32 * (offset \div 256)), 1, offset % 256, from)
    ELSE CopyOf(2 + (4 * (l - 1)), 2, offset % 65536, from)

IsLiteral(e) == e.opcode % 4 = 0

(* char_table, and the tags of long literals: what an opcode stands for.   *)
ExtraBytes(e) ==
    IF IsLiteral(e) THEN IF e.opcode \div 4 < 60 THEN 0 ELSE (e.opcode \div 4) - 59
    ELSE IF e.opcode % 4 = 1 THEN 1 ELSE IF e.opcode % 4 = 2 THEN 2 ELSE 4

Length(e) ==
    IF IsLiteral(e) /\ ExtraBytes(e) > 0 THEN LowBytes(e.trailer, ExtraBytes(e)) + 1
    ELSE IF e.opcode % 4 = 1 THEN ((e.opcode \div 4) % 8) + 4
    ELSE (e.opcode \div 4) + 1

Offset(e) ==
    LowBytes(e.trailer, ExtraBytes(e))
    + (IF e.opcode % 4 = 1 THEN 256 * (e.opcode \div 32) ELSE 0)

ElementSize(e) == 1 + e.extra + e.count

Larger(a, b) == IF a < b THEN b ELSE a

(* Append e; a short cut writes up to overrun bytes.                       *)
Emit(e, overrun) ==
    /\ stream' = Append(stream, e)
    /\ csize' = csize + ElementSize(e)
    /\ reached' = Larger(reached, csize + Larger(overrun, ElementSize(e)))

-----------------------------------------------------------------------------
(* Compressing                                                             *)

blockEnd == IF n - block < BlockSize THEN n ELSE block + BlockSize
limit == blockEnd - kInputMarginBytes

csnappy_max_compressed_length(m) == 32 + m + (m \div 6)

EmptyTable == [h \in Buckets |-> 0]

Init ==
    /\ text \in Texts
    /\ pc = "block" /\ len = 0
    /\ block = 0 /\ ip = 0 /\ next_emit = 0 /\ skip = 32
    /\ table = EmptyTable /\ candidate = 0
    /\ stream = <<>>
    /\ csize = Len(EncodeVarint32(n)) /\ reached = csize
    /\ next = 1 /\ used = 0
    /\ dst = [i \in 0 .. n - 1 |-> Junk]
    /\ op = 0 /\ src = 0 /\ to = 0 /\ wrote = 0

(* The loop of csnappy_compress(), and csnappy_compress_fragment() up to   *)
(* its main loop.                                                          *)
NextBlock ==
    /\ pc = "block" /\ block < n
    /\ next_emit' = block
    /\ IF blockEnd - block < kInputMarginBytes
       THEN pc' = "remainder" /\ UNCHANGED <<ip, skip, table>>
       ELSE pc' = "scan" /\ ip' = block + 1 /\ skip' = 32 /\ table' = EmptyTable
    /\ UNCHANGED <<text, len, block, candidate, stream, csize, reached, decompressor>>

Compressed ==
    /\ pc = "block" /\ block = n
    /\ pc' = "element"
    /\ used' = VarintEnd(EncodeVarint32(n))
    /\ UNCHANGED <<text, len, compressor, next, dst, op, src, to, wrote>>

(* Mutant of Relative: the table holds offsets from the start of the text. *)
Absolute(i) == i

(* Entries of the table are offsets from base_ip.                          *)
Relative(i) == i - block

Probe(i) == block + table[Hash(Load32(i))]

(* Step 1: look for four bytes seen before; step 2: write what lies before *)
(* them.                                                                   *)
Scan ==
    /\ pc = "scan"
    /\ LET after == ip + (skip \div 32) IN
       IF after > limit
       THEN pc' = "remainder"
            /\ UNCHANGED <<ip, skip, table, candidate, stream, csize, reached, len>>
       ELSE /\ candidate' = Probe(ip)
            /\ table' = [table EXCEPT ![Hash(Load32(ip))] = Relative(ip)]
            /\ skip' = skip + 1
            /\ IF Load32(ip) = Load32(candidate')
               THEN /\ Emit(Literal(next_emit, ip),
                            IF ip - next_emit <= 16 THEN 17 ELSE 0)
                    /\ pc' = "extend" /\ len' = 4 /\ UNCHANGED ip
               ELSE ip' = after /\ UNCHANGED <<pc, len, stream, csize, reached>>
    /\ UNCHANGED <<text, block, next_emit, decompressor>>

Same(k) == Byte(candidate + k) = Byte(ip + k)

(* An iteration of FindMatchLength(): eight bytes at a time, and one at a  *)
(* time where fewer are left.                                              *)
Extend ==
    /\ pc = "extend"
    /\ IF ip + len + 8 <= blockEnd
       THEN IF \A k \in 0 .. 7 : Same(len + k)
            THEN len' = len + 8 /\ UNCHANGED <<pc, ip>>
            ELSE \E k \in 0 .. 7 :
                    /\ ~Same(len + k) /\ \A j \in 0 .. k - 1 : Same(len + j)
                    /\ len' = len + k /\ ip' = ip + len' /\ pc' = "copy"
       ELSE IF ip + len < blockEnd /\ Same(len)
            THEN len' = len + 1 /\ UNCHANGED <<pc, ip>>
            ELSE ip' = ip + len /\ pc' = "copy" /\ UNCHANGED len
    /\ candidate' = candidate + (ip' - ip)
    /\ UNCHANGED <<text, block, next_emit, skip, table, stream, csize, reached,
                   decompressor>>

(* The length of the next copy: at least four bytes are left for the last. *)
CopyLength == IF len >= 68 THEN 64 ELSE IF len > 64 THEN 60 ELSE len

EmitCopy ==
    /\ pc = "copy"
    /\ Emit(Copy(ip - len, ip - candidate, CopyLength), 0)
    /\ len' = len - CopyLength
    /\ pc' = IF len' = 0 THEN "next" ELSE "copy"
    /\ UNCHANGED <<text, block, ip, next_emit, skip, table, candidate, decompressor>>

(* Step 3: is there a match right behind the last one?                     *)
AfterCopy ==
    /\ pc = "next"
    /\ next_emit' = ip
    /\ IF ip >= limit
       THEN pc' = "remainder" /\ UNCHANGED <<ip, skip, table, candidate, len>>
       ELSE LET earlier == [table EXCEPT ![Hash(Load32(ip - 1))] = Relative(ip - 1)] IN
            /\ candidate' = block + earlier[Hash(Load32(ip))]
            /\ table' = [earlier EXCEPT ![Hash(Load32(ip))] = Relative(ip)]
            /\ IF Load32(ip) = Load32(candidate')
               THEN pc' = "extend" /\ len' = 4 /\ UNCHANGED <<ip, skip>>
               ELSE pc' = "scan" /\ ip' = ip + 1 /\ skip' = 32 /\ UNCHANGED len
    /\ UNCHANGED <<text, block, stream, csize, reached, decompressor>>

EmitRemainder ==
    /\ pc = "remainder"
    /\ IF next_emit < blockEnd
       THEN Emit(Literal(next_emit, blockEnd), 0)
       ELSE UNCHANGED <<stream, csize, reached>>
    /\ block' = blockEnd /\ pc' = "block"
    /\ UNCHANGED <<text, len, ip, next_emit, skip, table, candidate, decompressor>>

-----------------------------------------------------------------------------
(* Decompressing                                                           *)

(* *dst_len, the uncompressed length.                                      *)
dstLen == GetUncompressedLength(EncodeVarint32(n))
space == dstLen - op
element == stream[next]

(* UnalignedCopy64(): bytes outside of the output are only recorded.       *)
Copy8(d, from, at) ==
    [i \in DOMAIN d |-> IF i \in at .. at + 7 THEN d[from + (i - at)] ELSE d[i]]

(* The element is done, the output grew by its length.                     *)
Advance ==
    /\ op' = op + Length(element)
    /\ next' = next + 1
    /\ used' = used + ElementSize(element)

(* SAW__AppendFastPath() for up to 16 bytes if there are 16 to read, and   *)
(* SAW__Append().                                                          *)
TakeLiteral ==
    /\ pc = "element" /\ next <= Len(stream) /\ IsLiteral(element)
    /\ LET l == Length(element)
           wide == l <= 16 /\ csize - used - 1 >= 16 /\ space >= 16 IN
       IF l > space \/ l > csize - used - 1 - ExtraBytes(element)
       THEN pc' = "failed" /\ UNCHANGED <<dst, wrote, op, next, used>>
       ELSE /\ dst' = [i \in DOMAIN dst |->
                  IF i \in op .. op + l - 1 THEN element.data[i - op]
                  ELSE IF wide /\ i \in op + l .. op + 15 THEN Junk ELSE dst[i]]
            /\ wrote' = Larger(wrote, op + (IF wide THEN 16 ELSE l))
            /\ Advance /\ UNCHANGED pc
    /\ UNCHANGED <<text, len, compressor, src, to>>

(* Mutant of kMaxIncrementCopyOverflow: less than the seven bytes that a   *)
(* copy of four bytes writes too many.                                     *)
SmallOverflow == 6

(* The source counts ten, for copies of a single byte; the compressor      *)
(* writes none below four.                                                 *)
kMaxIncrementCopyOverflow == 10

(* SAW__AppendFromSelf(): copy sixteen bytes at once, or choose the loop   *)
(* that may write behind the copy, or the one that may not.                *)
TakeCopy ==
    /\ pc = "element" /\ next <= Len(stream) /\ ~IsLiteral(element)
    /\ LET l == Length(element)
           offset == Offset(element)
           from == op - offset
           loop == IF space >= l + kMaxIncrementCopyOverflow
                   THEN "repeat" ELSE "bytes" IN
       IF offset = 0 \/ offset > op \/ l > space
       THEN pc' = "failed" /\ UNCHANGED <<dst, wrote, op, next, used, src, to, len>>
       ELSE IF l <= 16 /\ offset >= 8 /\ space >= 16
       THEN /\ dst' = Copy8(Copy8(dst, from, op), from + 8, op + 8)
            /\ wrote' = Larger(wrote, op + 16)
            /\ Advance /\ UNCHANGED <<pc, src, to, len>>
       ELSE /\ pc' = loop /\ src' = from /\ to' = op /\ len' = l
            /\ UNCHANGED <<dst, wrote, op, next, used>>
    /\ UNCHANGED <<text, compressor>>

(* IncrementalCopyFastPath(): while the pointers are less than eight bytes *)
(* apart, a copy doubles what is repeated.                                 *)
Repeat ==
    /\ pc = "repeat"
    /\ IF to - src < 8
       THEN /\ dst' = Copy8(dst, src, to) /\ wrote' = Larger(wrote, to + 8)
            /\ len' = len - (to - src) /\ to' = to + (to - src)
            /\ UNCHANGED pc
       ELSE pc' = "eights" /\ UNCHANGED <<dst, wrote, len, to>>
    /\ UNCHANGED <<text, compressor, next, used, op, src>>

Eights ==
    /\ pc = "eights"
    /\ IF len > 0
       THEN /\ dst' = Copy8(dst, src, to) /\ wrote' = Larger(wrote, to + 8)
            /\ src' = src + 8 /\ to' = to + 8 /\ len' = len - 8
            /\ UNCHANGED <<pc, op, next, used>>
       ELSE pc' = "element" /\ Advance /\ UNCHANGED <<dst, wrote, src, to, len>>
    /\ UNCHANGED <<text, compressor>>

(* IncrementalCopy(): one byte at a time.                                  *)
CopyBytes ==
    /\ pc = "bytes"
    /\ dst' = [dst EXCEPT ![to] = dst[src]] /\ wrote' = Larger(wrote, to + 1)
    /\ src' = src + 1 /\ to' = to + 1 /\ len' = len - 1
    /\ IF len' > 0 THEN UNCHANGED <<pc, op, next, used>>
       ELSE pc' = "element" /\ Advance
    /\ UNCHANGED <<text, compressor>>

Finish ==
    /\ pc = "element" /\ next > Len(stream)
    /\ pc' = "done"
    /\ UNCHANGED <<text, len, compressor, decompressor>>

Next ==
    \/ NextBlock \/ Scan \/ Extend \/ EmitCopy \/ AfterCopy \/ EmitRemainder
    \/ Compressed \/ TakeLiteral \/ TakeCopy \/ Repeat \/ Eights \/ CopyBytes
    \/ Finish

Spec == Init /\ [][Next]_vars

-----------------------------------------------------------------------------
TypeOK ==
    /\ text \in Texts
    /\ pc \in {"block", "scan", "extend", "copy", "next", "remainder", "element",
              "repeat", "eights", "bytes", "done", "failed"}
    /\ block \in 0 .. n /\ ip \in 0 .. n /\ next_emit \in 0 .. n
    /\ candidate \in 0 .. n
    /\ skip \in Nat /\ csize \in Nat /\ reached \in Nat /\ used \in Nat
    /\ table \in [Buckets -> 0 .. BlockSize]
    /\ len \in Int /\ src \in Nat /\ to \in Nat /\ wrote \in Nat
    /\ next \in 1 .. Len(stream) + 1
    /\ op \in 0 .. n
    /\ dst \in [0 .. n - 1 -> Cells]

(* What is restored is the text that was compressed: the decompressor      *)
(* accepts every element the compressor wrote, the bytes it has restored   *)
(* are those of the text at every step between two elements, and in the    *)
(* end they are all of them.                                               *)
RoundTrip ==
    /\ pc # "failed"
    /\ pc \in {"element", "done"} => \A i \in 0 .. op - 1 : dst[i] = Byte(i)
    /\ pc = "done" => op = n

(* The buffers suffice: the compressed bytes and the bytes behind a short  *)
(* literal fit into csnappy_max_compressed_length(), and neither the wide  *)
(* copies nor IncrementalCopyFastPath() write behind the output.           *)
BuffersSuffice ==
    /\ reached <= csnappy_max_compressed_length(n)
    /\ wrote <= n

=============================================================================
