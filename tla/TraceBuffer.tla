----------------------------- MODULE TraceBuffer -----------------------------
(***************************************************************************)
(* How the bytes of records get into a trace file and out of it again:     *)
(* OutputBuffer and InputBuffer of src/tracefile.cpp, on top of            *)
(* SnappyOutput and SnappyInput of src/snappy.cpp.                         *)
(*                                                                         *)
(* The writer collects bytes and writes them as packets: two bytes with    *)
(* the length of the packet, then the compressed bytes.  The reader loads  *)
(* what fits into its own buffer, which may end anywhere in a packet, and  *)
(* expands one packet at a time.  A writer that is killed leaves the file  *)
(* cut anywhere behind what it flushed.                                    *)
(*                                                                         *)
(* A byte is known by its number in the order in which it was written.     *)
(***************************************************************************)
EXTENDS Integers, Sequences

CONSTANTS
    BufferSize,  \* OUTPUT_BUFFER_SIZE
    snappy_max,  \* the size of the reader's buffer for compressed bytes
    Sizes,       \* the sizes k bytes may be compressed to, for each k
    Raw,         \* the size of the magic and the version before the packets
    Requests,    \* sizes of what is written, read or skipped at once
    MaxBytes     \* bytes written, a bound for TLC

ASSUME BufferAssumption ==
    /\ BufferSize \in Nat \ {0} /\ snappy_max \in Nat /\ Raw \in Nat
    /\ Requests \subseteq Nat \ {0} /\ MaxBytes \in Nat

(* A packet and its two bytes of length fit into the reader's buffer: see  *)
(* BuffersSuffice in module Snappy.                                        *)
ASSUME SizesAssumption ==
    /\ Sizes \in [1 .. BufferSize -> SUBSET (1 .. snappy_max - 2)]
    /\ \A k \in 1 .. BufferSize : Sizes[k] # {}

VARIABLES
    writer,     \* "open", "closed" or "killed"
    wrote,      \* bytes handed to the buffer
    flushed,    \* and those of them in packets
    left,       \* what is left of a long write
    packets,
    size,       \* bytes in the file
    durable,    \* bytes of the file that fflush() wrote, and
    promised,   \* the bytes written before it
    reader,     \* "none", "idle", "copy", "fill", or how reading ended: "eof", "croak", "crashed"
    loaded,     \* bytes read from the file
    held,       \* the last of them, in snappy_input
    pos, end,   \* the bytes in input_buffer, from input_position to input_end
    need, byte, \* what is left of a request, and whether it is read_byte()
    got         \* bytes delivered

output == <<writer, wrote, flushed, left, packets, size, durable, promised>>
input == <<reader, loaded, held, pos, end, need, byte, got>>
vars == <<output, input>>

Smaller(a, b) == IF a < b THEN a ELSE b

Init ==
    /\ writer = "open" /\ wrote = 0 /\ flushed = 0 /\ left = 0
    /\ packets = <<>> /\ size = Raw /\ durable = Raw /\ promised = 0
    /\ reader = "none" /\ loaded = Raw /\ held = 0 /\ pos = 0 /\ end = 0
    /\ need = 0 /\ byte = FALSE /\ got = 0

-----------------------------------------------------------------------------
(* Writing                                                                 *)

pending == wrote - flushed

(* flush_buffer() and SnappyOutput::write(): what is in the buffer becomes *)
(* a packet.                                                               *)
FlushBuffer ==
    IF pending = 0 THEN UNCHANGED <<flushed, packets, size>>
    ELSE \E k \in Sizes[pending] :
            /\ packets' = Append(packets,
                   [from |-> flushed, upto |-> wrote, start |-> size, bytes |-> k])
            /\ size' = size + 2 + k
            /\ flushed' = wrote

(* Mutant of MakeRoom: a full buffer is noticed one byte late.             *)
MakeRoomLate(k) ==
    IF pending + k > BufferSize + 1 THEN FlushBuffer
    ELSE UNCHANGED <<flushed, packets, size>>

(* The bytes do not fit behind those in the buffer.                        *)
MakeRoom(k) ==
    IF pending + k > BufferSize THEN FlushBuffer
    ELSE UNCHANGED <<flushed, packets, size>>

(* write_byte() and write_bytes(); more than a buffer holds is written in  *)
(* chunks.                                                                 *)
WriteBytes(k) ==
    /\ writer = "open" /\ left = 0 /\ wrote + k <= MaxBytes
    /\ MakeRoom(k)
    /\ IF k > BufferSize THEN left' = k /\ UNCHANGED wrote
       ELSE wrote' = wrote + k /\ UNCHANGED left
    /\ UNCHANGED <<writer, durable, promised, input>>

WriteChunk ==
    /\ writer = "open" /\ left > 0
    /\ LET k == Smaller(left, BufferSize) IN
       MakeRoom(k) /\ wrote' = wrote + k /\ left' = left - k
    /\ UNCHANGED <<writer, durable, promised, input>>

(* flush(): the file is written as well.                                   *)
Flush ==
    /\ writer = "open" /\ left = 0
    /\ FlushBuffer
    /\ durable' = size' /\ promised' = wrote
    /\ UNCHANGED <<writer, wrote, left, input>>

(* Mutant of Close: the buffer is not flushed.                             *)
CloseUnflushed ==
    /\ writer = "open" /\ left = 0
    /\ writer' = "closed" /\ durable' = size /\ promised' = wrote
    /\ UNCHANGED <<wrote, left, flushed, packets, size, input>>

Close ==
    /\ writer = "open" /\ left = 0
    /\ FlushBuffer
    /\ writer' = "closed" /\ durable' = size' /\ promised' = wrote
    /\ UNCHANGED <<wrote, left, input>>

(* The process is killed: the file holds some of what fflush() did not     *)
(* write.                                                                  *)
Kill ==
    /\ writer = "open"
    /\ writer' = "killed"
    /\ size' \in durable .. size
    /\ UNCHANGED <<wrote, flushed, left, packets, durable, promised, input>>

-----------------------------------------------------------------------------
(* Reading                                                                 *)

(* The header of the file has been read.                                   *)
Open ==
    /\ writer # "open" /\ reader = "none"
    /\ reader' = "idle"
    /\ UNCHANGED <<output, loaded, held, pos, end, need, byte, got>>

(* read_byte(), read_bytes(), skip_bytes(): bytes that are read and bytes  *)
(* that are skipped pass the buffer in the same way.                       *)
Request(k, single) ==
    /\ reader = "idle"
    /\ reader' = "copy" /\ need' = k /\ byte' = single
    /\ UNCHANGED <<output, loaded, held, pos, end, got>>

Copy ==
    /\ reader = "copy"
    /\ IF end - pos >= need
       THEN /\ pos' = pos + need /\ got' = got + need /\ need' = 0
            /\ reader' = "idle"
       ELSE /\ pos' = end /\ got' = got + (end - pos) /\ need' = need - (end - pos)
            /\ reader' = "fill"
    /\ UNCHANGED <<output, loaded, held, end, byte>>

(* Where the bytes in snappy_input begin in the file.                      *)
Position == loaded - held

(* fread() loads what the file has and the buffer takes.                   *)
Load == loaded' = loaded + Smaller(size - loaded, snappy_max - held)

(* The packets at the front of snappy_input that are there as a whole.     *)
Whole ==
    {k \in DOMAIN packets : /\ packets[k].start = Position
                            /\ packets[k].start + 2 + packets[k].bytes <= loaded'}

(* Mutant of Used: what was loaded behind the packet is dropped as well.   *)
UsedAll(p) == held + (loaded' - loaded)

(* What memmove() drops from the front of snappy_input.                    *)
Used(p) == 2 + p.bytes

(* How a request ends without bytes: only read_byte() returns EOF.         *)
NoBytes == IF byte THEN "eof" ELSE "croak"

(* fill_buffer(), when input_buffer is empty: every caller emptied it.     *)
(* The part of a packet that a cut file lacks is taken from what the       *)
(* buffer held before.  Expanding it may fail, which ends the file; if it  *)
(* does not, the length of what remains is negative, and memmove() takes   *)
(* it for a huge one.                                                      *)
Fill ==
    /\ reader = "fill"
    /\ Load
    /\ LET all == held + (loaded' - loaded) IN
       \/ \E k \in Whole :
             /\ pos' = packets[k].from /\ end' = packets[k].upto
             /\ held' = all - Used(packets[k]) /\ reader' = "copy"
       \/ /\ Whole = {}
          /\ held' = 0 /\ reader' = NoBytes /\ UNCHANGED <<pos, end>>
       \/ /\ Whole = {} /\ all > 0 /\ all # 2
          /\ reader' = "crashed" /\ UNCHANGED <<held, pos, end>>
    /\ UNCHANGED <<output, need, byte, got>>

Next ==
    \/ \E k \in Requests : WriteBytes(k)
    \/ WriteChunk \/ Flush \/ Close \/ Kill
    \/ Open
    \/ \E k \in Requests : Request(k, FALSE)
    \/ Request(1, TRUE)
    \/ Copy \/ Fill

Spec == Init /\ [][Next]_vars

-----------------------------------------------------------------------------
Ended == {"eof", "croak", "crashed"}

(* The output buffer never overflows, whatever is written.                 *)
NoOverflow == pending <= BufferSize

(* Bytes are delivered in the order in which they were written, none lost  *)
(* and none twice, across packets and across loads that end inside one.    *)
InOrder == reader \in {"idle", "copy"} => pos = got

(* Reading ends behind everything that was written to a file that was      *)
(* closed, and behind everything flushed to one whose writer was killed;   *)
(* only a file that was cut can crash the reader.                          *)
ReadToTheEnd ==
    /\ reader \in Ended => got >= promised
    /\ reader \in Ended /\ writer = "closed" => got = wrote /\ reader # "crashed"

-----------------------------------------------------------------------------
(* The inductive invariant of TraceBufferProofs.                           *)

(* Where the bytes and the file stand behind the first n packets.          *)
Delivered(n) == IF n = 0 THEN 0 ELSE packets[n].upto
Offset(n) == IF n = 0 THEN Raw ELSE packets[n].start + 2 + packets[n].bytes

Packet == [from : Nat, upto : Nat, start : Nat, bytes : 1 .. snappy_max - 2]

TypeInv ==
    /\ writer \in {"open", "closed", "killed"}
    /\ reader \in {"none", "idle", "copy", "fill"} \cup Ended
    /\ wrote \in Nat /\ flushed \in Nat /\ left \in Nat /\ size \in Nat
    /\ durable \in Nat /\ promised \in Nat
    /\ loaded \in Nat /\ held \in Nat /\ pos \in Nat /\ end \in Nat
    /\ need \in Nat /\ byte \in BOOLEAN /\ got \in Nat
    /\ packets \in Seq(Packet)

(* Packets follow each other without a gap and hold what was flushed.      *)
Layout ==
    /\ \A n \in 1 .. Len(packets) :
          /\ packets[n].from = Delivered(n - 1) /\ packets[n].start = Offset(n - 1)
          /\ packets[n].from < packets[n].upto
    /\ \A m, n \in 1 .. Len(packets) : m < n => packets[m].start < packets[n].start
    /\ flushed = Delivered(Len(packets))

PacketsInv == Layout /\ flushed <= wrote /\ pending <= BufferSize

(* The file holds all packets until its writer is killed, and then at      *)
(* least the ones with the bytes that were promised.                       *)
FileInv ==
    /\ durable <= size /\ size <= Offset(Len(packets)) /\ promised <= flushed
    /\ writer # "killed" => size = Offset(Len(packets))
    /\ writer = "closed" => promised = wrote
    /\ \A n \in 1 .. Len(packets) : packets[n].from < promised => Offset(n) <= durable
    /\ Raw <= durable

(* The reader stands between two packets of a file that does not change any*)
(* more: it has expanded those in front, and snappy_input begins behind.   *)
ReaderInv ==
    /\ reader # "none" => writer # "open"
    /\ reader = "none" => loaded = Raw /\ held = 0 /\ pos = 0 /\ end = 0 /\ got = 0
    /\ reader \notin Ended =>
          /\ pos = got /\ pos <= end /\ (reader = "fill" => pos = end)
          /\ held <= snappy_max /\ held <= loaded /\ loaded <= size
          /\ \E n \in 0 .. Len(packets) : Position = Offset(n) /\ end = Delivered(n)

IInv == TypeInv /\ PacketsInv /\ FileInv /\ ReaderInv /\ ReadToTheEnd
=============================================================================
