-------------------------- MODULE TraceBufferProofs --------------------------
(***************************************************************************)
(* Proofs about TraceBuffer, for buffers of any size, any sizes packets    *)
(* are compressed to and any number of bytes: the inductive invariant IInv *)
(* and the properties that follow from it.                                 *)
(***************************************************************************)
EXTENDS TraceBuffer, TLAPS

-----------------------------------------------------------------------------
(* Packets                                                                 *)

LEMMA OffsetsAreNat ==
    ASSUME TypeInv
    PROVE  \A n \in 0 .. Len(packets) : Offset(n) \in Nat /\ Delivered(n) \in Nat
<1> SUFFICES ASSUME NEW n \in 0 .. Len(packets), n # 0
             PROVE  Offset(n) \in Nat /\ Delivered(n) \in Nat
    BY BufferAssumption DEF Offset, Delivered
<1>1. packets[n] \in Packet
    BY DEF TypeInv
<1> QED
    BY <1>1, BufferAssumption DEF Packet, Offset, Delivered

(* Packets further behind begin further behind in the file, and hold later *)
(* bytes.                                                                  *)
LEMMA OffsetsGrow ==
    ASSUME TypeInv, Layout, NEW m \in 0 .. Len(packets), NEW n \in 0 .. Len(packets), m < n
    PROVE  Offset(m) < Offset(n)
<1>1. m + 1 \in 1 .. Len(packets) /\ packets[m + 1].start = Offset(m)
    BY DEF Layout, TypeInv
<1>2. packets[n] \in Packet /\ packets[m + 1] \in Packet
    BY <1>1 DEF TypeInv
<1>3. Offset(n) = packets[n].start + 2 + packets[n].bytes /\ packets[m + 1].start <= packets[n].start
    BY <1>1, <1>2, SMTT(60) DEF Offset, Layout, Packet
<1> QED
    BY <1>1, <1>2, <1>3, SMTT(60) DEF Packet

(* What a flush makes of the packets.                                      *)
LEMMA FlushBufferKeeps ==
    ASSUME TypeInv, PacketsInv, FileInv, writer = "open", FlushBuffer
    PROVE  /\ packets' \in Seq(Packet) /\ size' \in Nat /\ flushed' = wrote
           /\ Layout'
           /\ size' = Offset(Len(packets))' /\ size <= size'
           /\ \A n \in 1 .. Len(packets') :
                 /\ packets'[n].from < promised => Offset(n)' <= durable
                 /\ Offset(n)' <= size'
<1>0. \A n \in 0 .. Len(packets) : Offset(n) \in Nat /\ Offset(n) <= size
    <2> SUFFICES ASSUME NEW n \in 0 .. Len(packets)
                 PROVE  Offset(n) \in Nat /\ Offset(n) <= size
        OBVIOUS
    <2>1. Len(packets) \in Nat /\ Offset(n) \in Nat /\ Offset(Len(packets)) \in Nat
          /\ size = Offset(Len(packets))
        BY OffsetsAreNat DEF TypeInv, FileInv
    <2> QED
        BY <2>1, OffsetsGrow DEF PacketsInv
<1>1. CASE pending = 0
    <2>1. UNCHANGED <<flushed, packets, size>> /\ flushed = wrote
        BY <1>1 DEF FlushBuffer, pending, TypeInv
    <2>2. \A n \in 0 .. Len(packets) : Delivered(n)' = Delivered(n) /\ Offset(n)' = Offset(n)
        BY <2>1 DEF Delivered, Offset
    <2>3. Layout'
        BY <2>1 DEF PacketsInv, Layout, Delivered, Offset
    <2> QED
        BY <1>0, <2>1, <2>2, <2>3 DEF TypeInv, FileInv
<1>2. CASE pending # 0
    <2>1. PICK k \in Sizes[pending] :
             /\ packets' = Append(packets,
                    [from |-> flushed, upto |-> wrote, start |-> size, bytes |-> k])
             /\ size' = size + 2 + k /\ flushed' = wrote
        BY <1>2 DEF FlushBuffer
    <2>0. PICK L \in Nat : L = Len(packets)
        BY DEF TypeInv
    <2> DEFINE p == [from |-> flushed, upto |-> wrote, start |-> size, bytes |-> k]
    <2>2. k \in 1 .. snappy_max - 2 /\ flushed < wrote
        <3>1. pending \in 1 .. BufferSize /\ flushed < wrote
            BY <1>2, BufferAssumption DEF pending, PacketsInv, TypeInv
        <3> QED
            BY <3>1, <2>1, SizesAssumption
    <2>3. /\ packets' \in Seq(Packet) /\ Len(packets') = L + 1
          /\ packets'[L + 1] = p /\ \A n \in 1 .. L : packets'[n] = packets[n]
        <3>1. p \in Packet /\ packets \in Seq(Packet)
            BY <2>2 DEF TypeInv, Packet
        <3> QED
            BY <2>0, <2>1, <3>1
    <2>4. \A n \in 0 .. L : Delivered(n)' = Delivered(n) /\ Offset(n)' = Offset(n)
        BY <2>3 DEF Delivered, Offset
    <2>5. Delivered(L + 1)' = wrote /\ Offset(L + 1)' = size + 2 + k
        BY <2>3 DEF Delivered, Offset
    <2>6. flushed = Delivered(L) /\ size = Offset(L) /\ size \in Nat /\ size + 2 + k \in Nat
        BY <2>0, <2>2, BufferAssumption DEF PacketsInv, Layout, FileInv, TypeInv
    <2>7. ASSUME NEW n \in 1 .. L + 1
          PROVE  /\ packets'[n].from = Delivered(n - 1)' /\ packets'[n].start = Offset(n - 1)'
                 /\ packets'[n].from < packets'[n].upto
                 /\ packets'[n].from < promised => Offset(n)' <= durable
                 /\ Offset(n)' <= size'
        <3>1. CASE n = L + 1
            BY <3>1, <2>1, <2>2, <2>3, <2>4, <2>5, <2>6 DEF FileInv, TypeInv
        <3>2. CASE n \in 1 .. L
            <4>1. Offset(n)' = Offset(n) /\ Offset(n) \in Nat /\ Offset(n) <= size
                BY <3>2, <1>0, <2>0, <2>4
            <4>2. Offset(n)' <= size'
                BY <4>1, <2>1, <2>2, <2>6
            <4> QED
                BY <3>2, <4>1, <4>2, <2>0, <2>3, <2>4 DEF PacketsInv, Layout, FileInv
        <3> QED
            BY <3>1, <3>2, <2>3
    <2>8. ASSUME NEW m \in 1 .. L + 1, NEW n \in 1 .. L + 1, m < n
          PROVE  packets'[m].start < packets'[n].start
        <3>1. CASE n = L + 1
            <4>1. m - 1 \in 0 .. L /\ m \in 1 .. L /\ m - 1 < L
                BY <3>1, <2>8, <2>3
            <4>2. packets[m].start = Offset(m - 1) /\ Offset(m - 1) < Offset(L)
                BY <4>1, <2>0, <2>3, OffsetsGrow DEF PacketsInv, Layout
            <4> QED
                BY <4>1, <4>2, <3>1, <2>3, <2>6
        <3>2. CASE n \in 1 .. L
            BY <3>2, <2>0, <2>3, <2>8 DEF PacketsInv, Layout
        <3> QED
            BY <3>1, <3>2, <2>3
    <2>9. Layout'
        BY <2>1, <2>3, <2>5, <2>7, <2>8 DEF Layout
    <2> QED
        BY <2>1, <2>2, <2>3, <2>5, <2>6, <2>7, <2>9
<1> QED
    BY <1>1, <1>2

-----------------------------------------------------------------------------
(* The writer: nobody reads yet.                                           *)

LEMMA NobodyReads ==
    ASSUME IInv, writer = "open", UNCHANGED input, TypeInv', size' >= Raw
    PROVE  ReaderInv' /\ ReadToTheEnd'
<1>1. reader = "none" /\ UNCHANGED <<reader, loaded, held, pos, end, got>>
    BY DEF IInv, ReaderInv, input
<1>2. loaded = Raw /\ held = 0 /\ pos = 0 /\ end = 0 /\ got = 0
    BY <1>1 DEF IInv, ReaderInv
<1>3. 0 \in 0 .. Len(packets') /\ Offset(0)' = Raw /\ Delivered(0)' = 0 /\ Position' = Raw
    BY <1>1, <1>2, BufferAssumption DEF TypeInv, Offset, Delivered, Position
<1>4. reader \notin Ended
    BY <1>1 DEF Ended
<1>5. ReaderInv'
    BY <1>1, <1>2, <1>3, BufferAssumption DEF ReaderInv
<1> QED
    BY <1>1, <1>4, <1>5 DEF ReadToTheEnd, Ended

(* Room for k bytes is made, and at most k bytes follow.                   *)
LEMMA MakeRoomKeeps ==
    ASSUME IInv, writer = "open", NEW k \in Nat, MakeRoom(k),
           UNCHANGED <<writer, durable, promised, input>>,
           left' \in Nat, wrote' \in Nat, wrote <= wrote',
           wrote' # wrote => wrote' = wrote + k /\ k <= BufferSize
    PROVE  IInv'
<1>1. TypeInv /\ PacketsInv /\ FileInv
    BY DEF IInv
<1>2. /\ packets' \in Seq(Packet) /\ size' \in Nat /\ flushed' \in Nat /\ Layout'
      /\ size' = Offset(Len(packets))' /\ size <= size' /\ flushed <= flushed'
      /\ \A n \in 1 .. Len(packets') : packets'[n].from < promised => Offset(n)' <= durable
      /\ flushed' = wrote \/ (flushed' = flushed /\ pending + k <= BufferSize)
    <2>1. CASE FlushBuffer
        BY <1>1, <2>1, FlushBufferKeeps DEF TypeInv, PacketsInv
    <2>2. CASE UNCHANGED <<flushed, packets, size>> /\ pending + k <= BufferSize
        BY <1>1, <2>2 DEF TypeInv, PacketsInv, Layout, FileInv, Delivered, Offset
    <2> QED
        BY <2>1, <2>2, <1>1, BufferAssumption DEF MakeRoom, pending, TypeInv
<1>3. TypeInv'
    BY <1>1, <1>2 DEF TypeInv, input
<1>4. PacketsInv'
    <2>1. BufferSize \in Nat /\ wrote \in Nat /\ flushed \in Nat
          /\ flushed <= wrote /\ wrote - flushed <= BufferSize
        BY <1>1, BufferAssumption DEF PacketsInv, pending, TypeInv
    <2>2. flushed' = wrote \/ (flushed' = flushed /\ (wrote - flushed) + k <= BufferSize)
        BY <1>2 DEF pending
    <2>3. flushed' <= wrote' /\ wrote' - flushed' <= BufferSize
        <3>1. CASE wrote' = wrote
            BY <3>1, <2>1, <2>2
        <3>2. CASE wrote' = wrote + k /\ k <= BufferSize
            BY <3>2, <2>1, <2>2
        <3> QED
            BY <3>1, <3>2
    <2> QED
        BY <1>2, <2>3 DEF PacketsInv, pending
<1>5. FileInv'
    <2>1. durable <= size' /\ promised <= flushed'
        BY <1>1, <1>2 DEF FileInv, TypeInv
    <2> QED
        BY <1>1, <1>2, <2>1 DEF FileInv, TypeInv
<1>6. size' >= Raw
    BY <1>1, <1>2, BufferAssumption DEF FileInv, TypeInv
<1> QED
    BY <1>3, <1>4, <1>5, <1>6, NobodyReads DEF IInv

LEMMA WriteStep ==
    ASSUME IInv, \/ \E k \in Requests : WriteBytes(k)
                 \/ WriteChunk
    PROVE  IInv'
<1>1. ASSUME NEW k \in Requests, WriteBytes(k)
      PROVE  IInv'
    <2>1. k \in Nat /\ wrote \in Nat /\ left \in Nat /\ wrote' \in Nat /\ left' \in Nat
        BY <1>1, BufferAssumption DEF WriteBytes, IInv, TypeInv
    <2> QED
        BY <1>1, <2>1, BufferAssumption, MakeRoomKeeps DEF WriteBytes
<1>2. ASSUME WriteChunk
      PROVE  IInv'
    <2> DEFINE k == Smaller(left, BufferSize)
    <2>1. k \in Nat /\ k <= left /\ k <= BufferSize /\ wrote \in Nat /\ left \in Nat
        BY <1>2, BufferAssumption DEF Smaller, IInv, TypeInv
    <2>2. MakeRoom(k) /\ wrote' = wrote + k /\ left' = left - k /\ writer = "open"
        BY <1>2 DEF WriteChunk
    <2> HIDE DEF k
    <2>3. wrote' \in Nat /\ left' \in Nat /\ wrote <= wrote'
        BY <2>1, <2>2
    <2> QED
        BY <1>2, <2>1, <2>2, <2>3, MakeRoomKeeps DEF WriteChunk
<1> QED
    BY <1>1, <1>2

(* Everything written is promised when the file is flushed or closed.      *)
LEMMA FlushStep ==
    ASSUME IInv, writer = "open", FlushBuffer, durable' = size', promised' = wrote,
           writer' \in {"open", "closed"}, UNCHANGED <<wrote, left, input>>
    PROVE  IInv'
<1>1. TypeInv /\ PacketsInv /\ FileInv
    BY DEF IInv
<1>2. /\ packets' \in Seq(Packet) /\ size' \in Nat /\ flushed' = wrote /\ Layout'
      /\ size' = Offset(Len(packets))' /\ size <= size'
      /\ \A n \in 1 .. Len(packets') : Offset(n)' <= durable'
    BY <1>1, FlushBufferKeeps
<1>3. TypeInv'
    BY <1>1, <1>2 DEF TypeInv, input
<1>4. PacketsInv'
    BY <1>1, <1>2, BufferAssumption DEF PacketsInv, pending, TypeInv
<1>6. FileInv'
    BY <1>1, <1>2, <1>3, BufferAssumption, SMTT(60) DEF FileInv, TypeInv
<1>7. size' >= Raw
    BY <1>1, <1>2, BufferAssumption DEF FileInv, TypeInv
<1> QED
    BY <1>3, <1>4, <1>6, <1>7, NobodyReads DEF IInv

LEMMA KillStep ==
    ASSUME IInv, Kill
    PROVE  IInv'
<1>1. /\ TypeInv /\ PacketsInv /\ FileInv /\ writer = "open" /\ writer' = "killed"
      /\ size' \in Nat /\ size' \in durable .. size
      /\ UNCHANGED <<wrote, flushed, left, packets, durable, promised, input>>
    BY DEF IInv, Kill, TypeInv
<1>2. TypeInv' /\ size' >= Raw
    BY <1>1, BufferAssumption, SMTT(60) DEF TypeInv, FileInv, input
<1>3. PacketsInv'
    BY <1>1 DEF PacketsInv, Layout, Delivered, Offset, pending
<1>4. FileInv'
    BY <1>1, OffsetsAreNat DEF FileInv, Offset, TypeInv
<1> QED
    BY <1>1, <1>2, <1>3, <1>4, NobodyReads DEF IInv

-----------------------------------------------------------------------------
(* The reader: the file does not change any more.                          *)

LEMMA OutputKept ==
    ASSUME IInv, UNCHANGED output
    PROVE  /\ PacketsInv' /\ FileInv'
           /\ \A n \in 0 .. Len(packets) : Offset(n)' = Offset(n) /\ Delivered(n)' = Delivered(n)
BY DEF IInv, output, PacketsInv, FileInv, Layout, Delivered, Offset, pending

LEMMA OpenStep ==
    ASSUME IInv, Open
    PROVE  IInv'
<1>1. /\ UNCHANGED output /\ UNCHANGED <<loaded, held, pos, end, need, byte, got>>
      /\ reader = "none" /\ reader' = "idle" /\ writer' # "open"
    BY DEF Open, output
<1>2. loaded = Raw /\ held = 0 /\ pos = 0 /\ end = 0 /\ got = 0
    BY <1>1 DEF IInv, ReaderInv
<1>3. TypeInv' /\ PacketsInv' /\ FileInv'
    BY <1>1, OutputKept DEF IInv, TypeInv, output
<1>4. 0 \in 0 .. Len(packets') /\ Offset(0)' = Raw /\ Delivered(0)' = 0 /\ Position' = Raw
    BY <1>1, <1>2, <1>3, BufferAssumption DEF TypeInv, Offset, Delivered, Position
<1>5. ReaderInv'
    BY <1>1, <1>2, <1>3, <1>4, BufferAssumption DEF ReaderInv, FileInv, TypeInv
<1>6. ReadToTheEnd'
    BY <1>1 DEF ReadToTheEnd, Ended
<1> QED
    BY <1>3, <1>5, <1>6 DEF IInv

LEMMA RequestStep ==
    ASSUME IInv, NEW k \in Nat, NEW single \in BOOLEAN, Request(k, single)
    PROVE  IInv'
<1>1. /\ UNCHANGED output /\ UNCHANGED <<loaded, held, pos, end, got>>
      /\ reader = "idle" /\ reader' = "copy" /\ need' \in Nat /\ byte' \in BOOLEAN
    BY DEF Request, output
<1>2. TypeInv' /\ PacketsInv' /\ FileInv'
    BY <1>1, OutputKept DEF IInv, TypeInv, output
<1>3. ReaderInv'
    BY <1>1, OutputKept DEF IInv, ReaderInv, Position, Ended, output
<1>4. ReadToTheEnd'
    BY <1>1 DEF ReadToTheEnd, Ended
<1> QED
    BY <1>2, <1>3, <1>4 DEF IInv

LEMMA CopyStep ==
    ASSUME IInv, Copy
    PROVE  IInv'
<1>1. /\ UNCHANGED output /\ UNCHANGED <<loaded, held, end, byte>>
      /\ reader = "copy" /\ reader' \in {"idle", "fill"}
    BY DEF Copy, output
<1>2. pos = got /\ pos <= end /\ pos \in Nat /\ end \in Nat /\ need \in Nat
    BY <1>1 DEF IInv, ReaderInv, TypeInv, Ended
<1>3. /\ pos' \in Nat /\ got' \in Nat /\ need' \in Nat /\ pos' = got' /\ pos' <= end'
      /\ reader' = "fill" => pos' = end'
    BY <1>1, <1>2 DEF Copy
<1>4. TypeInv' /\ PacketsInv' /\ FileInv'
    BY <1>1, <1>3, OutputKept DEF IInv, TypeInv, output
<1>5. ReaderInv'
    BY <1>1, <1>3, OutputKept DEF IInv, ReaderInv, Position, Ended, output
<1>6. ReadToTheEnd'
    BY <1>1 DEF ReadToTheEnd, Ended
<1> QED
    BY <1>4, <1>5, <1>6 DEF IInv

(* A packet that is not there as a whole holds nothing that was promised,  *)
(* and a file that was closed has only whole packets.                      *)
LEMMA FillStep ==
    ASSUME IInv, Fill
    PROVE  IInv'
<1>1. /\ UNCHANGED output /\ UNCHANGED <<need, byte, got>> /\ reader = "fill" /\ Load
      /\ TypeInv /\ PacketsInv /\ FileInv /\ ReaderInv /\ writer # "open"
    BY DEF Fill, IInv, ReaderInv
<1>2. /\ pos = end /\ end = got /\ held <= snappy_max /\ held <= loaded /\ loaded <= size
    BY <1>1 DEF ReaderInv, Ended
<1>3. PICK n \in 0 .. Len(packets), at \in Nat :
         Position = at /\ Offset(n) = at /\ end = Delivered(n)
    <2>1. PICK n \in 0 .. Len(packets) : Position = Offset(n) /\ end = Delivered(n)
        BY <1>1 DEF ReaderInv, Ended
    <2> QED
        BY <2>1, <1>1, OffsetsAreNat
<1>4. PICK now \in Nat :
         /\ loaded' = now /\ loaded <= now /\ now <= size
         /\ now = size \/ now = at + snappy_max
         /\ held + (now - loaded) <= snappy_max /\ held + (now - loaded) = now - at
         /\ at + held = loaded
    BY <1>1, <1>2, <1>3, BufferAssumption DEF TypeInv, Load, Smaller, Position
<1>0. /\ Len(packets) \in Nat /\ snappy_max \in Nat
      /\ loaded \in Nat /\ held \in Nat /\ size \in Nat /\ end \in Nat
    BY <1>1, BufferAssumption DEF TypeInv
<1>5. PacketsInv' /\ FileInv'
    BY <1>1, OutputKept
<1>6. CASE \E k \in Whole :
              /\ pos' = packets[k].from /\ end' = packets[k].upto
              /\ held' = (held + (loaded' - loaded)) - Used(packets[k]) /\ reader' = "copy"
    <2>1. PICK k \in 1 .. Len(packets) :
             /\ packets[k].start = at
             /\ packets[k].start + 2 + packets[k].bytes <= now
             /\ pos' = packets[k].from /\ end' = packets[k].upto
             /\ held' = (held + (loaded' - loaded)) - Used(packets[k]) /\ reader' = "copy"
        BY <1>1, <1>3, <1>4, <1>6, SMTT(60) DEF Whole, TypeInv
    <2>2. packets[k] \in Packet
        BY <1>1 DEF TypeInv
    <2>3. k = n + 1
        <3>1. k - 1 \in 0 .. Len(packets) /\ Offset(k - 1) = at
            BY <2>1, <1>0, <1>1 DEF PacketsInv, Layout
        <3>2. ~(k - 1 < n) /\ ~(n < k - 1)
            BY <3>1, <1>1, <1>3, OffsetsGrow DEF PacketsInv
        <3> QED
            BY <3>2, <1>0
    <2>4. packets[k].from = Delivered(n) /\ packets[k].from < packets[k].upto
        BY <2>3, <1>0, <1>1 DEF PacketsInv, Layout
    <2>5. /\ held' = now - Offset(k) /\ held' \in Nat /\ held' <= snappy_max /\ held' <= now
          /\ Offset(k) \in Nat /\ Offset(k) <= now
        <3>1. PICK b \in Nat : b = packets[k].bytes
            BY <2>2 DEF Packet
        <3>2. Offset(k) = at + 2 + b /\ at + 2 + b <= now /\ held' = (now - at) - (2 + b)
            <4>1. Used(packets[k]) = 2 + b /\ Offset(k) = at + 2 + b /\ at + 2 + b <= now
                BY <2>1, <3>1, <1>4 DEF Used, Offset
            <4>2. held' = (held + (now - loaded)) - (2 + b)
                BY <2>1, <4>1, <1>4
            <4> QED
                BY <4>1, <4>2, <1>0, <1>4
        <3>3. now - at <= snappy_max
            BY <1>4
        <3>4. now - (at + 2 + b) \in Nat /\ (now - at) - (2 + b) = now - (at + 2 + b)
              /\ now - (at + 2 + b) <= snappy_max /\ now - (at + 2 + b) <= now
            BY <3>2, <3>3, <1>0
        <3> QED
            BY <3>2, <3>4
    <2>6. Position' = Offset(k)' /\ end' = Delivered(k)' /\ k \in 0 .. Len(packets')
        BY <2>1, <2>5, <1>1, <1>4 DEF Position, Offset, Delivered, output
    <2>7. TypeInv'
        BY <2>1, <2>2, <2>5, <1>1, <1>4 DEF TypeInv, output, Packet
    <2>8. ReaderInv'
        <3>1. pos' = got' /\ pos' <= end'
            BY <2>1, <2>2, <2>4, <1>1, <1>2, <1>3 DEF Packet
        <3>2. held' <= loaded' /\ loaded' <= size' /\ writer' # "open" /\ held' <= snappy_max
            BY <2>5, <1>1, <1>4 DEF output
        <3> QED
            BY <3>1, <3>2, <2>1, <2>6 DEF ReaderInv, Ended
    <2>9. ReadToTheEnd'
        BY <2>1 DEF ReadToTheEnd, Ended
    <2> QED
        BY <1>5, <2>7, <2>8, <2>9 DEF IInv
<1>7. CASE /\ Whole = {} /\ UNCHANGED <<pos, end>>
           /\ \/ reader' \in {"eof", "croak"} /\ held' = 0
              \/ reader' = "crashed" /\ held' = held /\ now - at > 0
    <2>1. n = Len(packets) \/ size < Offset(n + 1)
        <3> SUFFICES ASSUME n # Len(packets)
                     PROVE  size < Offset(n + 1)
            OBVIOUS
        <3>1. n + 1 \in 1 .. Len(packets) /\ (n + 1) - 1 = n
            BY <1>0
        <3>2. packets[n + 1].start = at /\ packets[n + 1] \in Packet
            BY <3>1, <1>1, <1>3, SMTT(60) DEF PacketsInv, Layout, TypeInv
        <3>3. ~(at + 2 + packets[n + 1].bytes <= now)
            <4>1. n + 1 \in DOMAIN packets /\ packets[n + 1].start = Position
                BY <3>1, <3>2, <1>1, <1>3 DEF TypeInv
            <4>2. ~(packets[n + 1].start + 2 + packets[n + 1].bytes <= loaded')
                BY <4>1, <1>7 DEF Whole
            <4> QED
                BY <4>2, <3>2, <1>4
        <3>4. PICK b \in 0 .. snappy_max - 2 : packets[n + 1].bytes = b
            BY <3>2, <1>0 DEF Packet
        <3>5. Offset(n + 1) = at + 2 + b
            BY <3>1, <3>2, <3>4, <1>0 DEF Offset
        <3>6. ~(at + 2 + b <= now) /\ b \in Int /\ b <= snappy_max - 2
            BY <3>3, <3>4, <1>0
        <3> QED
            BY <3>5, <3>6, <1>0, <1>4
    <2>2. got >= promised
        <3>1. CASE n = Len(packets)
            BY <3>1, <1>1, <1>2, <1>3 DEF PacketsInv, Layout, FileInv, TypeInv
        <3>2. CASE n # Len(packets) /\ size < Offset(n + 1)
            <4>1. n + 1 \in 1 .. Len(packets) /\ packets[n + 1].from = Delivered(n)
                  /\ Offset(n + 1) \in Nat
                BY <3>2, <1>0, <1>1, <1>3, OffsetsAreNat DEF PacketsInv, Layout
            <4>2. durable <= size /\ durable \in Nat /\ promised \in Nat
                BY <1>1 DEF FileInv, TypeInv
            <4>3. ~(Delivered(n) < promised)
                BY <4>1, <4>2, <3>2, <1>0, <1>1 DEF FileInv
            <4> QED
                BY <4>2, <4>3, <1>0, <1>2, <1>3
        <3> QED
            BY <2>1, <3>1, <3>2
    <2>3. ASSUME writer = "closed"
          PROVE  got = wrote /\ reader' # "crashed"
        <3>1. size = Offset(Len(packets)) /\ promised = wrote /\ flushed <= wrote
            BY <2>3, <1>1 DEF FileInv, PacketsInv
        <3>2. n = Len(packets)
            <4> SUFFICES ASSUME n # Len(packets), size < Offset(n + 1)
                         PROVE  FALSE
                BY <2>1
            <4>1. n + 1 \in 0 .. Len(packets) /\ Offset(n + 1) \in Nat
                BY <1>0, <1>1, <1>3, OffsetsAreNat
            <4>2. n + 1 = Len(packets) \/ Offset(n + 1) < Offset(Len(packets))
                BY <4>1, <1>0, <1>1, OffsetsGrow DEF PacketsInv
            <4> QED
                BY <3>1, <4>1, <4>2, <1>0
        <3>3. got = flushed /\ flushed = wrote
            BY <3>1, <3>2, <2>2, <1>1, <1>2, <1>3 DEF PacketsInv, Layout, TypeInv
        <3>4. now - at = 0
            BY <3>1, <3>2, <1>0, <1>2, <1>3, <1>4
        <3>5. reader' # "crashed"
            BY <3>4, <1>7, <1>4
        <3> QED
            BY <3>3, <3>5
    <2>4. TypeInv'
        <3>1. held' \in Nat /\ pos' \in Nat /\ end' \in Nat /\ reader' \in Ended
            BY <1>1, <1>7 DEF TypeInv, Ended
        <3> QED
            BY <3>1, <1>1, <1>4 DEF TypeInv, output
    <2>5. ReaderInv'
        BY <1>1, <1>7 DEF ReaderInv, Ended, output
    <2>6. ReadToTheEnd'
        BY <2>2, <2>3, <1>1 DEF ReadToTheEnd, Ended, output
    <2> QED
        BY <1>5, <2>4, <2>5, <2>6 DEF IInv
<1> QED
    <2>1. held + (loaded' - loaded) = now - at
        BY <1>4
    <2>2. CASE \E k \in Whole :
                  /\ pos' = packets[k].from /\ end' = packets[k].upto
                  /\ held' = (held + (loaded' - loaded)) - Used(packets[k]) /\ reader' = "copy"
        BY <2>2, <1>6
    <2>3. CASE Whole = {} /\ held' = 0 /\ reader' = NoBytes /\ UNCHANGED <<pos, end>>
        BY <2>3, <1>7 DEF NoBytes
    <2>4. CASE /\ Whole = {} /\ held + (loaded' - loaded) > 0
               /\ reader' = "crashed" /\ UNCHANGED <<held, pos, end>>
        BY <2>1, <2>4, <1>7
    <2> QED
        BY <2>2, <2>3, <2>4 DEF Fill

-----------------------------------------------------------------------------
(* The invariant                                                           *)

LEMMA InitIInv == Init => IInv
<1> SUFFICES ASSUME Init
             PROVE  IInv
    OBVIOUS
<1>1. Len(packets) = 0 /\ packets \in Seq(Packet)
    BY DEF Init
<1>2. TypeInv
    BY <1>1, BufferAssumption DEF Init, TypeInv, Ended
<1>3. PacketsInv /\ FileInv
    BY <1>1, <1>2, BufferAssumption DEF Init, PacketsInv, FileInv, Layout, Delivered, Offset, pending
<1>4. ReaderInv
    BY <1>1, BufferAssumption DEF Init, ReaderInv, Delivered, Offset, Position
<1> QED
    BY <1>2, <1>3, <1>4 DEF Init, IInv, ReadToTheEnd, Ended

LEMMA NextIInv == IInv /\ [Next]_vars => IInv'
<1> SUFFICES ASSUME IInv, [Next]_vars
             PROVE  IInv'
    OBVIOUS
<1>1. CASE UNCHANGED vars
    BY <1>1 DEF vars, output, input, IInv, TypeInv, PacketsInv, Layout, FileInv, ReaderInv,
                ReadToTheEnd, Delivered, Offset, pending, Position
<1>2. CASE (\E k \in Requests : WriteBytes(k)) \/ WriteChunk
    BY <1>2, WriteStep
<1>3. CASE Flush \/ Close
    BY <1>3, FlushStep DEF Flush, Close
<1>4. CASE Kill
    BY <1>4, KillStep
<1>5. CASE Open
    BY <1>5, OpenStep
<1>6. CASE (\E k \in Requests : Request(k, FALSE)) \/ Request(1, TRUE)
    <2>1. Requests \subseteq Nat
        BY BufferAssumption
    <2> QED
        BY <1>6, <2>1, RequestStep
<1>7. CASE Copy
    BY <1>7, CopyStep
<1>8. CASE Fill
    BY <1>8, FillStep
<1> QED
    BY <1>1, <1>2, <1>3, <1>4, <1>5, <1>6, <1>7, <1>8 DEF Next

LEMMA Invariant == Spec => []IInv
BY InitIInv, NextIInv, PTL DEF Spec

(* OutputBuffer (tracefile.cpp) never holds more than OUTPUT_BUFFER_SIZE   *)
(* bytes, for writes of any size between flushes.                          *)
THEOREM NeverOverflows == Spec => []NoOverflow
<1>1. IInv => NoOverflow
    BY DEF IInv, PacketsInv, NoOverflow
<1> QED
    BY <1>1, Invariant, PTL

(* InputBuffer (tracefile.cpp) delivers the bytes in the order in which    *)
(* they were written, wherever loads end and however requests are sized.   *)
THEOREM DeliversInOrder == Spec => []InOrder
<1>1. IInv => InOrder
    BY DEF IInv, ReaderInv, InOrder, Ended
<1> QED
    BY <1>1, Invariant, PTL

(* A closed file is read to its end, and a cut one at least as far as it   *)
(* was flushed; a file that was closed never crashes its reader.           *)
THEOREM ReadsToTheEnd == Spec => []ReadToTheEnd
<1>1. IInv => ReadToTheEnd
    BY DEF IInv
<1> QED
    BY <1>1, Invariant, PTL
=============================================================================
