---------------------------- MODULE SnappyProofs ----------------------------
(***************************************************************************)
(* What is restored is the text that was compressed, for every text, every *)
(* block size and every hash function, and the buffers suffice.            *)
(*                                                                         *)
(* Numbers and elements are read as they were written.  The inductive      *)
(* invariant says of each element that was written which part of the text  *)
(* it stands for, and of each place in the loops what has been compared or *)
(* restored so far; the steps of the compressor keep it, and then those of *)
(* the decompressor.                                                       *)
(***************************************************************************)
EXTENDS Snappy, TLAPS

-----------------------------------------------------------------------------
(* Numbers and elements                                                    *)

(* The groups of a number, each seven bits of what the ones before left.   *)
LEMMA Groups ==
    ASSUME NEW v \in Nat
    PROVE  /\ v \div 1 = v
           /\ v = (v % 128) + 128 * (v \div 128)
           /\ v \div 128 = ((v \div 128) % 128) + 128 * (v \div 16384)
           /\ v \div 16384 = ((v \div 16384) % 128) + 128 * (v \div (128 * 16384))
           /\ v \div (128 * 16384)
                = ((v \div (128 * 16384)) % 128) + 128 * (v \div (16384 * 16384))
<1>1. v \div 1 = v /\ v = (v % 128) + 128 * (v \div 128)
    BY SMT
<1>2. v \div 128 = ((v \div 128) % 128) + 128 * (v \div 16384)
    BY SMT
<1>3. v \div 16384 = ((v \div 16384) % 128) + 128 * (v \div (128 * 16384))
    BY SMT
<1>4. v \div (128 * 16384)
        = ((v \div (128 * 16384)) % 128) + 128 * (v \div (16384 * 16384))
    BY SMT
<1> QED
    BY <1>1, <1>2, <1>3, <1>4

(* The end of a sequence of groups is the first byte without the high bit. *)
LEMMA EndOf ==
    ASSUME NEW s \in Seq(Nat), NEW k \in 1 .. Len(s),
           s[k] < 128, \A j \in 1 .. k - 1 : s[j] >= 128
    PROVE  VarintEnd(s) = k
<1> DEFINE P(i) == s[i] < 128 /\ \A j \in 1 .. i - 1 : s[j] >= 128
<1>1. k \in DOMAIN s /\ P(k)
    OBVIOUS
<1>2. ASSUME NEW i \in DOMAIN s, P(i)
      PROVE  i = k
    <2>1. i \in 1 .. Len(s) /\ s[i] \in Nat /\ s[k] \in Nat
        OBVIOUS
    <2>2. ~(i < k) /\ ~(k < i)
        BY <1>2, <2>1
    <2> QED
        BY <2>1, <2>2
<1> QED
    BY <1>1, <1>2 DEF VarintEnd

(* A length in front of a stream is read as it was written.                *)
LEMMA VarintRoundTrip ==
    ASSUME NEW v \in Nat, v \div 16384 < 8 * 16384
    PROVE  /\ EncodeVarint32(v) \in Seq(Nat)
           /\ Len(EncodeVarint32(v)) \in 1 .. 5
           /\ VarintEnd(EncodeVarint32(v)) = Len(EncodeVarint32(v))
           /\ GetUncompressedLength(EncodeVarint32(v)) = v
<1> DEFINE s == EncodeVarint32(v)
           d0 == v % 128
           d1 == (v \div 128) % 128
           d2 == (v \div 16384) % 128
           d3 == (v \div (128 * 16384)) % 128
           v1 == v \div 128
           v2 == v \div 16384
           v3 == v \div (128 * 16384)
           v4 == v \div (16384 * 16384)
<1>1. /\ d0 \in 0 .. 127 /\ d1 \in 0 .. 127 /\ d2 \in 0 .. 127 /\ d3 \in 0 .. 127
      /\ v1 \in Nat /\ v2 \in Nat /\ v3 \in Nat /\ v4 \in Nat
      /\ v < 128 => v % 128 = v
      /\ v < 16384 => v1 < 128
      /\ v < 128 * 16384 => v2 < 128
      /\ v < 16384 * 16384 => v3 < 128
      /\ v4 < 8
    BY SMT
<1>2. /\ v = d0 + 128 * v1 /\ v1 = d1 + 128 * v2 /\ v2 = d2 + 128 * v3
      /\ v3 = d3 + 128 * v4
      /\ Group(v, 1) = d0 + 128 /\ Group(v, 128) = d1 + 128
      /\ Group(v, 16384) = d2 + 128 /\ Group(v, 128 * 16384) = d3 + 128
    BY Groups DEF Group
<1>3. /\ \A d \in 0 .. 127 : (d + 128) % 128 = d /\ d % 128 = d
    BY SMT
<1>4. s = IF v < 128 THEN <<v>>
          ELSE IF v < 16384 THEN <<d0 + 128, v1>>
          ELSE IF v < 128 * 16384 THEN <<d0 + 128, d1 + 128, v2>>
          ELSE IF v < 16384 * 16384 THEN <<d0 + 128, d1 + 128, d2 + 128, v3>>
          ELSE <<d0 + 128, d1 + 128, d2 + 128, d3 + 128, v4>>
    BY <1>2 DEF EncodeVarint32
<1> HIDE DEF s, d0, d1, d2, d3, v1, v2, v3, v4
<1> DEFINE Goal == /\ s \in Seq(Nat) /\ Len(s) \in 1 .. 5
                   /\ VarintEnd(s) = Len(s)
                   /\ GetUncompressedLength(s) = v
<1> SUFFICES Goal
    BY SMTT(60) DEF s
<1>5. CASE v < 128
    <2>1. s = <<v>> /\ Len(s) = 1 /\ s \in Seq(Nat)
        BY <1>1, <1>4, <1>5
    <2>6. /\ s \in Seq(Nat) /\ 1 \in 1 .. Len(s) /\ s[1] < 128
          /\ \A j \in 1 .. 1 - 1 : s[j] >= 128
        BY <2>1, <1>1, <1>5
    <2>2. VarintEnd(s) = 1
        BY <2>6, EndOf
    <2>3. s[1] % 128 = v
        BY <2>1, <1>1, <1>3, <1>5
    <2>4. GetUncompressedLength(s) = v
        BY <2>2, <2>3, <1>1 DEF GetUncompressedLength
    <2> QED
        BY <2>1, <2>2, <2>4
<1>6. CASE v >= 128 /\ v < 16384
    <2>1. s = <<d0 + 128, v1>> /\ Len(s) = 2 /\ s \in Seq(Nat)
        BY <1>1, <1>4, <1>6
    <2>6. /\ s \in Seq(Nat) /\ 2 \in 1 .. Len(s) /\ s[2] < 128
          /\ \A j \in 1 .. 2 - 1 : s[j] >= 128
        BY <2>1, <1>1, <1>6
    <2>2. VarintEnd(s) = 2
        BY <2>6, EndOf
    <2>3. s[1] % 128 = d0 /\ s[2] % 128 = v1
        BY <2>1, <1>1, <1>3, <1>6
    <2>4. GetUncompressedLength(s) = d0 + 128 * v1
        BY <2>2, <2>3, <1>1 DEF GetUncompressedLength
    <2>5. GetUncompressedLength(s) = v
        BY <2>4, <1>1, <1>2, SMT
    <2> QED
        BY <2>1, <2>2, <2>5
<1>7. CASE v >= 16384 /\ v < 128 * 16384
    <2>1. s = <<d0 + 128, d1 + 128, v2>> /\ Len(s) = 3 /\ s \in Seq(Nat)
        BY <1>1, <1>4, <1>7
    <2>6. /\ s \in Seq(Nat) /\ 3 \in 1 .. Len(s) /\ s[3] < 128
          /\ \A j \in 1 .. 3 - 1 : s[j] >= 128
        BY <2>1, <1>1, <1>7
    <2>2. VarintEnd(s) = 3
        BY <2>6, EndOf
    <2>3. s[1] % 128 = d0 /\ s[2] % 128 = d1 /\ s[3] % 128 = v2
        BY <2>1, <1>1, <1>3, <1>7
    <2>4. GetUncompressedLength(s) = d0 + 128 * d1 + 16384 * v2
        BY <2>2, <2>3, <1>1 DEF GetUncompressedLength
    <2>5. GetUncompressedLength(s) = v
        BY <2>4, <1>1, <1>2, SMT
    <2> QED
        BY <2>1, <2>2, <2>5
<1>8. CASE v >= 128 * 16384 /\ v < 16384 * 16384
    <2>1. s = <<d0 + 128, d1 + 128, d2 + 128, v3>> /\ Len(s) = 4 /\ s \in Seq(Nat)
        BY <1>1, <1>4, <1>8
    <2>6. /\ s \in Seq(Nat) /\ 4 \in 1 .. Len(s) /\ s[4] < 128
          /\ \A j \in 1 .. 4 - 1 : s[j] >= 128
        BY <2>1, <1>1, <1>8
    <2>2. VarintEnd(s) = 4
        BY <2>6, EndOf
    <2>3. s[1] % 128 = d0 /\ s[2] % 128 = d1 /\ s[3] % 128 = d2 /\ s[4] % 128 = v3
        BY <2>1, <1>1, <1>3, <1>8
    <2>4. GetUncompressedLength(s) = d0 + 128 * d1 + 16384 * d2 + (128 * 16384) * v3
        BY <2>2, <2>3, <1>1 DEF GetUncompressedLength
    <2>5. GetUncompressedLength(s) = v
        BY <2>4, <1>1, <1>2, SMT
    <2> QED
        BY <2>1, <2>2, <2>5
<1>9. CASE v >= 16384 * 16384
    <2>1. s = <<d0 + 128, d1 + 128, d2 + 128, d3 + 128, v4>> /\ Len(s) = 5 /\ s \in Seq(Nat)
        BY <1>1, <1>4, <1>9
    <2>6. /\ s \in Seq(Nat) /\ 5 \in 1 .. Len(s) /\ s[5] < 128
          /\ \A j \in 1 .. 5 - 1 : s[j] >= 128
        BY <2>1, <1>1, <1>9
    <2>2. VarintEnd(s) = 5
        BY <2>6, EndOf, SMTT(60)
    <2>3. s[1] % 128 = d0 /\ s[2] % 128 = d1 /\ s[3] % 128 = d2
          /\ s[4] % 128 = d3 /\ s[5] % 128 = v4
        <3>1. s[1] = d0 + 128 /\ s[2] = d1 + 128 /\ s[3] = d2 + 128
              /\ s[4] = d3 + 128 /\ s[5] = v4
            BY <2>1
        <3> QED
            BY <3>1, <1>1, <1>3, <1>9
    <2>4. GetUncompressedLength(s) = d0 + 128 * d1 + 16384 * d2 + (128 * 16384) * d3 + (16384 * 16384) * v4
        BY <2>2, <2>3, <1>1 DEF GetUncompressedLength
    <2>5. GetUncompressedLength(s) = v
        BY <2>4, <1>1, <1>2, SMT
    <2> QED
        BY <2>1, <2>2, <2>5
<1> QED
    BY <1>5, <1>6, <1>7, <1>8, <1>9

-----------------------------------------------------------------------------
(* Elements                                                                *)

Data == (UNION {[0 .. m -> Bytes] : m \in Nat}) \cup {Junk}

LEMMA JunkIsData == Junk \in Data
BY DEF Data

Elements ==
    [opcode : Nat, extra : Nat, trailer : Nat, count : Nat, data : Data,
     at : Nat, pos : Nat]

(* The element e stands for a part of the text t.                          *)
ElementOK(t, e) ==
    /\ Length(e) \in Nat \ {0} /\ e.at + Length(e) <= Size[t]
    /\ ExtraBytes(e) = e.extra
    /\ IsLiteral(e) =>
          /\ e.count = Length(e)
          /\ \A i \in 0 .. Length(e) - 1 : e.data[i] = Content[t][e.at + i]
    /\ ~IsLiteral(e) =>
          /\ e.count = 0 /\ Length(e) >= 4 /\ Offset(e) \in 1 .. e.at
          /\ \A i \in e.at .. e.at + Length(e) - 1 :
                Content[t][i] = Content[t][i - Offset(e)]

(* The elements of s stand for the first end bytes of the text t, and take *)
(* the bytes from head to size of the stream.                              *)
LayoutOf(t, s, end, head, size) ==
    /\ s \in Seq(Elements)
    /\ \A k \in 1 .. Len(s) :
          /\ ElementOK(t, s[k])
          /\ s[k].at + Length(s[k]) = IF k < Len(s) THEN s[k + 1].at ELSE end
          /\ s[k].pos + ElementSize(s[k]) = IF k < Len(s) THEN s[k + 1].pos ELSE size
          /\ s[k].pos + ElementSize(s[k]) <= size
    /\ IF s = <<>> THEN end = 0 /\ size = head ELSE s[1].at = 0 /\ s[1].pos = head

LEMMA SizeIsNat == text \in Texts => n \in Nat /\ n \div 16384 < 8 * 16384
BY TextAssumption DEF n

LEMMA ByteIsByte ==
    ASSUME text \in Texts, NEW i \in 0 .. n - 1
    PROVE  Byte(i) \in Bytes /\ Byte(i) \in Cells /\ Byte(i) = Content[text][i]
BY TextAssumption DEF n, Byte, Cells

(* The header of the stream.                                               *)
LEMMA Header ==
    ASSUME text \in Texts
    PROVE  /\ Len(EncodeVarint32(n)) \in 1 .. 5
           /\ VarintEnd(EncodeVarint32(n)) = Len(EncodeVarint32(n))
           /\ dstLen = n
BY SizeIsNat, VarintRoundTrip DEF dstLen

(* A literal stands for the bytes it was made of, and does not take much   *)
(* more.                                                                   *)
LEMMA LiteralLemma ==
    ASSUME text \in Texts, csize \in Nat,
           NEW from \in Nat, NEW upto \in Nat, from < upto, upto <= n,
           NEW e, e = Literal(from, upto)
    PROVE  /\ e \in Elements /\ ElementOK(text, e)
           /\ e.at = from /\ e.pos = csize /\ Length(e) = upto - from
           /\ ElementSize(e) \in Nat
           /\ ElementSize(e) > upto - from
           /\ 6 * ElementSize(e) <= 7 * (upto - from) + 5
           /\ upto - from >= 6 => 6 * ElementSize(e) <= 7 * (upto - from)
<1> DEFINE m == upto - from - 1
<1>1. m \in Nat /\ n \in Nat /\ n \div 16384 < 8 * 16384
    BY SizeIsNat
<1>2. /\ e.opcode = IF m < 60 THEN 4 * m ELSE 4 * (59 + ByteCount(m))
      /\ e.extra = IF m < 60 THEN 0 ELSE ByteCount(m)
      /\ e.trailer = m /\ e.count = m + 1
      /\ e.data = [i \in 0 .. m |-> Byte(from + i)]
      /\ e.at = from /\ e.pos = csize
    BY DEF Literal
<1>3. ByteCount(m) \in 1 .. 4 /\ LowBytes(m, ByteCount(m)) = m
    BY <1>1 DEF ByteCount, LowBytes
<1>4. e.opcode \in Nat /\ e.opcode % 4 = 0
      /\ e.opcode \div 4 = IF m < 60 THEN m ELSE 59 + ByteCount(m)
    BY <1>1, <1>2, <1>3
<1>5. IsLiteral(e) /\ ExtraBytes(e) = e.extra
    BY <1>1, <1>2, <1>3, <1>4, SMTT(60) DEF IsLiteral, ExtraBytes
<1>6. Length(e) = m + 1
    <2>1. CASE m < 60
        <3>1. ~(ExtraBytes(e) > 0) /\ e.opcode % 4 # 1 /\ e.opcode \div 4 = m
            BY <1>2, <1>4, <1>5, <2>1
        <3> QED
            BY <3>1 DEF Length
    <2>2. CASE ~(m < 60)
        <3>1. ExtraBytes(e) > 0 /\ ExtraBytes(e) = ByteCount(m) /\ e.trailer = m
            BY <1>2, <1>3, <1>5, <2>2
        <3> QED
            BY <3>1, <1>3, <1>5 DEF Length
    <2> QED
        BY <2>1, <2>2
<1>7. ElementSize(e) = e.extra + m + 2 /\ e.extra \in Nat
    BY <1>1, <1>2, <1>3 DEF ElementSize
<1>8. \A i \in 0 .. m : e.data[i] = Byte(from + i) /\ Byte(from + i) \in Bytes
    BY <1>1, <1>2, ByteIsByte
<1>9. e.data \in Data
    <2>1. e.data \in [0 .. m -> Bytes]
        BY <1>2, <1>8
    <2>2. \E k \in Nat : e.data \in [0 .. k -> Bytes]
        BY <1>1, <2>1
    <2> HIDE DEF m
    <2> QED
        BY <2>2, Zenon DEF Data
<1>10. e \in Elements
    <2>1. e = [opcode |-> e.opcode, extra |-> e.extra, trailer |-> e.trailer,
               count |-> e.count, data |-> e.data, at |-> e.at, pos |-> e.pos]
        BY DEF Literal
    <2>2. e.trailer = m /\ e.count = m + 1 /\ e.at = from /\ e.pos = csize
        BY <1>2
    <2>3. /\ e.opcode \in Nat /\ e.extra \in Nat /\ e.trailer \in Nat /\ e.count \in Nat
          /\ e.at \in Nat /\ e.pos \in Nat
        BY <1>1, <1>4, <1>7, <2>2
    <2> QED
        BY <1>9, <2>1, <2>3 DEF Elements
<1>11. ElementOK(text, e)
    <2>1. e.count = m + 1 /\ e.at = from /\ Size[text] = n
        BY <1>2 DEF n
    <2>2. \A i \in 0 .. m : e.data[i] = Content[text][from + i]
        BY <1>8 DEF Byte
    <2> HIDE DEF m
    <2>3. m \in Nat /\ from + (m + 1) <= n
        BY <1>1 DEF m
    <2>4. \A i \in 0 .. Length(e) - 1 : e.data[i] = Content[text][e.at + i]
        BY <1>6, <2>1, <2>2, <2>3
    <2>5. Length(e) \in Nat \ {0} /\ e.at + Length(e) <= Size[text]
        BY <1>1, <1>6, <2>1, <2>3
    <2> QED
        BY <1>5, <1>6, <2>1, <2>4, <2>5 DEF ElementOK
<1>12. 6 * e.extra <= m /\ (m >= 5 => 6 * e.extra + 5 <= m)
    <2>1. e.extra = IF m < 60 THEN 0 ELSE ByteCount(m)
        BY <1>2
    <2> QED
        BY <1>1, <1>3, <2>1
<1>13. /\ Length(e) = upto - from
       /\ ElementSize(e) \in Nat /\ ElementSize(e) > upto - from
       /\ 6 * ElementSize(e) <= 7 * (upto - from) + 5
       /\ upto - from >= 6 => 6 * ElementSize(e) <= 7 * (upto - from)
    BY <1>1, <1>6, <1>7, <1>12
<1>14. e.at = from /\ e.pos = csize
    BY <1>2
<1> QED
    BY <1>10, <1>11, <1>13, <1>14

(* The text repeats what is offset bytes before.                           *)
Repeats(from, l, offset) == \A i \in from .. from + l - 1 : Byte(i) = Byte(i - offset)

(* A copy stands for bytes that were written before.                       *)
LEMMA CopyLemma ==
    ASSUME text \in Texts, csize \in Nat,
           NEW from \in Nat, NEW offset \in 1 .. from, NEW l \in Nat, l >= 4, l <= 64,
           offset < 65536, from + l <= n,
           Repeats(from, l, offset),
           NEW e, e = Copy(from, offset, l)
    PROVE  /\ e \in Elements /\ ElementOK(text, e)
           /\ e.at = from /\ e.pos = csize /\ Length(e) = l
           /\ ElementSize(e) \in 2 .. 3
<1> DEFINE short == l < 12 /\ offset < 2048
<1>1. n \in Nat
    BY SizeIsNat
<1>2. /\ e.opcode = IF short
                     THEN (1 + (4 * (l - 4)) + (32 * (offset \div 256))) % 256
                     ELSE (2 + (4 * (l - 1))) % 256
      /\ e.extra = IF short THEN 1 ELSE 2
      /\ e.trailer = IF short THEN offset % 256 ELSE offset % 65536
      /\ e.count = 0 /\ e.data = Junk /\ e.at = from /\ e.pos = csize
    BY DEF Copy, CopyOf
<1>3. CASE short
    <2> DEFINE high == offset \div 256
    <2>1. high \in 0 .. 7 /\ offset = 256 * high + (offset % 256)
          /\ offset % 256 \in 0 .. 255
        BY <1>3
    <2> HIDE DEF high
    <2>2. e.opcode = 1 + (4 * (l - 4)) + (32 * high)
        BY <1>2, <1>3, <2>1 DEF high
    <2>3. e.opcode % 4 = 1 /\ e.opcode \div 32 = high /\ (e.opcode \div 4) % 8 = l - 4
        BY <1>3, <2>1, <2>2
    <2>4. ~IsLiteral(e) /\ ExtraBytes(e) = 1
        BY <2>3 DEF IsLiteral, ExtraBytes
    <2>5. Length(e) = l /\ Offset(e) = offset
        BY <1>2, <1>3, <2>1, <2>3, <2>4 DEF Length, Offset, LowBytes
    <2>6. e \in Elements
        <3>1. e = [opcode |-> e.opcode, extra |-> e.extra, trailer |-> e.trailer,
                   count |-> e.count, data |-> e.data, at |-> e.at, pos |-> e.pos]
            BY DEF Copy, CopyOf
        <3>2. /\ e.opcode \in Nat /\ e.extra \in Nat /\ e.trailer \in Nat
              /\ e.count \in Nat /\ e.at \in Nat /\ e.pos \in Nat
            BY <1>2, <1>3, <2>1, <2>2
        <3>3. e.data \in Data
            <4>1. e.data = Junk
                BY <1>2
            <4> QED
                BY <4>1, JunkIsData
        <3> QED
            BY <3>1, <3>2, <3>3 DEF Elements
    <2>7. ElementOK(text, e)
        BY <1>1, <1>2, <1>3, <2>4, <2>5 DEF ElementOK, Repeats, Byte, n
    <2> QED
        BY <1>2, <1>3, <2>5, <2>6, <2>7 DEF ElementSize
<1>4. CASE ~short
    <2>1. e.opcode = 2 + (4 * (l - 1)) /\ e.trailer = offset
        BY <1>2, <1>4
    <2>2. e.opcode % 4 = 2 /\ e.opcode \div 4 = l - 1
        BY <2>1
    <2>3. ~IsLiteral(e) /\ ExtraBytes(e) = 2
        BY <2>2 DEF IsLiteral, ExtraBytes
    <2>4. Length(e) = l /\ Offset(e) = offset
        BY <1>4, <2>1, <2>2, <2>3 DEF Length, Offset, LowBytes
    <2>5. e \in Elements
        <3>1. e = [opcode |-> e.opcode, extra |-> e.extra, trailer |-> e.trailer,
                   count |-> e.count, data |-> e.data, at |-> e.at, pos |-> e.pos]
            BY DEF Copy, CopyOf
        <3>2. /\ e.opcode \in Nat /\ e.extra \in Nat /\ e.trailer \in Nat
              /\ e.count \in Nat /\ e.at \in Nat /\ e.pos \in Nat
            BY <1>2, <1>4, <2>1
        <3>3. e.data \in Data
            <4>1. e.data = Junk
                BY <1>2
            <4> QED
                BY <4>1, JunkIsData
        <3> QED
            BY <3>1, <3>2, <3>3 DEF Elements
    <2>6. ElementOK(text, e)
        BY <1>1, <1>2, <1>4, <2>3, <2>4 DEF ElementOK, Repeats, Byte, n
    <2> QED
        BY <1>2, <1>4, <2>4, <2>5, <2>6 DEF ElementSize
<1> QED
    BY <1>3, <1>4

(* A further element.                                                      *)
LEMMA AppendLayout ==
    ASSUME NEW t, NEW s, NEW end \in Nat, NEW head \in Nat, NEW size \in Nat,
           LayoutOf(t, s, end, head, size),
           NEW e \in Elements, ElementOK(t, e), e.at = end, e.pos = size
    PROVE  LayoutOf(t, Append(s, e), end + Length(e), head, size + ElementSize(e))
<1> DEFINE r == Append(s, e)
<1>1. s \in Seq(Elements) /\ r \in Seq(Elements) /\ Len(r) = Len(s) + 1 /\ r # <<>>
      /\ r[Len(r)] = e /\ \A k \in 1 .. Len(s) : r[k] = s[k]
    BY DEF LayoutOf
<1>2. ElementSize(e) \in Nat /\ Length(e) \in Nat
    BY DEF ElementSize, Elements, ElementOK
<1>3. ASSUME NEW k \in 1 .. Len(r)
      PROVE  /\ ElementOK(t, r[k])
             /\ r[k].at + Length(r[k]) = IF k < Len(r) THEN r[k + 1].at ELSE end + Length(e)
             /\ r[k].pos + ElementSize(r[k])
                  = IF k < Len(r) THEN r[k + 1].pos ELSE size + ElementSize(e)
             /\ r[k].pos + ElementSize(r[k]) <= size + ElementSize(e)
    <2>1. CASE k = Len(r)
        BY <2>1, <1>1, <1>2
    <2>2. CASE k # Len(r)
        <3>1. k \in 1 .. Len(s) /\ r[k] = s[k] /\ k < Len(r)
            BY <2>2, <1>1
        <3>2. r[k + 1] = IF k < Len(s) THEN s[k + 1] ELSE e
            BY <3>1, <1>1
        <3>3. /\ ElementOK(t, s[k])
              /\ s[k].at + Length(s[k]) = IF k < Len(s) THEN s[k + 1].at ELSE end
              /\ s[k].pos + ElementSize(s[k]) = IF k < Len(s) THEN s[k + 1].pos ELSE size
              /\ s[k].pos + ElementSize(s[k]) <= size
            BY <3>1 DEF LayoutOf
        <3>4. s[k].pos + ElementSize(s[k]) \in Int
            <4>1. s[k] \in Elements
                BY <3>1, <1>1
            <4> QED
                BY <4>1, SMTT(60) DEF Elements, ElementSize
        <3> QED
            BY <3>1, <3>2, <3>3, <3>4, <1>1, <1>2
    <2> QED
        BY <2>1, <2>2
<1>4. r[1].at = 0 /\ r[1].pos = head
    <2>1. CASE s = <<>>
        BY <2>1, <1>1 DEF LayoutOf
    <2>2. CASE s # <<>>
        BY <2>2, <1>1 DEF LayoutOf
    <2> QED
        BY <2>1, <2>2
<1> QED
    BY <1>1, <1>3, <1>4 DEF LayoutOf

-----------------------------------------------------------------------------
(* The inductive invariant                                                 *)

head == Len(EncodeVarint32(n))

(* The part of the text whose elements are written.                        *)
emitted ==
    IF pc \in {"scan", "remainder"} THEN next_emit
    ELSE IF pc = "block" THEN block
    ELSE IF pc = "copy" THEN ip - len
    ELSE IF pc \in {"extend", "next"} THEN ip
    ELSE n

(* Elements do not take much more than the text they stand for: each copy  *)
(* saves what the next literal may cost.                                   *)
Saved(c, t, debt) == 6 * c <= 7 * t + 30 + debt
Fits(r, m) == 6 * r <= 7 * m + 187

Cost(debt) == Saved(csize, emitted, debt)

CostInv ==
    /\ pc \in {"scan", "remainder"} => Cost(IF next_emit = block THEN 0 ELSE -5)
    /\ pc \in {"extend", "copy"} => Cost(5)
    /\ pc = "next" => Cost(-5)
    /\ pc = "block" => Cost(IF block = n THEN 5 ELSE 0)
    /\ Cost(5)
    /\ Fits(reached, n)

TableBelow(i) == table \in [Buckets -> 0 .. i - block - 1]

CompressInv ==
    /\ pc \in {"scan", "extend", "copy", "next", "remainder"} =>
          block < n /\ next_emit \in block .. blockEnd
    /\ pc = "scan" =>
          /\ next_emit < ip /\ ip <= limit + 1 /\ skip >= 32
          /\ TableBelow(ip)
    /\ pc = "extend" =>
          /\ next_emit <= ip /\ ip <= limit /\ candidate \in block .. ip - 1
          /\ len >= 4 /\ ip + len <= blockEnd
          /\ \A k \in 0 .. len - 1 : Same(k)
          /\ TableBelow(ip + 1)
    /\ pc = "copy" =>
          /\ len >= 4 /\ candidate < ip /\ candidate - len >= block /\ ip <= blockEnd
          /\ \A i \in ip - len .. ip - 1 : Byte(i) = Byte(i - (ip - candidate))
          /\ TableBelow(ip)
    /\ pc = "next" => block < ip /\ ip <= blockEnd /\ TableBelow(ip)

Reading == pc \in {"element", "repeat", "eights", "bytes", "done"}
Looping == pc \in {"repeat", "eights", "bytes"}
elementEnd == op + Length(element)

(* In a loop the bytes before to are restored, and the text repeats itself *)
(* at the distance of the pointers up to the end of the element.           *)
DecompressInv ==
    /\ ~Reading => op = 0 /\ next = 1
    /\ Reading => /\ op = IF next <= Len(stream) THEN element.at ELSE n
                  /\ used = IF next <= Len(stream) THEN element.pos ELSE csize
    /\ pc = "done" => next > Len(stream)
    /\ \A i \in 0 .. op - 1 : dst[i] = Byte(i)
    /\ wrote <= n
    /\ Looping => /\ next <= Len(stream) /\ ~IsLiteral(element)
                  /\ src < to /\ op <= to /\ len = elementEnd - to
                  /\ \A i \in 0 .. to - 1 : i < elementEnd => dst[i] = Byte(i)
                  /\ \A i \in to .. elementEnd - 1 : Byte(i) = Byte(i - (to - src))
    /\ pc = "repeat" => src < op /\ elementEnd + 10 <= n
    /\ pc = "eights" => to - src >= 8 /\ elementEnd + 10 <= n
    /\ pc = "bytes" => len >= 1

IInv ==
    /\ TypeOK /\ pc # "failed"
    /\ LayoutOf(text, stream, emitted, head, csize)
    /\ CostInv /\ CompressInv /\ DecompressInv

-----------------------------------------------------------------------------
(* Facts about blocks, words and the table                                 *)

LEMMA BlockFacts ==
    ASSUME text \in Texts, block \in 0 .. n, block < n
    PROVE  /\ blockEnd \in block + 1 .. n /\ blockEnd <= block + BlockSize
           /\ blockEnd < n => blockEnd = block + BlockSize
           /\ limit = blockEnd - 15 /\ limit \in Int
           /\ BlockSize \in Nat /\ BlockSize >= 15 /\ BlockSize <= 65536 /\ n \in Nat
BY SizeIsNat, BlockAssumption DEF blockEnd, limit, kInputMarginBytes

LEMMA WordFacts ==
    ASSUME text \in Texts, NEW i \in 0 .. n - 4
    PROVE  /\ Hash(Load32(i)) \in Buckets
           /\ \A j \in 0 .. n - 4 : Load32(i) = Load32(j) =>
                 \A k \in 0 .. 3 : Byte(j + k) = Byte(i + k)
<1>1. Hash(Load32(i)) \in Buckets
    BY HashAssumption DEF Load32, n
<1>2. ASSUME NEW j \in 0 .. n - 4, Load32(i) = Load32(j), NEW k \in 0 .. 3
      PROVE  Byte(j + k) = Byte(i + k)
    <2>1. /\ Byte(i) = Byte(j) /\ Byte(i + 1) = Byte(j + 1)
          /\ Byte(i + 2) = Byte(j + 2) /\ Byte(i + 3) = Byte(j + 3)
        BY <1>2 DEF Load32, Word, Byte
    <2>2. k = 0 \/ k = 1 \/ k = 2 \/ k = 3
        OBVIOUS
    <2>3. CASE k = 0
        BY <2>1, <2>3, SizeIsNat
    <2> QED
        BY <2>1, <2>2, <2>3
<1> QED
    BY <1>1, <1>2

(* What a step of the decompressor leaves alone.                           *)
LEMMA CompressorKept ==
    ASSUME IInv, Reading, Reading', UNCHANGED <<text, compressor>>
    PROVE  /\ LayoutOf(text, stream, emitted, head, csize)'
           /\ CostInv' /\ CompressInv'
<1>1. emitted = n /\ emitted' = n /\ n' = n /\ head' = head
    BY DEF Reading, emitted, n, head
<1>2. LayoutOf(text, stream, emitted, head, csize)'
    BY <1>1 DEF IInv, compressor
<1>3. CostInv'
    BY <1>1 DEF IInv, CostInv, Cost, Reading, compressor
<1>4. CompressInv'
    BY DEF Reading, CompressInv
<1> QED
    BY <1>2, <1>3, <1>4

(* What a step of the compressor leaves alone.                             *)
LEMMA DecompressorKept ==
    ASSUME IInv, ~Reading, ~Reading', UNCHANGED <<text, decompressor>>
    PROVE  DecompressInv'
<1>1. /\ pc' \notin {"repeat", "eights", "bytes", "done"}
      /\ op' = 0 /\ next' = 1 /\ n' = n /\ wrote' = wrote
    BY DEF Reading, IInv, DecompressInv, decompressor, n
<1> QED
    BY <1>1 DEF Reading, Looping, IInv, DecompressInv

(* What a step inside a block can rely on.                                 *)
WithinBlock ==
    /\ text \in Texts /\ n \in Nat /\ n' = n /\ head' = head /\ head \in Nat
    /\ block \in 0 .. n /\ BlockSize \in Nat /\ BlockSize >= 15 /\ BlockSize <= 65536
    /\ blockEnd \in block + 1 .. n /\ blockEnd <= block + BlockSize
    /\ blockEnd' = blockEnd /\ limit = blockEnd - 15 /\ limit' = limit

LEMMA BlockKept ==
    ASSUME IInv, block < n, text' = text, block' = block
    PROVE  WithinBlock
<1>1. text \in Texts /\ block \in 0 .. n
    BY DEF IInv, TypeOK
<1>2. n' = n /\ blockEnd' = blockEnd /\ limit' = limit /\ head' = head
    BY DEF n, blockEnd, limit, head
<1>3. head \in Nat
    BY <1>1, Header DEF head
<1>4. /\ blockEnd \in block + 1 .. n /\ blockEnd <= block + BlockSize
      /\ limit = blockEnd - 15 /\ BlockSize \in Nat /\ BlockSize >= 15 /\ BlockSize <= 65536 /\ n \in Nat
    BY <1>1, BlockFacts
<1> QED
    BY <1>1, <1>2, <1>3, <1>4 DEF WithinBlock

(* The types of what the compressor changes are all that is left to show.  *)
LEMMA TypesKept ==
    ASSUME IInv, UNCHANGED <<text, decompressor>>,
           pc' \in {"block", "scan", "extend", "copy", "next", "remainder"},
           block' \in 0 .. n, ip' \in 0 .. n, next_emit' \in 0 .. n,
           candidate' \in 0 .. n, skip' \in Nat, csize' \in Nat, reached' \in Nat,
           table' \in [Buckets -> 0 .. BlockSize], len' \in Int,
           Len(stream) \in Nat, Len(stream') \in Nat, Len(stream') >= Len(stream)
    PROVE  TypeOK'
<1>1. n' = n
    BY DEF n
<1>2. /\ text' \in Texts /\ used' \in Nat /\ src' \in Nat /\ to' \in Nat /\ wrote' \in Nat
      /\ op' \in 0 .. n /\ dst' \in [0 .. n - 1 -> Cells]
      /\ next' \in 1 .. Len(stream) + 1
    BY DEF IInv, TypeOK, decompressor
<1>3. next' \in 1 .. Len(stream') + 1
    BY <1>2
<1> QED
    BY <1>1, <1>2, <1>3, Zenon DEF TypeOK

(* An element that continues the stream where it ends.                     *)
LEMMA Emitted ==
    ASSUME IInv, NEW e \in Elements, ElementOK(text, e), emitted \in Nat,
           e.at = emitted, e.pos = csize, NEW overrun \in Nat, Emit(e, overrun)
    PROVE  /\ LayoutOf(text, stream', emitted + Length(e), head, csize')
           /\ csize' = csize + ElementSize(e) /\ ElementSize(e) \in Nat
           /\ Len(stream) \in Nat /\ Len(stream') = Len(stream) + 1
           /\ reached' \in {reached, csize + overrun, csize + ElementSize(e)}
<1>1. LayoutOf(text, stream, emitted, head, csize) /\ csize \in Nat /\ text \in Texts
    BY DEF IInv, TypeOK
<1>2. stream' = Append(stream, e) /\ csize' = csize + ElementSize(e)
    BY DEF Emit
<1>3. head \in Nat
    BY <1>1, Header DEF head
<1>4. stream \in Seq(Elements)
    BY <1>1 DEF LayoutOf
<1>5. ElementSize(e) \in Nat
    BY DEF ElementSize, Elements
<1>6. reached' \in {reached, csize + overrun, csize + ElementSize(e)}
    BY DEF Emit, Larger
<1> QED
    BY <1>1, <1>2, <1>3, <1>4, <1>5, <1>6, AppendLayout

-----------------------------------------------------------------------------
(* The steps of the compressor                                             *)

LEMMA InitIInv == Init => IInv
<1> SUFFICES ASSUME Init PROVE IInv
    OBVIOUS
<1>1. text \in Texts /\ n \in Nat /\ head \in 1 .. 5 /\ csize = head /\ reached = csize
    BY SizeIsNat, Header, SMTT(60) DEF Init, head
<1>2. TypeOK
    <2>1. dst \in [0 .. n - 1 -> Cells]
        BY DEF Init, Cells
    <2>2. table \in [Buckets -> 0 .. BlockSize]
        BY BlockAssumption DEF Init, EmptyTable, kInputMarginBytes
    <2>3. Len(stream) = 0
        BY DEF Init
    <2> QED
        BY <1>1, <2>1, <2>2, <2>3 DEF Init, TypeOK
<1>3. LayoutOf(text, stream, emitted, head, csize)
    BY <1>1 DEF Init, LayoutOf, emitted
<1>4. CostInv
    <2>1. emitted = 0
        BY DEF Init, emitted
    <2>2. Saved(csize, 0, 0) /\ Saved(csize, 0, 5) /\ Fits(csize, n)
        BY <1>1 DEF Saved, Fits
    <2> QED
        BY <1>1, <2>1, <2>2 DEF Init, CostInv, Cost
<1>5. CompressInv
    BY DEF Init, CompressInv
<1>6. DecompressInv
    BY <1>1 DEF Init, DecompressInv, Reading, Looping
<1> QED
    BY <1>2, <1>3, <1>4, <1>5, <1>6 DEF IInv, Init

LEMMA NextBlockStep == IInv /\ NextBlock => IInv'
<1> SUFFICES ASSUME IInv, NextBlock PROVE IInv'
    OBVIOUS
<1> USE DEF NextBlock
<1>1. /\ text \in Texts /\ n \in Nat /\ block \in 0 .. n /\ block < n /\ n' = n /\ head' = head
      /\ blockEnd \in block + 1 .. n /\ blockEnd' = blockEnd /\ limit = blockEnd - 15
      /\ limit' = limit
    BY BlockKept DEF WithinBlock
<1>2. emitted = block /\ emitted' = block /\ csize' = csize /\ reached' = reached
    BY DEF emitted
<1>3. TypeOK'
    BY <1>1, BlockAssumption DEF IInv, TypeOK, decompressor, EmptyTable, kInputMarginBytes
<1>4. LayoutOf(text, stream, emitted, head, csize)'
    BY <1>1, <1>2 DEF IInv
<1>5. CostInv'
    BY <1>1, <1>2 DEF IInv, CostInv, Cost
<1>6. CompressInv'
    BY <1>1 DEF CompressInv, TableBelow, EmptyTable, kInputMarginBytes
<1>7. DecompressInv'
    BY DecompressorKept DEF Reading
<1> QED
    BY <1>3, <1>4, <1>5, <1>6, <1>7 DEF IInv

(* A match that begins: four bytes are the same.                           *)
LEMMA MatchBegins ==
    ASSUME text \in Texts, n \in Nat, text' = text,
           NEW i \in 0 .. n - 4, NEW j \in 0 .. n - 4,
           Load32(i) = Load32(j), ip' = i, candidate' = j
    PROVE  \A k \in 0 .. 3 : Same(k)'
<1>1. \A k \in 0 .. 3 : Byte(j + k) = Byte(i + k)
    BY WordFacts
<1>2. \A k \in 0 .. 3 : Byte(j + k)' = Byte(j + k) /\ Byte(i + k)' = Byte(i + k)
    BY DEF Byte
<1> QED
    BY <1>1, <1>2 DEF Same, Byte

LEMMA ScanStep == IInv /\ Scan => IInv'
<1> SUFFICES ASSUME IInv, Scan PROVE IInv'
    OBVIOUS
<1> DEFINE after == ip + (skip \div 32)
           h == Hash(Load32(ip))
           e == Literal(next_emit, ip)
           overrun == IF ip - next_emit <= 16 THEN 17 ELSE 0
<1>1. /\ pc = "scan" /\ text' = text /\ block' = block /\ next_emit' = next_emit
      /\ decompressor' = decompressor
    BY DEF Scan
<1>2. block < n /\ next_emit \in block .. blockEnd
    BY <1>1 DEF IInv, CompressInv
<1>3. WithinBlock
    BY <1>1, <1>2, BlockKept
<1>4. /\ next_emit < ip /\ ip <= limit + 1 /\ skip >= 32 /\ ip \in Nat /\ skip \in Nat
      /\ table \in [Buckets -> 0 .. ip - block - 1] /\ next_emit \in 0 .. n
      /\ skip \div 32 >= 1 /\ skip \div 32 \in Nat
      /\ candidate \in 0 .. n /\ len \in Int /\ Len(stream) \in Nat /\ ip \in 0 .. n
      /\ table \in [Buckets -> 0 .. BlockSize]
    BY <1>1 DEF IInv, TypeOK, CompressInv, TableBelow, LayoutOf
<1>5. /\ emitted = next_emit /\ Cost(IF next_emit = block THEN 0 ELSE -5)
      /\ Saved(csize, next_emit, 0) /\ Saved(csize, next_emit, 5)
      /\ csize \in Nat /\ reached \in Nat /\ Fits(reached, n)
    <2>1. emitted = next_emit /\ Cost(IF next_emit = block THEN 0 ELSE -5)
        BY <1>1 DEF emitted, IInv, CostInv
    <2>2. csize \in Nat /\ reached \in Nat /\ Fits(reached, n)
        BY DEF IInv, CostInv, TypeOK
    <2> QED
        BY <1>4, <2>1, <2>2 DEF Cost, Saved
<1>6. pc' \in {"remainder", "extend", "scan"}
    BY <1>1 DEF Scan
<1>7. DecompressInv'
    BY <1>1, <1>6, DecompressorKept DEF Reading
<1>8. CASE after > limit
    <2>1. pc' = "remainder" /\ UNCHANGED <<ip, skip, table, candidate, stream, csize, reached, len>>
        BY <1>8 DEF Scan
    <2>2. emitted' = emitted
        BY <1>1, <1>5, <2>1 DEF emitted
    <2>3. TypeOK'
        BY <1>1, <1>3, <1>4, <1>5, <2>1, TypesKept DEF WithinBlock
    <2>4. LayoutOf(text, stream, emitted, head, csize)'
        BY <1>1, <1>3, <2>1, <2>2 DEF WithinBlock, IInv
    <2>5. CostInv'
        BY <1>1, <1>3, <1>4, <1>5, <2>1, <2>2 DEF WithinBlock, CostInv, Cost
    <2>6. CompressInv'
        BY <1>1, <1>2, <1>3, <2>1 DEF WithinBlock, CompressInv
    <2> QED
        BY <1>7, <2>1, <2>3, <2>4, <2>5, <2>6 DEF IInv
<1>9. CASE after <= limit
    <2>1. ~(after > limit)
        BY <1>3, <1>4, <1>9 DEF WithinBlock
    <2>2. /\ candidate' = Probe(ip) /\ table' = [table EXCEPT ![h] = Relative(ip)]
          /\ skip' = skip + 1
        BY <2>1 DEF Scan
    <2>3. ip \in 0 .. n - 4 /\ h \in Buckets
        BY <1>3, <1>4, <1>9, WordFacts DEF WithinBlock
    <2>4. candidate' \in block .. ip - 1 /\ candidate' \in 0 .. n - 4
        BY <1>3, <1>4, <2>2, <2>3 DEF WithinBlock, Probe
    <2>5. table' \in [Buckets -> 0 .. ip - block] /\ table' \in [Buckets -> 0 .. BlockSize]
        <3>1. Relative(ip) \in 0 .. ip - block
            BY <1>2, <1>3, <1>4 DEF WithinBlock, Relative
        <3>2. table \in [Buckets -> 0 .. ip - block]
            BY <1>3, <1>4 DEF WithinBlock
        <3>3. table' \in [Buckets -> 0 .. ip - block]
            BY <2>2, <3>1, <3>2
        <3>4. ip - block <= BlockSize
            BY <1>3, <1>4 DEF WithinBlock
        <3> QED
            BY <1>3, <1>4, <3>3, <3>4 DEF WithinBlock
    <2>6. CASE Load32(ip) = Load32(candidate')
        <3>1. /\ pc' = "extend" /\ len' = 4 /\ ip' = ip
              /\ Emit(e, overrun)
            BY <2>1, <2>2, <2>6 DEF Scan
        <3>11. e = Literal(next_emit, ip)
            OBVIOUS
        <3> HIDE DEF e
        <3>2. /\ e \in Elements /\ ElementOK(text, e)
              /\ e.at = next_emit /\ e.pos = csize /\ Length(e) = ip - next_emit
              /\ 6 * ElementSize(e) <= 7 * (ip - next_emit) + 5
            <4>1. /\ text \in Texts /\ csize \in Nat /\ next_emit \in Nat /\ ip \in Nat
                  /\ next_emit < ip /\ ip <= n
                BY <1>3, <1>4, <1>5 DEF WithinBlock
            <4> QED
                BY <3>11, <4>1, LiteralLemma
        <3>3. /\ LayoutOf(text, stream', emitted + Length(e), head, csize')
              /\ csize' = csize + ElementSize(e) /\ ElementSize(e) \in Nat
              /\ Len(stream) \in Nat /\ Len(stream') = Len(stream) + 1
              /\ reached' \in {reached, csize + overrun, csize + ElementSize(e)}
            <4>1. overrun \in Nat /\ emitted \in Nat
                BY <1>4, <1>5
            <4> HIDE DEF overrun
            <4> QED
                BY <1>5, <3>1, <3>2, <4>1, Emitted
        <3>4. emitted' = ip /\ ip = emitted + Length(e)
            <4>1. emitted' = ip
                BY <3>1 DEF emitted
            <4>2. ip = emitted + Length(e)
                BY <1>4, <1>5, <3>2
            <4> QED
                BY <4>1, <4>2
        <3>5. LayoutOf(text, stream, emitted, head, csize)'
            BY <1>1, <1>3, <3>3, <3>4 DEF WithinBlock
        <3>6. Saved(csize + ElementSize(e), ip, 5)
            BY <1>4, <1>5, <3>2, <3>3 DEF Saved
        <3>7. Fits(reached', n) /\ reached' \in Nat /\ csize' \in Nat
            <4>1. n \in Nat /\ ip \in Nat /\ next_emit \in Nat /\ ip <= n /\ next_emit <= n
                BY <1>3, <1>4 DEF WithinBlock
            <4>2. Fits(csize, n) /\ Fits(csize + 17, n) /\ Fits(csize + ElementSize(e), n)
                BY <1>5, <3>3, <3>6, <4>1 DEF Fits, Saved
            <4>3. reached' \in {reached, csize, csize + 17, csize + ElementSize(e)}
                BY <1>5, <3>3
            <4> QED
                BY <1>5, <3>3, <4>2, <4>3
        <3>8. CostInv'
            <4>1. n' = n
                BY <1>3 DEF WithinBlock
            <4>2. Saved(csize', ip, 5)
                BY <3>3, <3>6
            <4>3. emitted' = ip
                BY <3>4
            <4> QED
                BY <3>1, <3>7, <4>1, <4>2, <4>3 DEF CostInv, Cost
        <3>9. CompressInv'
            <4>1. \A k \in 0 .. 3 : Same(k)'
                BY <1>1, <1>3, <2>3, <2>4, <2>6, <3>1, MatchBegins DEF WithinBlock
            <4>2. TableBelow(ip + 1)'
                BY <1>1, <1>3, <1>4, <2>5, <3>1 DEF WithinBlock, TableBelow
            <4>3. ip <= limit /\ ip + 4 <= blockEnd
                BY <1>3, <1>4, <1>9 DEF WithinBlock
            <4> QED
                BY <1>1, <1>2, <1>3, <1>4, <2>4, <3>1, <4>1, <4>2, <4>3 DEF WithinBlock, CompressInv
        <3>10. TypeOK'
            <4>1. /\ block' \in 0 .. n /\ ip' \in 0 .. n /\ next_emit' \in 0 .. n
                  /\ candidate' \in 0 .. n /\ skip' \in Nat /\ len' \in Int
                  /\ Len(stream') \in Nat /\ Len(stream') >= Len(stream)
                BY <1>1, <1>3, <1>4, <2>2, <2>4, <3>1, <3>3 DEF WithinBlock
            <4> QED
                BY <1>1, <2>5, <3>1, <3>3, <3>7, <4>1, TypesKept
        <3> QED
            BY <1>7, <3>1, <3>5, <3>8, <3>9, <3>10 DEF IInv
    <2>7. CASE Load32(ip) # Load32(candidate')
        <3>1. ip' = after /\ UNCHANGED <<pc, len, stream, csize, reached>>
            BY <2>1, <2>2, <2>7 DEF Scan
        <3>2. emitted' = emitted
            BY <1>1, <1>5, <3>1 DEF emitted
        <3>3. TypeOK'
            <4>1. /\ ip' \in 0 .. n /\ candidate' \in 0 .. n /\ skip' \in Nat
                BY <1>3, <1>4, <1>9, <2>2, <2>4, <3>1 DEF WithinBlock
            <4> QED
                BY <1>1, <1>3, <1>4, <1>5, <2>5, <3>1, <4>1, TypesKept DEF WithinBlock
        <3>4. LayoutOf(text, stream, emitted, head, csize)'
            BY <1>1, <1>3, <3>1, <3>2 DEF WithinBlock, IInv
        <3>5. CostInv'
            BY <1>1, <1>3, <1>4, <1>5, <3>1, <3>2 DEF WithinBlock, CostInv, Cost
        <3>6. CompressInv'
            <4>1. ip' \in Nat /\ ip' > ip /\ ip' <= limit
                BY <1>3, <1>4, <1>9, <3>1 DEF WithinBlock
            <4>2. TableBelow(ip)'
                BY <1>1, <1>3, <1>4, <2>5, <4>1 DEF WithinBlock, TableBelow
            <4> QED
                BY <1>1, <1>2, <1>3, <1>4, <2>2, <3>1, <4>1, <4>2 DEF WithinBlock, CompressInv
        <3> QED
            BY <1>1, <1>7, <3>1, <3>3, <3>4, <3>5, <3>6 DEF IInv
    <2> QED
        BY <2>6, <2>7
<1> QED
    BY <1>3, <1>4, <1>8, <1>9 DEF WithinBlock

(* A match of l bytes that lies inside the block.                          *)
MatchOf(l) ==
    /\ l \in Nat /\ l >= 4 /\ ip + l <= blockEnd
    /\ \A k \in 0 .. l - 1 : Same(k)

(* A match grows, or its end is found; the rest of a step is the same.     *)
LEMMA ExtendStep == IInv /\ Extend => IInv'
<1> SUFFICES ASSUME IInv, Extend PROVE IInv'
    OBVIOUS
<1>1. /\ pc = "extend" /\ text' = text /\ block' = block /\ next_emit' = next_emit
      /\ skip' = skip /\ table' = table /\ stream' = stream /\ csize' = csize
      /\ reached' = reached /\ decompressor' = decompressor
    BY DEF Extend
<1>2. /\ block < n /\ next_emit \in block .. blockEnd /\ next_emit <= ip /\ ip <= limit
      /\ candidate \in block .. ip - 1 /\ len >= 4 /\ ip + len <= blockEnd
      /\ \A k \in 0 .. len - 1 : Same(k)
      /\ TableBelow(ip + 1)
    BY <1>1 DEF IInv, CompressInv
<1>3. WithinBlock
    BY <1>1, <1>2, BlockKept
<1>4. /\ ip \in 0 .. n /\ len \in Int /\ candidate \in 0 .. n /\ next_emit \in 0 .. n
      /\ skip \in Nat /\ csize \in Nat /\ reached \in Nat /\ Len(stream) \in Nat
      /\ table \in [Buckets -> 0 .. BlockSize]
    BY DEF IInv, TypeOK, LayoutOf
<1>5. candidate' = candidate + (ip' - ip)
    BY DEF Extend
<1>6. \E l \in Nat : /\ MatchOf(l) /\ len' = l
                      /\ \/ pc' = "extend" /\ ip' = ip
                         \/ pc' = "copy" /\ ip' = ip + l
    <2>1. CASE ip + len + 8 <= blockEnd /\ \A k \in 0 .. 7 : Same(len + k)
        <3>1. pc' = "extend" /\ ip' = ip /\ len' = len + 8
            BY <1>1, <2>1 DEF Extend
        <3>2. ASSUME NEW k \in 0 .. len + 8 - 1 PROVE Same(k)
            <4>1. k < len \/ (k - len \in 0 .. 7 /\ k = len + (k - len))
                BY <1>4
            <4> QED
                BY <1>2, <1>4, <2>1, <4>1
        <3>3. len + 8 \in Nat /\ len + 8 >= 4
            BY <1>2, <1>4
        <3>4. MatchOf(len + 8)
            BY <1>4, <2>1, <3>2, <3>3 DEF MatchOf
        <3> QED
            BY <3>1, <3>3, <3>4
    <2>2. CASE ip + len + 8 <= blockEnd /\ ~\A k \in 0 .. 7 : Same(len + k)
        <3>1. PICK k \in 0 .. 7 :
                 /\ \A j \in 0 .. k - 1 : Same(len + j)
                 /\ len' = len + k /\ ip' = ip + len' /\ pc' = "copy"
            BY <2>2 DEF Extend
        <3>2. ASSUME NEW i \in 0 .. len + k - 1 PROVE Same(i)
            <4>1. CASE i < len
                BY <1>2, <1>4, <4>1
            <4>2. CASE ~(i < len)
                <5>1. i - len \in 0 .. k - 1 /\ i = len + (i - len)
                    BY <1>4, <4>2
                <5> QED
                    BY <3>1, <5>1
            <4> QED
                BY <4>1, <4>2
        <3>3. len + k \in Nat /\ len + k >= 4
            BY <1>2, <1>4
        <3>4. ip + (len + k) <= blockEnd
            BY <1>3, <1>4, <2>2 DEF WithinBlock
        <3>5. MatchOf(len + k)
            BY <1>4, <3>2, <3>3, <3>4 DEF MatchOf
        <3> QED
            BY <3>1, <3>3, <3>5
    <2>3. CASE ~(ip + len + 8 <= blockEnd) /\ ip + len < blockEnd /\ Same(len)
        <3>1. pc' = "extend" /\ ip' = ip /\ len' = len + 1
            BY <1>1, <2>3 DEF Extend
        <3>2. ASSUME NEW k \in 0 .. len + 1 - 1 PROVE Same(k)
            <4>1. k < len \/ k = len
                BY <1>4
            <4> QED
                BY <1>2, <1>4, <2>3, <4>1
        <3>3. len + 1 \in Nat /\ len + 1 >= 4
            BY <1>2, <1>4
        <3>4. ip + (len + 1) <= blockEnd
            BY <1>3, <1>4, <2>3 DEF WithinBlock
        <3>5. MatchOf(len + 1)
            BY <1>4, <3>2, <3>3, <3>4 DEF MatchOf
        <3> QED
            BY <3>1, <3>3, <3>5
    <2>4. CASE ~(ip + len + 8 <= blockEnd) /\ ~(ip + len < blockEnd /\ Same(len))
        <3>1. pc' = "copy" /\ ip' = ip + len /\ len' = len
            BY <2>4 DEF Extend
        <3>2. len \in Nat
            BY <1>2, <1>4
        <3>3. MatchOf(len)
            BY <1>2, <3>2 DEF MatchOf
        <3> QED
            BY <3>1, <3>2, <3>3
    <2> QED
        BY <2>1, <2>2, <2>3, <2>4
<1>7. emitted = ip /\ Saved(csize, ip, 5) /\ Fits(reached, n)
    BY <1>1 DEF emitted, IInv, CostInv, Cost
<1>8. DecompressInv'
    BY <1>1, <1>6, DecompressorKept DEF Reading
<1>9. ASSUME emitted' = ip, pc' \in {"extend", "copy"}
      PROVE  LayoutOf(text, stream, emitted, head, csize)' /\ CostInv'
    <2>1. LayoutOf(text, stream, emitted, head, csize)'
        <3>1. LayoutOf(text, stream, ip, head, csize)
            BY <1>7 DEF IInv
        <3>2. head' = head
            BY <1>3 DEF WithinBlock
        <3> QED
            BY <1>1, <1>9, <3>1, <3>2
    <2>2. CostInv'
        BY <1>1, <1>3, <1>7, <1>9 DEF WithinBlock, CostInv, Cost
    <2> QED
        BY <2>1, <2>2
<1>10. CASE pc' = "extend"
    <2>1. PICK l \in Nat :
             /\ ip' = ip /\ len' = l /\ l >= 4 /\ ip + l <= blockEnd
             /\ \A k \in 0 .. l - 1 : Same(k)
        BY <1>6, <1>10 DEF MatchOf
    <2>2. candidate' = candidate
        BY <1>4, <1>5, <2>1
    <2>3. TypeOK'
        BY <1>1, <1>3, <1>4, <1>10, <2>1, <2>2, TypesKept DEF WithinBlock
    <2>4. \A k \in 0 .. l - 1 : Same(k)'
        BY <1>1, <2>1, <2>2 DEF Same, Byte
    <2>5. TableBelow(ip + 1)'
        BY <1>1, <1>2, <2>1 DEF TableBelow
    <2>6. CompressInv'
        BY <1>1, <1>2, <1>3, <1>10, <2>1, <2>2, <2>4, <2>5 DEF WithinBlock, CompressInv
    <2>7. emitted' = ip
        BY <1>10, <2>1 DEF emitted
    <2> QED
        BY <1>8, <1>9, <1>10, <2>3, <2>6, <2>7 DEF IInv
<1>11. CASE pc' = "copy"
    <2>1. PICK l \in Nat :
             /\ len' = l /\ ip' = ip + l /\ l >= 4 /\ ip + l <= blockEnd
             /\ \A k \in 0 .. l - 1 : Same(k)
        BY <1>6, <1>11 DEF MatchOf
    <2>2. candidate' = candidate + l
        BY <1>4, <1>5, <2>1
    <2>3. TypeOK'
        <3>1. candidate' \in 0 .. n /\ ip' \in 0 .. n
            BY <1>2, <1>3, <1>4, <2>1, <2>2 DEF WithinBlock
        <3> QED
            BY <1>1, <1>3, <1>4, <1>11, <2>1, <3>1, TypesKept DEF WithinBlock
    <2>4. ASSUME NEW i \in ip .. ip + l - 1
          PROVE  Byte(i) = Byte(i - (ip - candidate))
        <3>1. i - ip \in 0 .. l - 1 /\ candidate + (i - ip) = i - (ip - candidate)
              /\ ip + (i - ip) = i
            BY <1>4
        <3>2. Byte(candidate + (i - ip)) = Byte(ip + (i - ip))
            BY <2>1, <3>1 DEF Same
        <3> QED
            BY <3>1, <3>2
    <2>5. TableBelow(ip)'
        BY <1>1, <1>2, <1>3, <1>4, <2>1 DEF WithinBlock, TableBelow
    <2>6. CompressInv'
        <3>1. ip' - len' = ip /\ ip' - 1 = ip + l - 1 /\ ip' - candidate' = ip - candidate
              /\ candidate' - len' = candidate /\ candidate' < ip'
            BY <1>2, <1>4, <2>1, <2>2
        <3>2. \A i \in ip' - len' .. ip' - 1 :
                 Content[text'][i] = Content[text'][i - (ip' - candidate')]
            BY <1>1, <2>4, <3>1 DEF Byte
        <3>3. block' < n' /\ next_emit' \in block' .. blockEnd'
            BY <1>1, <1>2, <1>3 DEF WithinBlock
        <3>4. len' >= 4 /\ candidate' - len' >= block' /\ ip' <= blockEnd'
            BY <1>1, <1>2, <1>3, <2>1, <3>1 DEF WithinBlock
        <3> QED
            BY <1>11, <2>5, <3>1, <3>2, <3>3, <3>4 DEF CompressInv, Byte
    <2>7. emitted' = ip
        BY <1>4, <1>11, <2>1 DEF emitted
    <2> QED
        BY <1>8, <1>9, <1>11, <2>3, <2>6, <2>7 DEF IInv
<1> QED
    BY <1>6, <1>10, <1>11

LEMMA EmitCopyStep == IInv /\ EmitCopy => IInv'
<1> SUFFICES ASSUME IInv, EmitCopy PROVE IInv'
    OBVIOUS
<1> DEFINE e == Copy(ip - len, ip - candidate, CopyLength)
<1>1. /\ pc = "copy" /\ text' = text /\ block' = block /\ next_emit' = next_emit
      /\ ip' = ip /\ skip' = skip /\ table' = table /\ candidate' = candidate
      /\ decompressor' = decompressor
      /\ len' = len - CopyLength
      /\ pc' = IF len - CopyLength = 0 THEN "next" ELSE "copy"
      /\ Emit(e, 0)
    BY DEF EmitCopy
<1>2. /\ block < n /\ next_emit \in block .. blockEnd
      /\ len >= 4 /\ candidate < ip /\ candidate - len >= block /\ ip <= blockEnd
      /\ \A i \in ip - len .. ip - 1 : Byte(i) = Byte(i - (ip - candidate))
      /\ TableBelow(ip)
    BY <1>1 DEF IInv, CompressInv
<1>3. WithinBlock
    BY <1>1, <1>2, BlockKept
<1>4. /\ ip \in 0 .. n /\ len \in Nat /\ candidate \in 0 .. n /\ next_emit \in 0 .. n
      /\ skip \in Nat /\ csize \in Nat /\ reached \in Nat /\ Len(stream) \in Nat
      /\ table \in [Buckets -> 0 .. BlockSize]
    BY <1>2 DEF IInv, TypeOK, LayoutOf
<1>5. /\ CopyLength \in Nat /\ CopyLength >= 4 /\ CopyLength <= 64 /\ CopyLength <= len
      /\ len = CopyLength \/ len - CopyLength >= 4
    BY <1>2, <1>4 DEF CopyLength
<1>6. /\ emitted = ip - len /\ Saved(csize, ip - len, 5) /\ Fits(reached, n)
    BY <1>1 DEF emitted, IInv, CostInv, Cost
<1>7. e = Copy(ip - len, ip - candidate, CopyLength)
    OBVIOUS
<1> HIDE DEF e
<1>8. /\ e \in Elements /\ ElementOK(text, e) /\ e.at = ip - len /\ e.pos = csize
      /\ Length(e) = CopyLength /\ ElementSize(e) \in 2 .. 3
    <2>1. /\ ip - len \in Nat /\ ip - candidate \in 1 .. ip - len
          /\ ip - candidate < 65536 /\ (ip - len) + CopyLength <= n
        <3>1. /\ block \in Nat /\ blockEnd \in Nat /\ BlockSize \in Nat /\ BlockSize <= 65536 /\ n \in Nat
              /\ blockEnd <= block + BlockSize /\ blockEnd <= n
            BY <1>3 DEF WithinBlock
        <3>2. len >= 4 /\ candidate < ip /\ candidate - len >= block /\ ip <= blockEnd
            BY <1>2
        <3>3. ip \in Nat /\ len \in Nat /\ candidate \in Nat
            BY <1>4
        <3>5. ip - candidate \in 1 .. ip - len
            BY <3>1, <3>2, <3>3
        <3>6. ip <= block + 65536
            BY <3>1, <3>2, <3>3
        <3>4. ip - candidate < 65536
            BY <3>1, <3>2, <3>3, <3>6
        <3> QED
            BY <1>5, <3>1, <3>2, <3>3, <3>4, <3>5
    <2>2. \A i \in ip - len .. (ip - len) + CopyLength - 1 :
             Byte(i) = Byte(i - (ip - candidate))
        BY <1>2, <1>4, <1>5
    <2>3. text \in Texts
        BY <1>3 DEF WithinBlock
    <2> DEFINE from == ip - len  offset == ip - candidate  l == CopyLength
    <2>4. /\ from \in Nat /\ offset \in 1 .. from /\ l \in Nat /\ l >= 4 /\ l <= 64 /\ offset < 65536
          /\ from + l <= n /\ e = Copy(from, offset, l)
          /\ Repeats(from, l, offset)
        BY <1>5, <1>7, <2>1, <2>2 DEF Repeats
    <2>5. csize \in Nat
        BY <1>4
    <2> HIDE DEF from, offset, l
    <2>6. /\ e \in Elements /\ ElementOK(text, e) /\ e.at = from /\ e.pos = csize
          /\ Length(e) = l /\ ElementSize(e) \in 2 .. 3
        BY <2>3, <2>4, <2>5, CopyLemma
    <2> QED
        BY <2>6 DEF from, l
<1>9. /\ LayoutOf(text, stream', emitted + Length(e), head, csize')
      /\ csize' = csize + ElementSize(e) /\ ElementSize(e) \in Nat
      /\ Len(stream) \in Nat /\ Len(stream') = Len(stream) + 1
      /\ reached' \in {reached, csize + 0, csize + ElementSize(e)}
    <2>1. emitted \in Nat /\ e.at = emitted /\ 0 \in Nat
        BY <1>2, <1>3, <1>4, <1>6, <1>8 DEF WithinBlock
    <2> QED
        BY <1>1, <1>8, <2>1, Emitted
<1>10. emitted' = ip - (len - CopyLength) /\ emitted + Length(e) = ip - (len - CopyLength)
    <2>1. CASE len = CopyLength
        <3>1. pc' = "next" /\ len - CopyLength = 0
            BY <1>1, <1>4, <2>1
        <3>2. emitted' = ip
            BY <1>1, <3>1 DEF emitted
        <3> QED
            BY <1>4, <1>6, <1>8, <2>1, <3>1, <3>2
    <2>2. CASE len # CopyLength
        <3>1. pc' = "copy"
            BY <1>1, <1>4, <1>5, <2>2
        <3>2. emitted' = ip - (len - CopyLength)
            BY <1>1, <3>1 DEF emitted
        <3> QED
            BY <1>4, <1>5, <1>6, <1>8, <3>2
    <2> QED
        BY <2>1, <2>2
<1>11. LayoutOf(text, stream, emitted, head, csize)'
    BY <1>1, <1>3, <1>9, <1>10 DEF WithinBlock
<1>12. CostInv'
    <2> DEFINE t == ip - (len - CopyLength)
    <2>1. t \in Nat /\ t <= n /\ t = (ip - len) + CopyLength /\ ip - len \in Nat /\ n \in Nat
        BY <1>2, <1>3, <1>4, <1>5 DEF WithinBlock
    <2>2. /\ Saved(csize + ElementSize(e), t, -5) /\ Saved(csize + ElementSize(e), t, 5)
          /\ Fits(csize + ElementSize(e), n) /\ Fits(csize, n)
        BY <1>4, <1>5, <1>6, <1>8, <2>1 DEF Saved, Fits
    <2>3. emitted' = t
        BY <1>10
    <2> HIDE DEF t
    <2>4. /\ Saved(csize', emitted', -5) /\ Saved(csize', emitted', 5)
          /\ Fits(reached', n')
        <3>1. csize + 0 = csize
            BY <1>4
        <3> QED
            BY <1>3, <1>6, <1>9, <2>2, <2>3, <3>1 DEF WithinBlock
    <2>5. pc' = "next" \/ pc' = "copy"
        BY <1>1
    <2> QED
        BY <2>4, <2>5 DEF CostInv, Cost
<1>13. CompressInv'
    <2>1. block' < n' /\ next_emit' \in block' .. blockEnd' /\ ip <= blockEnd'
        BY <1>1, <1>2, <1>3 DEF WithinBlock
    <2>2. TableBelow(ip)'
        BY <1>1, <1>2 DEF TableBelow
    <2>3. CASE pc' = "next"
        <3>1. block < ip
            BY <1>2, <1>3, <1>4 DEF WithinBlock
        <3> QED
            BY <1>1, <2>1, <2>2, <2>3, <3>1 DEF CompressInv
    <2>4. CASE pc' = "copy"
        <3> DEFINE l == len - CopyLength
        <3>1. l \in Nat /\ l >= 4 /\ candidate - l >= block /\ ip - l >= ip - len
            BY <1>1, <1>2, <1>3, <1>4, <1>5, <2>4 DEF WithinBlock
        <3>2. len' = l
            BY <1>1
        <3> HIDE DEF l
        <3>3. \A i \in ip - l .. ip - 1 : Byte(i) = Byte(i - (ip - candidate))
            BY <1>2, <1>4, <3>1
        <3>4. \A i \in ip' - l .. ip' - 1 :
                 Content[text'][i] = Content[text'][i - (ip' - candidate')]
            BY <1>1, <3>3 DEF Byte
        <3> QED
            BY <1>1, <1>2, <2>1, <2>2, <2>4, <3>1, <3>2, <3>4 DEF CompressInv, Byte
    <2> QED
        BY <1>1, <2>3, <2>4
<1>14. DecompressInv'
    BY <1>1, DecompressorKept DEF Reading
<1>15. TypeOK'
    <2>1. /\ csize + ElementSize(e) \in Nat /\ len - CopyLength \in Int
          /\ Len(stream) + 1 \in Nat /\ Len(stream) + 1 >= Len(stream)
        BY <1>4, <1>5, <1>9
    <2>2. csize' \in Nat /\ reached' \in Nat /\ len' \in Int
        <3>1. csize + 0 = csize
            BY <1>4
        <3> QED
            BY <1>1, <1>4, <1>9, <2>1, <3>1
    <2>3. Len(stream') \in Nat /\ Len(stream') >= Len(stream)
        BY <1>9, <2>1
    <2>4. pc' \in {"copy", "next"} /\ block' \in 0 .. n
        BY <1>1, <1>3 DEF WithinBlock
    <2> QED
        BY <1>1, <1>4, <2>2, <2>3, <2>4, TypesKept
<1> QED
    BY <1>1, <1>11, <1>12, <1>13, <1>14, <1>15 DEF IInv

LEMMA AfterCopyStep == IInv /\ AfterCopy => IInv'
<1> SUFFICES ASSUME IInv, AfterCopy PROVE IInv'
    OBVIOUS
<1> DEFINE h0 == Hash(Load32(ip - 1))
           h == Hash(Load32(ip))
           earlier == [table EXCEPT ![h0] = Relative(ip - 1)]
<1>1. /\ pc = "next" /\ text' = text /\ block' = block /\ next_emit' = ip
      /\ stream' = stream /\ csize' = csize /\ reached' = reached
      /\ decompressor' = decompressor
      /\ pc' \in {"remainder", "extend", "scan"}
    BY DEF AfterCopy
<1>2. block < n /\ block < ip /\ ip <= blockEnd /\ TableBelow(ip)
    BY <1>1 DEF IInv, CompressInv
<1>3. WithinBlock
    BY <1>1, <1>2, BlockKept
<1>4. /\ ip \in 0 .. n /\ len \in Int /\ candidate \in 0 .. n
      /\ skip \in Nat /\ csize \in Nat /\ reached \in Nat /\ Len(stream) \in Nat
      /\ table \in [Buckets -> 0 .. BlockSize]
    BY DEF IInv, TypeOK, LayoutOf
<1>5. /\ emitted = ip /\ Saved(csize, ip, -5) /\ Fits(reached, n)
      /\ Saved(csize, ip, 5)
    <2>1. emitted = ip /\ Saved(csize, ip, -5) /\ Fits(reached, n)
        BY <1>1 DEF emitted, IInv, CostInv, Cost
    <2> QED
        BY <1>4, <2>1 DEF Saved
<1>6. emitted' = ip
    <2>1. pc' = "extend" => ip' = ip
        BY DEF AfterCopy
    <2> QED
        BY <1>1, <2>1 DEF emitted
<1>7. LayoutOf(text, stream, emitted, head, csize)'
    <2>1. LayoutOf(text, stream, ip, head, csize)
        BY <1>5 DEF IInv
    <2>2. head' = head
        BY <1>3 DEF WithinBlock
    <2> QED
        BY <1>1, <1>6, <2>1, <2>2
<1>8. CostInv'
    <2>1. next_emit' # block' /\ n' = n
        BY <1>1, <1>2, <1>3, <1>4 DEF WithinBlock
    <2> QED
        BY <1>1, <1>5, <1>6, <2>1 DEF CostInv, Cost
<1>9. DecompressInv'
    BY <1>1, DecompressorKept DEF Reading
<1>10. block' < n' /\ next_emit' \in block' .. blockEnd'
    BY <1>1, <1>2, <1>3, <1>4 DEF WithinBlock
<1>11. CASE ip >= limit
    <2>1. pc' = "remainder" /\ UNCHANGED <<ip, skip, table, candidate, len>>
        BY <1>11 DEF AfterCopy
    <2>2. TypeOK'
        BY <1>1, <1>3, <1>4, <2>1, TypesKept DEF WithinBlock
    <2>3. CompressInv'
        BY <1>10, <2>1 DEF CompressInv
    <2> QED
        BY <1>7, <1>8, <1>9, <2>1, <2>2, <2>3 DEF IInv
<1>12. CASE ~(ip >= limit)
    <2>1. /\ candidate' = block + earlier[h]
          /\ table' = [earlier EXCEPT ![h] = Relative(ip)]
        BY <1>12 DEF AfterCopy
    <2>2. ip \in 0 .. n - 4 /\ ip - 1 \in 0 .. n - 4 /\ h \in Buckets /\ h0 \in Buckets
        <3>1. ip \in 0 .. n - 4 /\ ip - 1 \in 0 .. n - 4 /\ text \in Texts
            BY <1>2, <1>3, <1>4, <1>12 DEF WithinBlock
        <3> QED
            BY <3>1, WordFacts
    <2>3. table \in [Buckets -> 0 .. ip - block - 1]
        BY <1>2 DEF TableBelow
    <2>4. ip - block \in Nat /\ ip - block - 1 \in Nat /\ ip - block <= BlockSize
          /\ Relative(ip) = ip - block /\ Relative(ip - 1) = ip - block - 1
        BY <1>2, <1>3, <1>4 DEF WithinBlock, Relative
    <2> HIDE DEF h, h0
    <2>5. earlier \in [Buckets -> 0 .. ip - block - 1]
        BY <2>2, <2>3, <2>4
    <2>6. table' \in [Buckets -> 0 .. ip - block]
        <3>1. earlier \in [Buckets -> 0 .. ip - block]
            BY <2>4, <2>5
        <3> HIDE DEF earlier
        <3> QED
            BY <2>1, <2>2, <2>4, <3>1
    <2>7. candidate' \in block .. ip - 1 /\ candidate' \in 0 .. n - 4 /\ candidate' \in 0 .. n
        <3>1. earlier[h] \in 0 .. ip - block - 1
            BY <2>2, <2>5
        <3> HIDE DEF earlier
        <3>2. block + earlier[h] \in block .. ip - 1 /\ block + earlier[h] \in 0 .. n - 4
              /\ block + earlier[h] \in 0 .. n
            BY <1>2, <1>3, <1>4, <2>2, <3>1 DEF WithinBlock
        <3> QED
            BY <2>1, <3>2
    <2>8. table' \in [Buckets -> 0 .. BlockSize]
        BY <1>3, <2>4, <2>6 DEF WithinBlock
    <2>9. CASE Load32(ip) = Load32(candidate')
        <3>1. pc' = "extend" /\ len' = 4 /\ ip' = ip /\ skip' = skip
            BY <1>12, <2>9 DEF AfterCopy
        <3>2. TypeOK'
            BY <1>1, <1>3, <1>4, <2>7, <2>8, <3>1, TypesKept DEF WithinBlock
        <3>3. \A k \in 0 .. 3 : Same(k)'
            BY <1>1, <1>3, <2>2, <2>7, <2>9, <3>1, MatchBegins DEF WithinBlock
        <3>4. TableBelow(ip + 1)'
            BY <1>1, <1>3, <1>4, <2>6, <3>1 DEF TableBelow, WithinBlock
        <3>5. ip <= limit /\ ip + 4 <= blockEnd
            BY <1>3, <1>4, <1>12 DEF WithinBlock
        <3>6. CompressInv'
            BY <1>1, <1>3, <1>4, <1>10, <2>7, <3>1, <3>3, <3>4, <3>5
            DEF CompressInv, WithinBlock
        <3> QED
            BY <1>7, <1>8, <1>9, <3>1, <3>2, <3>6 DEF IInv
    <2>10. CASE Load32(ip) # Load32(candidate')
        <3>1. pc' = "scan" /\ ip' = ip + 1 /\ skip' = 32 /\ len' = len
            BY <1>12, <2>1, <2>10 DEF AfterCopy
        <3>2. ip + 1 \in 0 .. n /\ ip + 1 <= limit + 1 /\ (ip + 1) - block - 1 = ip - block
            BY <1>3, <1>4, <1>12 DEF WithinBlock
        <3>3. TypeOK'
            BY <1>1, <1>3, <1>4, <2>7, <2>8, <3>1, <3>2, TypesKept DEF WithinBlock
        <3>4. TableBelow(ip)'
            BY <1>1, <2>6, <3>1, <3>2 DEF TableBelow
        <3>5. CompressInv'
            BY <1>1, <1>3, <1>4, <1>10, <3>1, <3>2, <3>4 DEF CompressInv, WithinBlock
        <3> QED
            BY <1>7, <1>8, <1>9, <3>1, <3>3, <3>5 DEF IInv
    <2> QED
        BY <2>9, <2>10
<1> QED
    BY <1>11, <1>12

LEMMA EmitRemainderStep == IInv /\ EmitRemainder => IInv'
<1> SUFFICES ASSUME IInv, EmitRemainder PROVE IInv'
    OBVIOUS
<1> DEFINE e == Literal(next_emit, blockEnd)
<1>1. /\ pc = "remainder" /\ pc' = "block" /\ text' = text /\ block' = blockEnd
      /\ len' = len /\ next_emit' = next_emit /\ ip' = ip /\ skip' = skip /\ table' = table
      /\ candidate' = candidate /\ decompressor' = decompressor
    BY DEF EmitRemainder
<1>2. block < n /\ next_emit \in block .. blockEnd
    BY <1>1 DEF IInv, CompressInv
<1>3. /\ text \in Texts /\ n \in Nat /\ n' = n /\ head' = head /\ block \in 0 .. n
      /\ blockEnd \in block + 1 .. n /\ BlockSize \in Nat /\ BlockSize >= 15
      /\ blockEnd < n => blockEnd = block + BlockSize
    <2>1. text \in Texts /\ block \in 0 .. n
        BY DEF IInv, TypeOK
    <2>2. n' = n /\ head' = head
        BY <1>1 DEF n, head
    <2> QED
        BY <1>2, <2>1, <2>2, BlockFacts
<1>4. /\ ip \in 0 .. n /\ len \in Int /\ candidate \in 0 .. n /\ next_emit \in 0 .. n
      /\ skip \in Nat /\ csize \in Nat /\ reached \in Nat /\ Len(stream) \in Nat
      /\ table \in [Buckets -> 0 .. BlockSize]
    BY DEF IInv, TypeOK, LayoutOf
<1>5. emitted = next_emit /\ Cost(IF next_emit = block THEN 0 ELSE -5) /\ Fits(reached, n)
    BY <1>1 DEF emitted, IInv, CostInv
<1>6. Saved(csize, next_emit, IF next_emit = block THEN 0 ELSE -5)
    BY <1>5 DEF Cost
<1>7. emitted' = blockEnd
    BY <1>1 DEF emitted
<1>8. DecompressInv'
    BY <1>1, DecompressorKept DEF Reading
<1>9. CompressInv'
    BY <1>1 DEF CompressInv
<1>10. blockEnd \in 0 .. n /\ blockEnd \in Nat
    BY <1>3
<1>11. CASE next_emit < blockEnd
    <2>1. Emit(e, 0)
        BY <1>11 DEF EmitRemainder
    <2>2. e = Literal(next_emit, blockEnd)
        OBVIOUS
    <2> HIDE DEF e
    <2>3. /\ e \in Elements /\ ElementOK(text, e)
          /\ e.at = next_emit /\ e.pos = csize /\ Length(e) = blockEnd - next_emit
          /\ ElementSize(e) \in Nat
          /\ 6 * ElementSize(e) <= 7 * (blockEnd - next_emit) + 5
          /\ blockEnd - next_emit >= 6 => 6 * ElementSize(e) <= 7 * (blockEnd - next_emit)
        <3>1. next_emit \in Nat /\ blockEnd <= n
            BY <1>3, <1>4
        <3> QED
            BY <1>3, <1>4, <1>10, <1>11, <2>2, <3>1, LiteralLemma, SMTT(60)
    <2>4. /\ LayoutOf(text, stream', emitted + Length(e), head, csize')
          /\ csize' = csize + ElementSize(e)
          /\ Len(stream') = Len(stream) + 1
          /\ reached' \in {reached, csize + 0, csize + ElementSize(e)}
        <3>1. emitted \in Nat /\ e.at = emitted /\ 0 \in Nat
            BY <1>4, <1>5, <2>3
        <3> QED
            BY <2>1, <2>3, <3>1, Emitted
    <2>5. emitted + Length(e) = blockEnd
        BY <1>4, <1>5, <1>10, <2>3
    <2>6. LayoutOf(text, stream, emitted, head, csize)'
        BY <1>1, <1>3, <1>7, <2>4, <2>5
    <2>7. /\ Saved(csize + ElementSize(e), blockEnd, 5)
          /\ blockEnd # n => Saved(csize + ElementSize(e), blockEnd, 0)
          /\ Fits(csize + ElementSize(e), n) /\ Fits(csize, n)
        <3>1. Saved(csize, next_emit, 0)
            BY <1>4, <1>6 DEF Saved
        <3>2. Saved(csize + ElementSize(e), blockEnd, 5)
            BY <1>4, <1>10, <1>11, <2>3, <3>1 DEF Saved
        <3>3. Fits(csize + ElementSize(e), n) /\ Fits(csize, n)
            BY <1>3, <1>4, <1>10, <2>3, <3>1, <3>2 DEF Saved, Fits
        <3>4. ASSUME blockEnd # n PROVE Saved(csize + ElementSize(e), blockEnd, 0)
            <4>1. blockEnd >= block + 15
                BY <1>3, <3>4
            <4>2. CASE next_emit = block
                <5>1. blockEnd - next_emit >= 6
                    BY <1>3, <1>4, <1>10, <4>1, <4>2
                <5>2. 6 * ElementSize(e) <= 7 * (blockEnd - next_emit)
                    BY <2>3, <5>1
                <5> QED
                    BY <1>4, <1>10, <2>3, <3>1, <5>2 DEF Saved
            <4>3. CASE next_emit # block
                BY <1>4, <1>6, <1>10, <2>3, <4>3 DEF Saved
            <4> QED
                BY <4>2, <4>3
        <3> QED
            BY <3>2, <3>3, <3>4
    <2>8. CostInv'
        <3>1. csize + 0 = csize
            BY <1>4
        <3>2. Saved(csize', emitted', 5) /\ Fits(reached', n')
            BY <1>3, <1>5, <1>7, <2>4, <2>7, <3>1
        <3>3. block' # n' => Saved(csize', emitted', 0)
            BY <1>1, <1>3, <1>7, <2>4, <2>7
        <3> QED
            BY <1>1, <3>2, <3>3 DEF CostInv, Cost
    <2>9. TypeOK'
        <3>1. csize + 0 = csize /\ csize + ElementSize(e) \in Nat
              /\ Len(stream) + 1 \in Nat /\ Len(stream) + 1 >= Len(stream)
            BY <1>4, <2>3
        <3>2. csize' \in Nat /\ reached' \in Nat
              /\ Len(stream') \in Nat /\ Len(stream') >= Len(stream)
            BY <1>4, <2>4, <3>1
        <3> QED
            BY <1>1, <1>4, <1>10, <3>2, TypesKept
    <2> QED
        BY <1>1, <1>8, <1>9, <2>6, <2>8, <2>9 DEF IInv
<1>12. CASE ~(next_emit < blockEnd)
    <2>1. stream' = stream /\ csize' = csize /\ reached' = reached
        BY <1>12 DEF EmitRemainder
    <2>2. next_emit = blockEnd /\ next_emit # block
        BY <1>2, <1>3, <1>4, <1>10, <1>12
    <2>3. LayoutOf(text, stream, emitted, head, csize)'
        <3>1. LayoutOf(text, stream, blockEnd, head, csize)
            BY <1>5, <2>2 DEF IInv
        <3> QED
            BY <1>1, <1>3, <1>7, <2>1, <3>1
    <2>4. Saved(csize, blockEnd, 0) /\ Saved(csize, blockEnd, 5)
        BY <1>4, <1>6, <1>10, <2>2 DEF Saved
    <2>5. CostInv'
        BY <1>1, <1>3, <1>5, <1>7, <2>1, <2>4 DEF CostInv, Cost
    <2>6. TypeOK'
        BY <1>1, <1>4, <1>10, <2>1, TypesKept
    <2> QED
        BY <1>1, <1>8, <1>9, <2>3, <2>5, <2>6 DEF IInv
<1> QED
    BY <1>11, <1>12

LEMMA CompressedStep == IInv /\ Compressed => IInv'
<1> SUFFICES ASSUME IInv, Compressed PROVE IInv'
    OBVIOUS
<1>1. /\ pc = "block" /\ block = n /\ pc' = "element" /\ text' = text /\ len' = len
      /\ UNCHANGED <<compressor, next, dst, op, src, to, wrote>>
      /\ used' = VarintEnd(EncodeVarint32(n))
    BY DEF Compressed
<1>2. text \in Texts /\ n \in Nat /\ n' = n /\ head' = head /\ used' = head /\ head \in Nat
    <2>1. text \in Texts
        BY DEF IInv, TypeOK
    <2>2. n' = n /\ head' = head
        BY <1>1 DEF n, head
    <2> QED
        BY <1>1, <2>1, <2>2, SizeIsNat, Header DEF head
<1>3. emitted = n /\ emitted' = n
    BY <1>1, <1>2 DEF emitted
<1>4. LayoutOf(text, stream, n, head, csize)
    BY <1>3 DEF IInv
<1>5. LayoutOf(text, stream, emitted, head, csize)'
    BY <1>1, <1>2, <1>3, <1>4 DEF compressor
<1>6. CostInv'
    BY <1>1, <1>2, <1>3 DEF compressor, IInv, CostInv, Cost
<1>7. CompressInv'
    BY <1>1 DEF CompressInv
<1>8. DecompressInv'
    <2>1. op = 0 /\ next = 1 /\ wrote <= n
        BY <1>1 DEF IInv, DecompressInv, Reading
    <2>2. Len(stream) \in Nat /\ (stream = <<>> <=> ~(1 <= Len(stream)))
        BY <1>4 DEF LayoutOf
    <2>3. /\ 0 = IF 1 <= Len(stream) THEN stream[1].at ELSE n
          /\ head = IF 1 <= Len(stream) THEN stream[1].pos ELSE csize
        BY <1>4, <2>2 DEF LayoutOf
    <2> QED
        BY <1>1, <1>2, <2>1, <2>3 DEF compressor, DecompressInv, Reading, Looping, element
<1>9. TypeOK'
    BY <1>1, <1>2 DEF compressor, IInv, TypeOK
<1> QED
    BY <1>1, <1>5, <1>6, <1>7, <1>8, <1>9 DEF IInv

-----------------------------------------------------------------------------
(* What the steps of the decompressor rest on                              *)

(* The element that is taken next.                                         *)
ElementNow ==
    /\ text \in Texts /\ n \in Nat /\ dstLen = n
    /\ element \in Elements /\ ElementOK(text, element)
    /\ Length(element) \in Nat /\ Length(element) >= 1
    /\ element.at = op /\ element.pos = used
    /\ op \in Nat /\ used \in Nat /\ csize \in Nat /\ elementEnd \in Nat
    /\ elementEnd <= n /\ used + ElementSize(element) <= csize
    /\ elementEnd = IF next < Len(stream) THEN stream[next + 1].at ELSE n
    /\ used + ElementSize(element) =
          IF next < Len(stream) THEN stream[next + 1].pos ELSE csize
    /\ next \in Nat /\ next >= 1 /\ Len(stream) \in Nat /\ next <= Len(stream)
    /\ \A i \in 0 .. op - 1 : dst[i] = Byte(i)
    /\ wrote \in Nat /\ wrote <= n
    /\ dst \in [0 .. n - 1 -> Cells]

LEMMA ElementFacts ==
    ASSUME IInv, Reading, next <= Len(stream)
    PROVE  ElementNow
<1>1. /\ text \in Texts /\ op \in 0 .. n /\ used \in Nat /\ csize \in Nat /\ wrote \in Nat
      /\ dst \in [0 .. n - 1 -> Cells] /\ next \in 1 .. Len(stream) + 1
    BY DEF IInv, TypeOK
<1>2. LayoutOf(text, stream, n, head, csize)
    BY DEF IInv, emitted, Reading
<1>3. Len(stream) \in Nat /\ next \in 1 .. Len(stream) /\ next \in Nat
    BY <1>1, <1>2 DEF LayoutOf
<1>4. /\ element \in Elements /\ ElementOK(text, element)
      /\ element.at + Length(element) = IF next < Len(stream) THEN stream[next + 1].at ELSE n
      /\ element.pos + ElementSize(element)
           = IF next < Len(stream) THEN stream[next + 1].pos ELSE csize
      /\ element.pos + ElementSize(element) <= csize
    BY <1>2, <1>3 DEF LayoutOf, element
<1>5. /\ op = element.at /\ used = element.pos /\ wrote <= n
      /\ \A i \in 0 .. op - 1 : dst[i] = Byte(i)
    BY DEF IInv, DecompressInv
<1>6. n \in Nat /\ dstLen = n
    BY <1>1, SizeIsNat, Header
<1>7. Length(element) \in Nat /\ Length(element) >= 1 /\ element.at + Length(element) <= n
    BY <1>4 DEF ElementOK, n
<1>8. elementEnd \in Nat /\ elementEnd = element.at + Length(element) /\ op \in Nat
    BY <1>1, <1>5, <1>6, <1>7 DEF elementEnd
<1> QED
    BY <1>1, <1>3, <1>4, <1>5, <1>6, <1>7, <1>8 DEF ElementNow

(* An element that is restored.                                            *)
LEMMA AdvanceLemma ==
    ASSUME IInv, ElementNow, Reading, Advance, pc' = "element",
           text' = text, compressor' = compressor,
           dst' \in [0 .. n - 1 -> Cells],
           \A i \in 0 .. elementEnd - 1 : dst'[i] = Byte(i),
           wrote' \in Nat, wrote' <= n, src' \in Nat, to' \in Nat, len' \in Int
    PROVE  IInv'
<1>1. Reading' /\ n' = n
    BY DEF Reading, n
<1>2. LayoutOf(text, stream, emitted, head, csize)' /\ CostInv' /\ CompressInv'
    BY <1>1, CompressorKept
<1>3. /\ op' = elementEnd /\ next' = next + 1 /\ used' = used + ElementSize(element)
      /\ stream' = stream /\ csize' = csize
    BY DEF Advance, elementEnd, compressor
<1>4. /\ next <= Len(stream) /\ next + 1 \in Nat /\ next \in 1 .. Len(stream) + 1
      /\ element' = stream[next + 1]
      /\ next + 1 <= Len(stream) <=> next < Len(stream)
    <2>1. element' = stream[next + 1]
        BY <1>3 DEF element
    <2> QED
        BY <2>1 DEF ElementNow
<1>5. /\ op' = IF next + 1 <= Len(stream) THEN stream[next + 1].at ELSE n
      /\ used' = IF next + 1 <= Len(stream) THEN stream[next + 1].pos ELSE csize
    BY <1>3, <1>4 DEF ElementNow
<1>6. \A i \in 0 .. op' - 1 : dst'[i] = Byte(i)'
    BY <1>3 DEF Byte
<1>7. DecompressInv'
    BY <1>1, <1>3, <1>4, <1>5, <1>6 DEF DecompressInv, Looping
<1>8. TypeOK'
    <2>1. op' \in 0 .. n /\ used' \in Nat /\ next' \in 1 .. Len(stream) + 1
        <3>1. elementEnd \in 0 .. n /\ next + 1 \in 1 .. Len(stream) + 1
            BY <1>4, SMTT(60) DEF ElementNow
        <3>2. ElementSize(element) \in Nat
            <4>1. element \in Elements
                BY DEF ElementNow
            <4>2. element.extra \in Nat /\ element.count \in Nat
                BY <4>1 DEF Elements
            <4> QED
                BY <4>2 DEF ElementSize
        <3>3. used + ElementSize(element) \in Nat
            BY <3>2, SMTT(60) DEF ElementNow
        <3> QED
            BY <1>3, <3>1, <3>3
    <2> QED
        BY <1>1, <1>3, <2>1 DEF IInv, TypeOK, compressor
<1> QED
    BY <1>2, <1>7, <1>8 DEF IInv

(* A copy of eight bytes from before.                                      *)
Output(d) == d \in [0 .. n - 1 -> Cells]

CopiedEight(d, from, at, r) ==
    /\ Output(r)
    /\ \A i \in 0 .. n - 1 :
          r[i] = IF i \in at .. at + 7 THEN d[i - (at - from)] ELSE d[i]

LEMMA Copy8Lemma ==
    ASSUME n \in Nat, NEW d, Output(d), NEW from \in Nat, NEW at \in Nat, from < at
    PROVE  CopiedEight(d, from, at, Copy8(d, from, at))
<1>1. DOMAIN d = 0 .. n - 1 /\ \A i \in 0 .. n - 1 : d[i] \in Cells
    BY DEF Output
<1>2. ASSUME NEW i \in 0 .. n - 1
      PROVE  /\ Copy8(d, from, at)[i]
                  = IF i \in at .. at + 7 THEN d[i - (at - from)] ELSE d[i]
             /\ Copy8(d, from, at)[i] \in Cells
    <2>1. Copy8(d, from, at)[i] = IF i \in at .. at + 7 THEN d[from + (i - at)] ELSE d[i]
        BY <1>1 DEF Copy8
    <2>2. from + (i - at) = i - (at - from)
        OBVIOUS
    <2>3. i \in at .. at + 7 => i - (at - from) \in 0 .. n - 1
        OBVIOUS
    <2> QED
        BY <1>1, <2>1, <2>2, <2>3
<1>3. Output(Copy8(d, from, at))
    BY <1>1, <1>2 DEF Copy8, Output
<1> QED
    BY <1>2, <1>3 DEF CopiedEight

-----------------------------------------------------------------------------
(* The steps of the decompressor                                           *)

LEMMA TakeLiteralStep == IInv /\ TakeLiteral => IInv'
<1> SUFFICES ASSUME IInv, TakeLiteral PROVE IInv'
    OBVIOUS
<1> DEFINE l == Length(element)
           wide == l <= 16 /\ csize - used - 1 >= 16 /\ space >= 16
<1>1. /\ pc = "element" /\ next <= Len(stream) /\ IsLiteral(element)
      /\ text' = text /\ len' = len /\ compressor' = compressor /\ src' = src /\ to' = to
    BY DEF TakeLiteral
<1>2. Reading /\ ElementNow
    BY <1>1, ElementFacts DEF Reading
<1>3. /\ element.count = l /\ ExtraBytes(element) = element.extra
      /\ \A i \in 0 .. l - 1 : element.data[i] = Content[text][op + i]
    BY <1>1, <1>2 DEF ElementNow, ElementOK
<1>4. l \in Nat /\ l >= 1 /\ space = n - op /\ elementEnd = op + l /\ n \in Nat /\ op \in Nat
      /\ op + l <= n
    BY <1>2 DEF ElementNow, space, elementEnd
<1>5. /\ ~(l > space) /\ ~(l > csize - used - 1 - ExtraBytes(element))
    <2>1. element.extra \in Nat /\ used \in Nat /\ csize \in Nat
          /\ used + (1 + element.extra + l) <= csize
        BY <1>2, <1>3 DEF ElementNow, Elements, ElementSize
    <2>2. l <= csize - used - 1 - element.extra
        BY <1>4, <2>1
    <2> QED
        BY <1>3, <1>4, <2>1, <2>2
<1>6. /\ dst' = [i \in DOMAIN dst |->
                    IF i \in op .. op + l - 1 THEN element.data[i - op]
                    ELSE IF wide /\ i \in op + l .. op + 15 THEN Junk ELSE dst[i]]
      /\ wrote' = Larger(wrote, op + (IF wide THEN 16 ELSE l))
      /\ Advance /\ pc' = pc
    BY <1>5 DEF TakeLiteral
<1>7. DOMAIN dst = 0 .. n - 1 /\ dst \in [0 .. n - 1 -> Cells]
    BY <1>2 DEF ElementNow
<1>8. \A i \in op .. op + l - 1 : element.data[i - op] = Byte(i)
    <2>1. ASSUME NEW i \in op .. op + l - 1 PROVE element.data[i - op] = Byte(i)
        <3>1. i - op \in 0 .. l - 1 /\ op + (i - op) = i
            BY <1>4
        <3> QED
            BY <1>3, <3>1 DEF Byte
    <2> QED
        BY <2>1
<1>9. \A i \in 0 .. n - 1 : Byte(i) \in Cells
    BY <1>2, ByteIsByte DEF ElementNow
<1>10. ASSUME NEW i \in 0 .. n - 1
       PROVE  dst'[i] \in Cells /\ (i < elementEnd => dst'[i] = Byte(i))
    <2>1. CASE i \in op .. op + l - 1
        BY <1>6, <1>7, <1>8, <1>9, <2>1
    <2>2. CASE i \notin op .. op + l - 1 /\ wide /\ i \in op + l .. op + 15
        <3>1. dst'[i] = Junk
            BY <1>6, <1>7, <2>2
        <3>2. ~(i < elementEnd)
            BY <1>4, <2>2
        <3> QED
            BY <3>1, <3>2 DEF Cells
    <2>3. CASE i \notin op .. op + l - 1 /\ ~(wide /\ i \in op + l .. op + 15)
        <3>1. dst'[i] = dst[i] /\ dst[i] \in Cells
            BY <1>6, <1>7, <2>3
        <3>2. i < elementEnd => i \in 0 .. op - 1
            BY <1>4, <2>3
        <3> QED
            BY <1>2, <3>1, <3>2 DEF ElementNow
    <2> QED
        BY <2>1, <2>2, <2>3
<1>11. dst' \in [0 .. n - 1 -> Cells]
    <2>1. DOMAIN dst' = 0 .. n - 1 /\ dst' = [i \in 0 .. n - 1 |-> dst'[i]]
        BY <1>6, <1>7
    <2> QED
        BY <1>10, <2>1
<1>12. \A i \in 0 .. elementEnd - 1 : dst'[i] = Byte(i)
    BY <1>4, <1>10
<1>13. wrote' \in Nat /\ wrote' <= n
    <2> DEFINE w == op + (IF wide THEN 16 ELSE l)
    <2>1. w \in Nat /\ w <= n
        BY <1>4
    <2>2. wrote \in Nat /\ wrote <= n
        BY <1>2 DEF ElementNow
    <2>3. wrote' = wrote \/ wrote' = w
        BY <1>6 DEF Larger
    <2> QED
        BY <2>1, <2>2, <2>3
<1>14. src' \in Nat /\ to' \in Nat /\ len' \in Int
    BY <1>1 DEF IInv, TypeOK
<1> QED
    BY <1>1, <1>2, <1>6, <1>11, <1>12, <1>13, <1>14, AdvanceLemma

LEMMA TakeCopyStep == IInv /\ TakeCopy => IInv'
<1> SUFFICES ASSUME IInv, TakeCopy PROVE IInv'
    OBVIOUS
<1> DEFINE l == Length(element)
           offset == Offset(element)
           from == op - offset
           once == Copy8(dst, from, op)
<1>1. /\ pc = "element" /\ next <= Len(stream) /\ ~IsLiteral(element)
      /\ text' = text /\ compressor' = compressor
    BY DEF TakeCopy
<1>2. Reading /\ ElementNow
    BY <1>1, ElementFacts DEF Reading
<1>3. /\ l >= 4 /\ offset \in Nat /\ offset >= 1 /\ offset <= op
      /\ \A i \in op .. op + l - 1 : Byte(i) = Byte(i - offset)
    <2>1. /\ element.at = op /\ ElementOK(text, element) /\ op \in Nat
        BY <1>2 DEF ElementNow
    <2> QED
        BY <1>1, <2>1 DEF ElementOK, Byte
<1>4. l \in Nat /\ space = n - op /\ elementEnd = op + l /\ n \in Nat /\ op \in Nat
      /\ op + l <= n /\ from \in Nat /\ from < op /\ op - from = offset
    BY <1>2, <1>3 DEF ElementNow, space, elementEnd
<1>5. ~(offset = 0 \/ offset > op \/ l > space)
    BY <1>3, <1>4
<1>6. dst \in [0 .. n - 1 -> Cells] /\ \A i \in 0 .. op - 1 : dst[i] = Byte(i)
    BY <1>2 DEF ElementNow
<1>7. CASE l <= 16 /\ offset >= 8 /\ space >= 16
    <2>1. /\ dst' = Copy8(once, from + 8, op + 8)
          /\ wrote' = Larger(wrote, op + 16)
          /\ Advance /\ pc' = pc /\ src' = src /\ to' = to /\ len' = len
        BY <1>5, <1>7 DEF TakeCopy
    <2> HIDE DEF l, offset, from
    <2>2. CopiedEight(dst, from, op, once)
        BY <1>4, <1>6, Copy8Lemma DEF Output
    <2> HIDE DEF once
    <2>3. CopiedEight(once, from + 8, op + 8, dst')
        <3>1. from + 8 \in Nat /\ op + 8 \in Nat /\ from + 8 < op + 8
            BY <1>4
        <3>2. Output(once)
            BY <2>2 DEF CopiedEight
        <3> QED
            BY <1>4, <2>1, <3>1, <3>2, Copy8Lemma
    <2>4. (op + 8) - (from + 8) = offset
        BY <1>3, <1>4
    <2>5. ASSUME NEW i \in 0 .. elementEnd - 1, i < op + 8 PROVE once[i] = Byte(i)
        <3>1. i \in 0 .. n - 1
            BY <1>4
        <3>2. CASE i < op
            BY <1>4, <1>6, <2>2, <3>1, <3>2 DEF CopiedEight
        <3>3. CASE ~(i < op)
            <4>1. i \in op .. op + 7 /\ i \in op .. op + l - 1 /\ i - offset \in 0 .. op - 1
                BY <1>3, <1>4, <1>7, <2>5, <3>3
            <4>2. once[i] = dst[i - offset]
                BY <1>4, <2>2, <3>1, <4>1 DEF CopiedEight
            <4> QED
                BY <1>3, <1>6, <4>1, <4>2
        <3> QED
            BY <3>2, <3>3
    <2>6. ASSUME NEW i \in 0 .. elementEnd - 1 PROVE dst'[i] = Byte(i)
        <3>1. i \in 0 .. n - 1
            BY <1>4
        <3>2. CASE i < op + 8
            BY <1>4, <2>3, <2>5, <3>1, <3>2 DEF CopiedEight
        <3>3. CASE ~(i < op + 8)
            <4>1. i \in op + 8 .. op + 8 + 7 /\ i \in op .. op + l - 1
                  /\ i - offset \in 0 .. elementEnd - 1 /\ i - offset < op + 8
                BY <1>3, <1>4, <1>7, <3>3
            <4>2. dst'[i] = once[i - offset]
                BY <2>3, <2>4, <3>1, <4>1 DEF CopiedEight
            <4> QED
                BY <1>3, <2>5, <4>1, <4>2
        <3> QED
            BY <3>2, <3>3
    <2>7. wrote' \in Nat /\ wrote' <= n
        <3>1. op + 16 \in Nat /\ op + 16 <= n
            BY <1>4, <1>7
        <3>2. wrote \in Nat /\ wrote <= n
            BY <1>2 DEF ElementNow
        <3>3. wrote' = wrote \/ wrote' = op + 16
            BY <2>1 DEF Larger
        <3> QED
            BY <3>1, <3>2, <3>3
    <2>8. src' \in Nat /\ to' \in Nat /\ len' \in Int
        BY <2>1 DEF IInv, TypeOK
    <2>9. dst' \in [0 .. n - 1 -> Cells]
        BY <2>3 DEF CopiedEight, Output
    <2> QED
        BY <1>1, <1>2, <2>1, <2>6, <2>7, <2>8, <2>9, AdvanceLemma
<1>8. CASE ~(l <= 16 /\ offset >= 8 /\ space >= 16)
    <2>1. /\ pc' = IF space >= l + 10 THEN "repeat" ELSE "bytes"
          /\ src' = from /\ to' = op /\ len' = l
          /\ dst' = dst /\ wrote' = wrote /\ op' = op /\ next' = next /\ used' = used
        BY <1>5, <1>8 DEF TakeCopy, kMaxIncrementCopyOverflow
    <2>2. Reading' /\ n' = n
        BY <1>1, <2>1 DEF Reading, n
    <2>3. LayoutOf(text, stream, emitted, head, csize)' /\ CostInv' /\ CompressInv'
        BY <1>1, <1>2, <2>2, CompressorKept
    <2>4. stream' = stream /\ csize' = csize /\ element' = element /\ elementEnd' = elementEnd
        BY <1>1, <2>1 DEF compressor, element, elementEnd
    <2> HIDE DEF l, offset, from
    <2>5. TypeOK'
        BY <1>1, <1>4, <2>1, <2>2, <2>4 DEF IInv, TypeOK, compressor
    <2>6. /\ op = IF next <= Len(stream) THEN element.at ELSE n
          /\ used = IF next <= Len(stream) THEN element.pos ELSE csize
          /\ wrote <= n
        BY <1>2 DEF IInv, DecompressInv
    <2>7. /\ \A i \in 0 .. op - 1 : dst[i] = Content[text][i]
          /\ \A i \in op .. elementEnd - 1 : Content[text][i] = Content[text][i - (op - from)]
          /\ l = elementEnd - op
        BY <1>3, <1>4, <1>6 DEF Byte
    <2>8. pc' = "repeat" => elementEnd + 10 <= n
        BY <1>4, <2>1
    <2>9. DecompressInv'
        <3>1. pc' \in {"repeat", "bytes"}
            BY <2>1
        <3>2. IsLiteral(element)' = IsLiteral(element)
            BY <2>4 DEF IsLiteral
        <3>3. /\ \A i \in 0 .. op' - 1 : dst'[i] = Byte(i)'
              /\ \A i \in 0 .. to' - 1 : i < elementEnd' => dst'[i] = Byte(i)'
              /\ \A i \in to' .. elementEnd' - 1 : Content[text'][i] = Content[text'][i - (to' - src')]
            BY <1>1, <2>1, <2>4, <2>7 DEF Byte
        <3>4. /\ next' <= Len(stream)' /\ ~IsLiteral(element)' /\ src' < to' /\ op' <= to'
              /\ len' = elementEnd' - to' /\ len' >= 1 /\ src' < op' /\ wrote' <= n'
            <4>1. next <= Len(stream) /\ from < op /\ op <= op /\ l = elementEnd - op /\ l >= 1
                BY <1>1, <1>3, <1>4, <2>7
            <4> QED
                BY <1>1, <2>1, <2>2, <2>4, <2>6, <3>2, <4>1
        <3>5. /\ op' = IF next' <= Len(stream)' THEN element'.at ELSE n'
              /\ used' = IF next' <= Len(stream)' THEN element'.pos ELSE csize'
            BY <2>1, <2>2, <2>4, <2>6
        <3>6. pc' = "repeat" => elementEnd' + 10 <= n'
            BY <2>2, <2>4, <2>8
        <3> QED
            BY <2>2, <3>1, <3>3, <3>4, <3>5, <3>6 DEF DecompressInv, Looping, Byte
    <2> QED
        BY <2>1, <2>3, <2>5, <2>9 DEF IInv
<1> QED
    BY <1>7, <1>8

(* In a loop: the bytes before t are restored, and the text repeats what   *)
(* is distance bytes before.                                               *)
RestoredTo(t, d) == \A i \in 0 .. t - 1 : i < elementEnd => d[i] = Byte(i)
Periodic(t, distance) == \A i \in t .. elementEnd - 1 : Byte(i) = Byte(i - distance)

LoopNow ==
    /\ ElementNow /\ ~IsLiteral(element) /\ Length(element) >= 4
    /\ src \in Nat /\ to \in Nat /\ src < to /\ op <= to /\ len = elementEnd - to
    /\ RestoredTo(to, dst) /\ Periodic(to, to - src)

LEMMA LoopFacts ==
    ASSUME IInv, Looping
    PROVE  LoopNow /\ Reading
<1>1. Reading
    BY DEF Looping, Reading
<1>2. /\ next <= Len(stream) /\ ~IsLiteral(element)
      /\ src < to /\ op <= to /\ len = elementEnd - to
      /\ RestoredTo(to, dst) /\ Periodic(to, to - src)
    BY DEF IInv, DecompressInv, RestoredTo, Periodic
<1>3. ElementNow
    BY <1>1, <1>2, ElementFacts
<1>4. Length(element) >= 4
    BY <1>2, <1>3 DEF ElementNow, ElementOK
<1>5. src \in Nat /\ to \in Nat
    BY DEF IInv, TypeOK
<1> QED
    BY <1>1, <1>2, <1>3, <1>4, <1>5 DEF LoopNow

(* A step that stays in a loop.                                            *)
LEMMA LoopKept ==
    ASSUME IInv, LoopNow, Reading, NEW s \in Nat, NEW t \in Nat,
           pc' \in {"repeat", "eights", "bytes"},
           text' = text, compressor' = compressor,
           next' = next, used' = used, op' = op,
           Output(dst'), wrote' \in Nat, wrote' <= n,
           src' = s, to' = t, s < t, op <= t, len' = elementEnd - t,
           RestoredTo(t, dst'), Periodic(t, t - s),
           pc' = "repeat" => s < op /\ elementEnd + 10 <= n,
           pc' = "eights" => t - s >= 8 /\ elementEnd + 10 <= n,
           pc' = "bytes" => elementEnd - t >= 1
    PROVE  IInv'
<1>1. Reading' /\ n' = n
    BY DEF Reading, n
<1>2. LayoutOf(text, stream, emitted, head, csize)' /\ CostInv' /\ CompressInv'
    BY <1>1, CompressorKept
<1>3. stream' = stream /\ csize' = csize /\ element' = element /\ elementEnd' = elementEnd
    BY DEF compressor, element, elementEnd
<1>4. next <= Len(stream) /\ op \in Nat /\ elementEnd \in Nat /\ op < elementEnd /\ n \in Nat
    <2>1. /\ next <= Len(stream) /\ op \in Nat /\ elementEnd \in Nat /\ n \in Nat
          /\ Length(element) \in Nat /\ Length(element) >= 1
        BY DEF LoopNow, ElementNow
    <2>2. elementEnd = op + Length(element)
        BY DEF elementEnd
    <2> QED
        BY <2>1, <2>2
<1>5. /\ op = element.at /\ used = element.pos
    BY DEF LoopNow, ElementNow
<1>6. TypeOK'
    <2>1. elementEnd - t \in Int
        BY <1>4
    <2> QED
        BY <1>1, <1>3, <2>1 DEF IInv, TypeOK, compressor, Output
<1>7. DecompressInv'
    <2>1. ~IsLiteral(element)'
        BY <1>3 DEF LoopNow, IsLiteral
    <2>2. \A i \in 0 .. op - 1 : dst'[i] = Byte(i)
        BY <1>4 DEF RestoredTo
    <2>3. /\ \A i \in 0 .. op' - 1 : dst'[i] = Byte(i)'
          /\ \A i \in 0 .. to' - 1 : i < elementEnd' => dst'[i] = Byte(i)'
        BY <1>3, <2>2 DEF RestoredTo, Byte
    <2>4. \A i \in to' .. elementEnd' - 1 : Content[text'][i] = Content[text'][i - (to' - src')]
        BY <1>3 DEF Periodic, Byte
    <2>5. /\ next' <= Len(stream)' /\ src' < to' /\ op' <= to' /\ len' = elementEnd' - to'
          /\ wrote' <= n'
          /\ op' = IF next' <= Len(stream)' THEN element'.at ELSE n'
          /\ used' = IF next' <= Len(stream)' THEN element'.pos ELSE csize'
        BY <1>1, <1>3, <1>4, <1>5
    <2>6. /\ pc' = "repeat" => src' < op' /\ elementEnd' + 10 <= n'
          /\ pc' = "eights" => to' - src' >= 8 /\ elementEnd' + 10 <= n'
          /\ pc' = "bytes" => len' >= 1
        BY <1>1, <1>3
    <2> QED
        BY <1>1, <2>1, <2>3, <2>4, <2>5, <2>6 DEF DecompressInv, Looping, Byte
<1> QED
    BY <1>2, <1>6, <1>7 DEF IInv

(* Copying eight bytes restores as many as the pointers are apart.         *)
LEMMA EightRestored ==
    ASSUME LoopNow, NEW t \in Nat, to <= t, t <= to + 8, t - to <= to - src
    PROVE  /\ Output(Copy8(dst, src, to))
           /\ RestoredTo(t, Copy8(dst, src, to))
<1>1. n \in Nat /\ Output(dst) /\ src \in Nat /\ to \in Nat /\ src < to
      /\ elementEnd \in Nat /\ elementEnd <= n
    BY DEF LoopNow, ElementNow, Output
<1>2. CopiedEight(dst, src, to, Copy8(dst, src, to))
    BY <1>1, Copy8Lemma
<1> DEFINE r == Copy8(dst, src, to)
<1> HIDE DEF r
<1>3. ASSUME NEW i \in 0 .. t - 1, i < elementEnd PROVE r[i] = Byte(i)
    <2>1. i \in 0 .. n - 1
        BY <1>1, <1>3
    <2>2. r[i] = IF i \in to .. to + 7 THEN dst[i - (to - src)] ELSE dst[i]
        BY <1>2, <2>1 DEF CopiedEight, r
    <2>3. CASE i < to
        <3>1. i \in 0 .. to - 1 /\ i \notin to .. to + 7
            BY <1>1, <2>3
        <3> QED
            BY <1>3, <2>2, <3>1 DEF LoopNow, RestoredTo
    <2>4. CASE ~(i < to)
        <3>1. /\ i \in to .. to + 7 /\ i \in to .. elementEnd - 1
              /\ i - (to - src) \in 0 .. to - 1 /\ i - (to - src) < elementEnd
            BY <1>1, <1>3, <2>4
        <3>2. dst[i - (to - src)] = Byte(i - (to - src))
            BY <3>1 DEF LoopNow, RestoredTo
        <3>3. Byte(i) = Byte(i - (to - src))
            BY <3>1 DEF LoopNow, Periodic
        <3> QED
            BY <2>2, <3>1, <3>2, <3>3
    <2> QED
        BY <2>3, <2>4
<1> QED
    BY <1>2, <1>3 DEF CopiedEight, RestoredTo, r

LEMMA RepeatStep == IInv /\ Repeat => IInv'
<1> SUFFICES ASSUME IInv, Repeat PROVE IInv'
    OBVIOUS
<1>1. /\ pc = "repeat" /\ text' = text /\ compressor' = compressor /\ next' = next
      /\ used' = used /\ op' = op /\ src' = src
    BY DEF Repeat
<1>2. LoopNow /\ Reading
    BY <1>1, LoopFacts DEF Looping
<1>3. src < op /\ elementEnd + 10 <= n
    BY <1>1 DEF IInv, DecompressInv
<1>4. /\ src \in Nat /\ to \in Nat /\ src < to /\ op <= to /\ len = elementEnd - to
      /\ op \in Nat /\ n \in Nat /\ elementEnd \in Nat /\ op + 4 <= elementEnd
      /\ wrote \in Nat /\ wrote <= n /\ Output(dst)
      /\ RestoredTo(to, dst) /\ Periodic(to, to - src)
    BY <1>2, SMTT(60) DEF LoopNow, ElementNow, elementEnd, Output
<1>5. CASE to - src < 8
    <2> DEFINE t == to + (to - src)
    <2>1. /\ dst' = Copy8(dst, src, to) /\ wrote' = Larger(wrote, to + 8)
          /\ len' = len - (to - src) /\ to' = t /\ pc' = pc
        BY <1>5 DEF Repeat
    <2>2. t \in Nat /\ to <= t /\ t <= to + 8 /\ t - to <= to - src /\ src < t /\ op <= t
          /\ t - src = (to - src) + (to - src) /\ t - (to - src) = to
        BY <1>4, <1>5
    <2>3. len' = elementEnd - t
        BY <1>4, <2>1
    <2>4. wrote' \in Nat /\ wrote' <= n
        <3>1. to + 8 \in Nat /\ to + 8 <= n
            BY <1>3, <1>4, <1>5
        <3>2. wrote' = wrote \/ wrote' = to + 8
            BY <2>1 DEF Larger
        <3> QED
            BY <1>4, <3>1, <3>2
    <2> HIDE DEF t
    <2>5. Output(dst') /\ RestoredTo(t, dst')
        BY <1>2, <2>1, <2>2, EightRestored
    <2>6. Periodic(t, t - src)
        <3> SUFFICES ASSUME NEW i \in t .. elementEnd - 1
                     PROVE  Byte(i) = Byte(i - (t - src))
            BY DEF Periodic
        <3>1. i \in to .. elementEnd - 1 /\ i - (to - src) \in to .. elementEnd - 1
              /\ (i - (to - src)) - (to - src) = i - (t - src)
            BY <1>4, <2>2
        <3> QED
            BY <1>4, <3>1 DEF Periodic
    <2> QED
        BY <1>1, <1>2, <1>3, <1>4, <2>1, <2>2, <2>3, <2>4, <2>5, <2>6, LoopKept
<1>6. CASE ~(to - src < 8)
    <2>1. pc' = "eights" /\ dst' = dst /\ wrote' = wrote /\ len' = len /\ to' = to
        BY <1>6 DEF Repeat
    <2>2. to - src >= 8
        BY <1>4, <1>6
    <2> QED
        BY <1>1, <1>2, <1>3, <1>4, <2>1, <2>2, LoopKept
<1> QED
    BY <1>5, <1>6

LEMMA EightsStep == IInv /\ Eights => IInv'
<1> SUFFICES ASSUME IInv, Eights PROVE IInv'
    OBVIOUS
<1>1. pc = "eights" /\ text' = text /\ compressor' = compressor
    BY DEF Eights
<1>2. LoopNow /\ Reading
    BY <1>1, LoopFacts DEF Looping
<1>3. to - src >= 8 /\ elementEnd + 10 <= n
    BY <1>1 DEF IInv, DecompressInv
<1>4. /\ src \in Nat /\ to \in Nat /\ src < to /\ op <= to /\ len = elementEnd - to
      /\ op \in Nat /\ n \in Nat /\ elementEnd \in Nat
      /\ wrote \in Nat /\ wrote <= n /\ Output(dst)
      /\ RestoredTo(to, dst) /\ Periodic(to, to - src)
    BY <1>2 DEF LoopNow, ElementNow, Output
<1>5. CASE len > 0
    <2> DEFINE t == to + 8  s == src + 8
    <2>1. /\ dst' = Copy8(dst, src, to) /\ wrote' = Larger(wrote, to + 8)
          /\ src' = s /\ to' = t /\ len' = len - 8
          /\ pc' = pc /\ op' = op /\ next' = next /\ used' = used
        BY <1>5 DEF Eights
    <2>2. /\ t \in Nat /\ s \in Nat /\ to <= t /\ t <= to + 8 /\ t - to <= to - src
          /\ s < t /\ op <= t /\ t - s = to - src /\ t - s >= 8
        BY <1>3, <1>4
    <2>3. len' = elementEnd - t
        BY <1>4, <2>1
    <2>4. wrote' \in Nat /\ wrote' <= n
        <3>1. to + 8 \in Nat /\ to + 8 <= n
            BY <1>3, <1>4, <1>5
        <3>2. wrote' = wrote \/ wrote' = to + 8
            BY <2>1 DEF Larger
        <3> QED
            BY <1>4, <3>1, <3>2
    <2>5. Periodic(t, to - src)
        BY <1>4 DEF Periodic
    <2> HIDE DEF t, s
    <2>6. Output(dst') /\ RestoredTo(t, dst')
        BY <1>2, <2>1, <2>2, EightRestored
    <2>7. Periodic(t, t - s)
        BY <2>2, <2>5
    <2> QED
        BY <1>1, <1>2, <1>3, <2>1, <2>2, <2>3, <2>4, <2>6, <2>7, LoopKept
<1>6. CASE ~(len > 0)
    <2>1. pc' = "element" /\ Advance /\ dst' = dst /\ wrote' = wrote /\ src' = src
          /\ to' = to /\ len' = len
        BY <1>6 DEF Eights
    <2>2. \A i \in 0 .. elementEnd - 1 : dst[i] = Byte(i)
        <3>1. elementEnd <= to
            BY <1>4, <1>6
        <3> QED
            BY <1>4, <3>1 DEF RestoredTo
    <2>3. len \in Int /\ dst \in [0 .. n - 1 -> Cells] /\ ElementNow
        BY <1>2, <1>4 DEF Output, LoopNow
    <2> QED
        BY <1>1, <1>2, <1>4, <2>1, <2>2, <2>3, AdvanceLemma
<1> QED
    BY <1>5, <1>6

LEMMA CopyBytesStep == IInv /\ CopyBytes => IInv'
<1> SUFFICES ASSUME IInv, CopyBytes PROVE IInv'
    OBVIOUS
<1> DEFINE t == to + 1  s == src + 1
<1>1. /\ pc = "bytes" /\ text' = text /\ compressor' = compressor
      /\ dst' = [dst EXCEPT ![to] = dst[src]] /\ wrote' = Larger(wrote, to + 1)
      /\ src' = s /\ to' = t /\ len' = len - 1
    BY DEF CopyBytes
<1>2. LoopNow /\ Reading
    BY <1>1, LoopFacts DEF Looping
<1>3. len >= 1
    BY <1>1 DEF IInv, DecompressInv
<1>4. /\ src \in Nat /\ to \in Nat /\ src < to /\ op <= to /\ len = elementEnd - to
      /\ op \in Nat /\ n \in Nat /\ elementEnd \in Nat /\ elementEnd <= n
      /\ wrote \in Nat /\ wrote <= n /\ dst \in [0 .. n - 1 -> Cells]
      /\ RestoredTo(to, dst) /\ Periodic(to, to - src)
    BY <1>2 DEF LoopNow, ElementNow
<1>5. /\ to \in 0 .. n - 1 /\ src \in 0 .. n - 1 /\ to < elementEnd /\ src < elementEnd
      /\ t \in Nat /\ s \in Nat /\ s < t /\ op <= t /\ t - s = to - src
      /\ len - 1 = elementEnd - t /\ len - 1 \in Int
    BY <1>3, <1>4
<1>6. wrote' \in Nat /\ wrote' <= n
    <2>1. to + 1 \in Nat /\ to + 1 <= n
        BY <1>4, <1>5
    <2>2. wrote' = wrote \/ wrote' = to + 1
        BY <1>1 DEF Larger
    <2> QED
        BY <1>4, <2>1, <2>2
<1>7. dst' \in [0 .. n - 1 -> Cells]
    BY <1>1, <1>4, <1>5
<1>8. RestoredTo(t, dst')
    <2> SUFFICES ASSUME NEW i \in 0 .. t - 1, i < elementEnd PROVE dst'[i] = Byte(i)
        BY DEF RestoredTo
    <2>1. CASE i = to
        <3>1. dst'[to] = dst[src]
            BY <1>1, <1>4, <1>5
        <3>2. src \in 0 .. to - 1 /\ to \in to .. elementEnd - 1 /\ to - (to - src) = src
            BY <1>4, <1>5
        <3>3. dst[src] = Byte(src) /\ Byte(to) = Byte(src)
            BY <1>4, <1>5, <3>2 DEF RestoredTo, Periodic
        <3> QED
            BY <2>1, <3>1, <3>3
    <2>2. CASE i # to
        <3>1. i \in 0 .. to - 1 /\ i \in 0 .. n - 1
            BY <1>4, <1>5, <2>2
        <3>2. dst'[i] = dst[i]
            BY <1>1, <1>4, <1>5, <2>2, <3>1
        <3> QED
            BY <1>4, <3>1, <3>2 DEF RestoredTo
    <2> QED
        BY <2>1, <2>2
<1>9. Periodic(t, to - src)
    BY <1>4 DEF Periodic
<1>10. Periodic(t, t - s)
    BY <1>5, <1>9
<1> HIDE DEF t, s
<1>11. CASE len - 1 > 0
    <2>1. pc' = pc /\ op' = op /\ next' = next /\ used' = used
        BY <1>1, <1>11 DEF CopyBytes
    <2>2. elementEnd - t >= 1 /\ len' = elementEnd - t
        BY <1>1, <1>4, <1>5, <1>11
    <2>3. Output(dst')
        BY <1>7 DEF Output
    <2> QED
        BY <1>1, <1>2, <1>5, <1>6, <1>8, <1>10, <2>1, <2>2, <2>3, LoopKept
<1>12. CASE ~(len - 1 > 0)
    <2>1. pc' = "element" /\ Advance
        BY <1>1, <1>12 DEF CopyBytes
    <2>2. elementEnd <= t
        BY <1>4, <1>5, <1>12
    <2>3. \A i \in 0 .. elementEnd - 1 : dst'[i] = Byte(i)
        BY <1>4, <1>5, <1>8, <2>2 DEF RestoredTo
    <2>4. src' \in Nat /\ to' \in Nat /\ len' \in Int
        BY <1>1, <1>5
    <2>5. ElementNow
        BY <1>2 DEF LoopNow
    <2> QED
        BY <1>1, <1>2, <1>6, <1>7, <2>1, <2>3, <2>4, <2>5, AdvanceLemma
<1> QED
    BY <1>11, <1>12

LEMMA FinishStep == IInv /\ Finish => IInv'
<1> SUFFICES ASSUME IInv, Finish PROVE IInv'
    OBVIOUS
<1>1. /\ pc = "element" /\ pc' = "done" /\ next > Len(stream) /\ text' = text /\ len' = len
      /\ compressor' = compressor /\ decompressor' = decompressor
    BY DEF Finish
<1>2. Reading /\ Reading' /\ n' = n
    BY <1>1 DEF Reading, n
<1>3. LayoutOf(text, stream, emitted, head, csize)' /\ CostInv' /\ CompressInv'
    BY <1>1, <1>2, CompressorKept
<1>4. TypeOK'
    BY <1>1, <1>2 DEF IInv, TypeOK, compressor, decompressor
<1>5. DecompressInv'
    BY <1>1, <1>2 DEF IInv, DecompressInv, Looping, Byte, element, compressor, decompressor
<1> QED
    BY <1>1, <1>3, <1>4, <1>5 DEF IInv

(* No step leaves the invariant.                                           *)
LEMMA StepIInv == IInv /\ [Next]_vars => IInv'
<1> SUFFICES ASSUME IInv, [Next]_vars PROVE IInv'
    OBVIOUS
<1>1. CASE NextBlock
    BY <1>1, NextBlockStep
<1>2. CASE Scan
    BY <1>2, ScanStep
<1>3. CASE Extend
    BY <1>3, ExtendStep
<1>4. CASE EmitCopy
    BY <1>4, EmitCopyStep
<1>5. CASE AfterCopy
    BY <1>5, AfterCopyStep
<1>6. CASE EmitRemainder
    BY <1>6, EmitRemainderStep
<1>7. CASE Compressed
    BY <1>7, CompressedStep
<1>8. CASE TakeLiteral
    BY <1>8, TakeLiteralStep
<1>9. CASE TakeCopy
    BY <1>9, TakeCopyStep
<1>10. CASE Repeat
    BY <1>10, RepeatStep
<1>11. CASE Eights
    BY <1>11, EightsStep
<1>12. CASE CopyBytes
    BY <1>12, CopyBytesStep
<1>13. CASE Finish
    BY <1>13, FinishStep
<1>14. CASE UNCHANGED vars
    <2>1. /\ UNCHANGED <<text, pc, len, compressor, decompressor>>
          /\ n' = n /\ head' = head /\ emitted' = emitted
        BY <1>14 DEF vars, compressor, decompressor, n, head, emitted
    <2>2. TypeOK' /\ pc' # "failed"
        BY <2>1 DEF IInv, TypeOK, compressor, decompressor
    <2>3. LayoutOf(text, stream, emitted, head, csize)'
        BY <2>1 DEF IInv, compressor
    <2>4. CostInv'
        BY <2>1 DEF IInv, CostInv, Cost, compressor
    <2>5. CompressInv'
        BY <2>1 DEF IInv, CompressInv, TableBelow, Same, Byte, blockEnd, limit, compressor
    <2>6. DecompressInv'
        BY <2>1 DEF IInv, DecompressInv, Reading, Looping, Byte, element, elementEnd,
                    compressor, decompressor
    <2> QED
        BY <2>2, <2>3, <2>4, <2>5, <2>6 DEF IInv
<1> QED
    BY <1>1, <1>2, <1>3, <1>4, <1>5, <1>6, <1>7, <1>8, <1>9, <1>10, <1>11, <1>12,
       <1>13, <1>14 DEF Next

-----------------------------------------------------------------------------
(* The theorems                                                            *)

(* The variables of csnappy_compress() and csnappy_decompress_noheader()   *)
(* stay in their ranges: positions within the text and the output, entries *)
(* of the table within a block.                                            *)
THEOREM TypeCorrect == Spec => []TypeOK
<1>1. IInv => TypeOK
    BY DEF IInv
<1> QED
    BY InitIInv, StepIInv, <1>1, PTL DEF Spec

(* csnappy_decompress() restores what csnappy_compress() compressed and    *)
(* accepts every element of it, for every text, block size and hash.       *)
THEOREM RoundTripCorrect == Spec => []RoundTrip
<1>1. IInv => RoundTrip
    <2> SUFFICES ASSUME IInv PROVE RoundTrip
        OBVIOUS
    <2>1. pc # "failed"
        BY DEF IInv
    <2>2. \A i \in 0 .. op - 1 : dst[i] = Byte(i)
        BY DEF IInv, DecompressInv
    <2>3. ASSUME pc = "done" PROVE op = n
        <3>1. next > Len(stream) /\ Reading
            BY <2>3 DEF IInv, DecompressInv, Reading
        <3>2. LayoutOf(text, stream, emitted, head, csize) /\ next \in 1 .. Len(stream) + 1
            BY DEF IInv, TypeOK
        <3>3. ~(next <= Len(stream))
            BY <3>1, <3>2 DEF LayoutOf
        <3> QED
            BY <3>1, <3>3 DEF IInv, DecompressInv
    <2> QED
        BY <2>1, <2>2, <2>3 DEF RoundTrip
<1> QED
    BY InitIInv, StepIInv, <1>1, PTL DEF Spec

(* The compressed bytes fit into csnappy_max_compressed_length() whatever  *)
(* the text, and neither compressor nor decompressor writes behind its     *)
(* buffer, although both copy more bytes at once than they need.           *)
THEOREM BuffersCorrect == Spec => []BuffersSuffice
<1>1. IInv => BuffersSuffice
    <2> SUFFICES ASSUME IInv PROVE BuffersSuffice
        OBVIOUS
    <2>1. reached \in Nat /\ text \in Texts /\ Fits(reached, n) /\ wrote <= n
        BY DEF IInv, TypeOK, CostInv, DecompressInv
    <2>2. n \in Nat
        BY <2>1, SizeIsNat
    <2>3. 6 * reached <= 7 * n + 187
        BY <2>1 DEF Fits
    <2>4. reached <= 32 + n + n \div 6
        BY <2>1, <2>2, <2>3
    <2> QED
        BY <2>1, <2>4 DEF BuffersSuffice, csnappy_max_compressed_length
<1> QED
    BY InitIInv, StepIInv, <1>1, PTL DEF Spec
=============================================================================
