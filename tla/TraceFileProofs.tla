--------------------------- MODULE TraceFileProofs ---------------------------
(***************************************************************************)
(* Proofs about TraceFormat and TraceFile, for any texts, evals, samples   *)
(* and frames, any number of records and any cut: what the reader returns  *)
(* is what was written.                                                    *)
(*                                                                         *)
(* The first part is about bytes: what the reader makes of the bytes of a  *)
(* field, of a record of the body (BodyCodes) and of one of the header     *)
(* (HeaderCodes), wherever in a file they lie.  The second part is about   *)
(* files: a file is a chain of milestones, the states in which the reader  *)
(* stands between two of its records, and a record that is written adds a  *)
(* milestone behind the last one.  The inductive invariant IInv says of    *)
(* the last milestone that the reader has returned there what was sent,    *)
(* and that its variables are those of the writer; of a reader it says     *)
(* that it stands at a milestone, or where it ended.                       *)
(***************************************************************************)
EXTENDS TraceFile, FiniteSetTheorems, SequenceTheorems, TLAPS

-----------------------------------------------------------------------------
(* Sequences                                                               *)

IsSequence(s) == \E S : s \in Seq(S)

LEMMA SeqIs ==
    ASSUME NEW s, IsSequence(s)
    PROVE  /\ Len(s) \in Nat /\ DOMAIN s = 1 .. Len(s)
           /\ s = [i \in 1 .. Len(s) |-> s[i]]
           /\ s \in Seq({s[i] : i \in 1 .. Len(s)})
<1>1. PICK S : s \in Seq(S)
    BY DEF IsSequence
<1>2. Len(s) \in Nat /\ DOMAIN s = 1 .. Len(s) /\ s = [i \in 1 .. Len(s) |-> s[i]]
    BY <1>1
<1> QED
    BY <1>2

LEMMA ConcatIs ==
    ASSUME NEW s, NEW t, IsSequence(s), IsSequence(t)
    PROVE  /\ IsSequence(s \o t) /\ Len(s \o t) = Len(s) + Len(t)
           /\ \A i \in 1 .. Len(s) : (s \o t)[i] = s[i]
           /\ \A i \in 1 .. Len(t) : (s \o t)[Len(s) + i] = t[i]
<1>1. PICK S : s \in Seq(S)
    BY DEF IsSequence
<1>2. PICK T : t \in Seq(T)
    BY DEF IsSequence
<1> DEFINE U == S \cup T
<1>3. s \in Seq(U) /\ t \in Seq(U)
    BY <1>1, <1>2
<1> HIDE DEF U
<1>4. s \o t \in Seq(U) /\ Len(s \o t) = Len(s) + Len(t) /\ Len(s) \in Nat /\ Len(t) \in Nat
    BY <1>3
<1>5. \A i \in 1 .. Len(s) : (s \o t)[i] = s[i]
    BY <1>3, <1>4
<1>6. \A i \in 1 .. Len(t) : (s \o t)[Len(s) + i] = t[i]
    BY <1>3, <1>4
<1> QED
    BY <1>4, <1>5, <1>6 DEF IsSequence

LEMMA ConcatRight ==
    ASSUME NEW s, NEW t, IsSequence(s), IsSequence(t), NEW i \in 1 .. Len(t)
    PROVE  (s \o t)[Len(s) + i] = t[i]
BY ConcatIs

LEMMA AppendIs ==
    ASSUME NEW s, IsSequence(s), NEW x
    PROVE  /\ IsSequence(Append(s, x)) /\ Len(Append(s, x)) = Len(s) + 1
           /\ \A i \in 1 .. Len(s) : Append(s, x)[i] = s[i]
           /\ Append(s, x)[Len(s) + 1] = x
<1>1. PICK S : s \in Seq(S)
    BY DEF IsSequence
<1> DEFINE U == S \cup {x}
<1>2. s \in Seq(U) /\ x \in U
    BY <1>1
<1> HIDE DEF U
<1>3. Append(s, x) \in Seq(U) /\ Len(Append(s, x)) = Len(s) + 1 /\ Len(s) \in Nat
    BY <1>2
<1>4. /\ \A i \in 1 .. Len(s) : Append(s, x)[i] = s[i]
      /\ Append(s, x)[Len(s) + 1] = x
    BY <1>2, <1>3
<1> QED
    BY <1>3, <1>4 DEF IsSequence

LEMMA SingleIs ==
    ASSUME NEW x
    PROVE  IsSequence(<<x>>) /\ Len(<<x>>) = 1 /\ <<x>>[1] = x
BY <<x>> \in Seq({x}) DEF IsSequence

LEMMA EmptyIs == IsSequence(<<>>) /\ Len(<<>>) = 0
BY <<>> \in Seq({}) DEF IsSequence

LEMMA FunctionIs ==
    ASSUME NEW n \in Nat, NEW f, f = [i \in 1 .. n |-> f[i]]
    PROVE  IsSequence(f) /\ Len(f) = n
<1> DEFINE S == {f[i] : i \in 1 .. n}
<1>1. \A i \in 1 .. n : f[i] \in S
    OBVIOUS
<1> HIDE DEF S
<1>2. f \in [1 .. n -> S]
    BY <1>1
<1>3. f \in Seq(S) /\ Len(f) = n
    BY <1>2
<1> QED
    BY <1>3 DEF IsSequence

LEMMA Associative ==
    ASSUME NEW s, NEW t, NEW u, IsSequence(s), IsSequence(t), IsSequence(u)
    PROVE  (s \o t) \o u = s \o (t \o u)
<1>1. PICK S, T, U : s \in Seq(S) /\ t \in Seq(T) /\ u \in Seq(U)
    BY DEF IsSequence
<1> DEFINE R == S \cup T \cup U
<1>2. s \in Seq(R) /\ t \in Seq(R) /\ u \in Seq(R)
    BY <1>1
<1> HIDE DEF R
<1> QED
    BY <1>2, ConcatAssociative

LEMMA ConcatNothing ==
    ASSUME NEW s, IsSequence(s)
    PROVE  s \o <<>> = s /\ <<>> \o s = s
<1>1. PICK S : s \in Seq(S)
    BY DEF IsSequence
<1> QED
    BY <1>1, ConcatEmptySeq

(* A file holds bytes behind its first k bytes, as far as it goes.         *)
Lies(f, k, bytes) ==
    \A j \in 1 .. Len(bytes) : k + j <= Len(f) => f[k + j] = bytes[j]

LEMMA LiesSplit ==
    ASSUME NEW f, IsSequence(f), NEW k \in Nat, NEW s, NEW t, IsSequence(s), IsSequence(t),
           Lies(f, k, s \o t)
    PROVE  /\ Lies(f, k, s) /\ Lies(f, k + Len(s), t)
           /\ Len(s) \in Nat /\ Len(t) \in Nat /\ Len(s \o t) = Len(s) + Len(t)
           /\ IsSequence(s \o t)
<1>1. Len(s) \in Nat /\ Len(t) \in Nat /\ Len(s \o t) = Len(s) + Len(t) /\ IsSequence(s \o t)
      /\ Len(f) \in Nat
    BY ConcatIs, SeqIs
<1>2. Lies(f, k, s)
    <2>1. ASSUME NEW j \in 1 .. Len(s), k + j <= Len(f)
          PROVE  f[k + j] = s[j]
        <3>1. j \in 1 .. Len(s \o t) /\ (s \o t)[j] = s[j]
            BY <1>1, <2>1, ConcatIs
        <3> QED
            BY <3>1, <2>1 DEF Lies
    <2> QED
        BY <2>1 DEF Lies
<1>3. Lies(f, k + Len(s), t)
    <2>1. ASSUME NEW j \in 1 .. Len(t), k + Len(s) + j <= Len(f)
          PROVE  f[k + Len(s) + j] = t[j]
        <3>1. Len(s) + j \in 1 .. Len(s \o t) /\ (s \o t)[Len(s) + j] = t[j]
            BY <1>1, <2>1, ConcatIs
        <3>2. k + (Len(s) + j) = k + Len(s) + j
            BY <1>1, <2>1
        <3> QED
            BY <3>1, <3>2, <2>1 DEF Lies
    <2> QED
        BY <2>1 DEF Lies
<1> QED
    BY <1>1, <1>2, <1>3

-----------------------------------------------------------------------------
(* Numbers                                                                 *)

LEMMA GroupIs ==
    ASSUME NEW v \in Int, NEW k \in 0 .. 4
    PROVE  Group(v, k) \in 0 .. 127
<1>1. CASE k = 0
    BY <1>1 DEF Group
<1>2. CASE k = 1
    BY <1>2 DEF Group
<1>3. CASE k = 2
    BY <1>3 DEF Group
<1>4. CASE k = 3
    BY <1>4 DEF Group
<1>5. CASE k = 4
    BY <1>5 DEF Group
<1> QED
    BY <1>1, <1>2, <1>3, <1>4, <1>5

LEMMA TopGroupIs ==
    ASSUME NEW v \in Int
    PROVE  TopGroup(v) \in 0 .. 4
<1>1. varint_size(v) \in {1, 2, 3, 4}
    BY DEF varint_size
<1> QED
    BY <1>1 DEF TopGroup

LEMMA VarintBytes ==
    ASSUME NEW v \in Int
    PROVE  /\ IsSequence(Varint(v)) /\ Len(Varint(v)) = TopGroup(v) + 1
           /\ \A i \in 1 .. TopGroup(v) : Continued(Varint(v)[i])
           /\ ~Continued(Varint(v)[TopGroup(v) + 1])
           /\ \A i \in 1 .. TopGroup(v) + 1 :
                 /\ IsByte(Varint(v)[i])
                 /\ Varint(v)[i][2] % 128 = Group(v, TopGroup(v) + 1 - i)
<1> DEFINE n == TopGroup(v)
           g(i) == Group(v, n + 1 - i)
           b(i) == g(i) + (IF i <= n THEN 128 ELSE 0)
<1>1. n \in 0 .. 4
    BY TopGroupIs
<1>2. Varint(v) = [i \in 1 .. n + 1 |-> Byte(b(i))]
    BY DEF Varint
<1>3. ASSUME NEW i \in 1 .. n + 1
      PROVE  /\ g(i) \in 0 .. 127 /\ b(i) % 128 = g(i)
             /\ i <= n => b(i) >= 128
             /\ i = n + 1 => b(i) < 128
    <2>1. n + 1 - i \in 0 .. 4
        BY <1>1
    <2>2. g(i) \in 0 .. 127
        BY <2>1, GroupIs
    <2> QED
        BY <1>1, <2>2
<1> HIDE DEF n, b, g
<1>4. Len(Varint(v)) = n + 1 /\ Varint(v) \in Seq({Byte(b(i)) : i \in 1 .. n + 1})
    BY <1>1, <1>2
<1>5. ASSUME NEW i \in 1 .. n + 1
      PROVE  Varint(v)[i] = <<"byte", b(i)>>
    BY <1>2, <1>5 DEF Byte
<1>6. /\ \A i \in 1 .. n : Continued(Varint(v)[i])
      /\ ~Continued(Varint(v)[n + 1])
    <2>1. \A x : <<"byte", x>>[1] = "byte" /\ <<"byte", x>>[2] = x
        OBVIOUS
    <2>2. \A i \in 1 .. n : Continued(Varint(v)[i])
        BY <1>1, <1>3, <1>5, <2>1 DEF Continued, IsByte
    <2>3. n + 1 \in 1 .. n + 1 /\ b(n + 1) < 128 /\ b(n + 1) \in Int
        BY <1>1, <1>3 DEF b
    <2> QED
        BY <2>1, <2>2, <2>3, <1>5 DEF Continued, IsByte
<1>7. \A i \in 1 .. n + 1 : IsByte(Varint(v)[i]) /\ Varint(v)[i][2] % 128 = g(i)
    BY <1>3, <1>5 DEF IsByte
<1> QED
    BY <1>4, <1>6, <1>7 DEF IsSequence, n, g

(* What the groups that are written make up: a number of 32 bits.          *)
Wrap(v) ==
    LET g(k) == IF k <= TopGroup(v) THEN Group(v, k) ELSE 0
        top == g(4) % 16
    IN  g(0) + 128 * g(1) + 16384 * g(2) + 2097152 * g(3)
        + 268435456 * (IF top >= 8 THEN top - 16 ELSE top)

LEMMA WrapIs ==
    ASSUME NEW v, IsInt32(v)
    PROVE  Wrap(v) = v
<1> DEFINE n == TopGroup(v)
           q1 == v \div 128
           q2 == v \div 16384
           q3 == v \div 2097152
           q4 == v \div 268435456
<1>1. v \in Int /\ -2147483648 <= v /\ v <= 2147483647
    BY DEF IsInt32
<1>2. /\ v = 128 * q1 + (v % 128)
      /\ q1 = 128 * q2 + (q1 % 128)
      /\ q2 = 128 * q3 + (q2 % 128)
      /\ q3 = 128 * q4 + (q3 % 128)
      /\ q1 \in Int /\ q2 \in Int /\ q3 \in Int /\ q4 \in Int
      /\ v % 128 \in 0 .. 127 /\ q1 % 128 \in 0 .. 127 /\ q2 % 128 \in 0 .. 127 /\ q3 % 128 \in 0 .. 127
    BY <1>1
<1>3. q4 \in -8 .. 7
    BY <1>1
<1>4. v = (v % 128) + 128 * (q1 % 128) + 16384 * (q2 % 128) + 2097152 * (q3 % 128) + 268435456 * q4
    <2> HIDE DEF q1, q2, q3, q4
    <2> QED
        BY <1>1, <1>2
<1>5. /\ n = 0 => 0 <= v /\ v < 128
      /\ n = 1 => 0 <= v /\ v < 16384
      /\ n = 2 => 0 <= v /\ v < 2097152
      /\ n = 3 => 0 <= v /\ v < 268435456
      /\ n \in 0 .. 4
    BY <1>1, TopGroupIs DEF TopGroup, varint_size
<1>6. /\ n = 0 => q1 % 128 = 0 /\ q2 % 128 = 0 /\ q3 % 128 = 0 /\ q4 = 0
      /\ n = 1 => q2 % 128 = 0 /\ q3 % 128 = 0 /\ q4 = 0
      /\ n = 2 => q3 % 128 = 0 /\ q4 = 0
      /\ n = 3 => q4 = 0
    BY <1>1, <1>5
<1>7. LET t == (q4 % 16) % 16 IN (IF t >= 8 THEN t - 16 ELSE t) = q4
    <2> HIDE DEF q4
    <2> QED
        BY <1>3
<1>8. /\ Group(v, 0) = v % 128 /\ Group(v, 1) = q1 % 128 /\ Group(v, 2) = q2 % 128
      /\ Group(v, 3) = q3 % 128 /\ Group(v, 4) = q4 % 16
    BY DEF Group
<1> HIDE DEF q1, q2, q3, q4, n
<1>9. CASE n = 0
    BY <1>2, <1>4, <1>6, <1>8, <1>9 DEF n, Wrap
<1>10. CASE n = 1
    BY <1>2, <1>4, <1>6, <1>8, <1>10 DEF n, Wrap
<1>11. CASE n = 2
    BY <1>2, <1>4, <1>6, <1>8, <1>11 DEF n, Wrap
<1>12. CASE n = 3
    BY <1>2, <1>4, <1>6, <1>8, <1>12 DEF n, Wrap
<1>13. CASE n = 4
    <2>1. /\ 0 <= TopGroup(v) /\ 1 <= TopGroup(v) /\ 2 <= TopGroup(v)
          /\ 3 <= TopGroup(v) /\ 4 <= TopGroup(v)
        BY <1>13 DEF n
    <2> DEFINE top == Group(v, 4) % 16
    <2>2. (IF top >= 8 THEN top - 16 ELSE top) = q4
        BY <1>7, <1>8
    <2>3. (v % 128) + 128 * (q1 % 128) + 16384 * (q2 % 128) + 2097152 * (q3 % 128)
          + 268435456 * (IF top >= 8 THEN top - 16 ELSE top) = v
        BY <1>4, <2>2
    <2> QED
        BY <1>8, <2>1, <2>3 DEF Wrap
<1> QED
    BY <1>5, <1>9, <1>10, <1>11, <1>12, <1>13

(* A state of the parser that has read vs of a record.                     *)
Ok(t, k, vs) == [tag |-> t, at |-> k, values |-> vs, status |-> "ok"]

LEMMA OkIs ==
    ASSUME NEW t, NEW k, NEW vs
    PROVE  /\ Ok(t, k, vs).tag = t /\ Ok(t, k, vs).at = k /\ Ok(t, k, vs).values = vs
           /\ Ok(t, k, vs).status = "ok" /\ [Ok(t, k, vs) EXCEPT !.values = <<>>] = Ok(t, k, <<>>)
BY DEF Ok

(* The number of bytes of a number that lies in a file, and its value.     *)
LEMMA NumberLies ==
    ASSUME NEW f, IsSequence(f), NEW k \in Nat, NEW v \in Int, Lies(f, k, Varint(v)),
           k + Len(Varint(v)) <= Len(f)
    PROVE  LET e == k + Len(Varint(v)) IN
           /\ e \in k + 1 .. Len(f)
           /\ \A j \in k + 1 .. e - 1 : Continued(f[j])
           /\ ~Continued(f[e]) /\ IsByte(f[e])
           /\ \A j \in 0 .. 4 : IF e - j >= k + 1 THEN j <= TopGroup(v) /\ f[e - j][2] % 128 = Group(v, j)
                                ELSE j > TopGroup(v)
<1> DEFINE n == TopGroup(v)
           b == Varint(v)
           e == k + Len(b)
<1>1. n \in 0 .. 4 /\ Len(b) = n + 1 /\ Len(f) \in Nat
    BY TopGroupIs, VarintBytes, SeqIs
<1>2. /\ \A i \in 1 .. n : Continued(b[i])
      /\ ~Continued(b[n + 1])
      /\ \A i \in 1 .. n + 1 : IsByte(b[i]) /\ b[i][2] % 128 = Group(v, n + 1 - i)
    BY VarintBytes
<1>3. \A i \in 1 .. n + 1 : f[k + i] = b[i]
    BY <1>1 DEF Lies
<1> HIDE DEF n, b
<1>4. e = k + n + 1 /\ e \in k + 1 .. Len(f)
    BY <1>1 DEF b
<1>5. ASSUME NEW j \in k + 1 .. e - 1
      PROVE  Continued(f[j])
    <2>1. j - k \in 1 .. n /\ j - k \in 1 .. n + 1 /\ k + (j - k) = j
        BY <1>1, <1>4
    <2> QED
        BY <1>2, <1>3, <2>1
<1>6. ~Continued(f[e]) /\ IsByte(f[e])
    <2>1. n + 1 \in 1 .. n + 1 /\ k + (n + 1) = e
        BY <1>1, <1>4
    <2> QED
        BY <1>2, <1>3, <2>1
<1>7. ASSUME NEW j \in 0 .. 4
      PROVE  IF e - j >= k + 1 THEN j <= n /\ f[e - j][2] % 128 = Group(v, j) ELSE j > n
    <2>1. CASE e - j >= k + 1
        <3>1. j <= n /\ n + 1 - j \in 1 .. n + 1 /\ k + (n + 1 - j) = e - j /\ n + 1 - (n + 1 - j) = j
            BY <1>1, <1>4, <2>1
        <3> QED
            BY <1>2, <1>3, <2>1, <3>1
    <2>2. CASE ~(e - j >= k + 1)
        BY <1>1, <1>4, <2>2
    <2> QED
        BY <2>1, <2>2
<1> QED
    BY <1>4, <1>5, <1>6, <1>7 DEF n, b

LEMMA NumberIs ==
    ASSUME NEW f, IsSequence(f), NEW k \in Nat, NEW v \in Int, Lies(f, k, Varint(v)),
           k + Len(Varint(v)) <= Len(f)
    PROVE  VarintValue(f, k + 1, k + Len(Varint(v))) = Wrap(v)
<1> DEFINE e == k + Len(Varint(v))
           n == TopGroup(v)
           g(j) == IF j <= n THEN Group(v, j) ELSE 0
           h(j) == IF e - j >= k + 1 THEN f[e - j][2] % 128 ELSE 0
<1>2. \A j \in 0 .. 4 : IF e - j >= k + 1 THEN j <= n /\ f[e - j][2] % 128 = Group(v, j) ELSE j > n
    BY NumberLies
<1>3. n \in 0 .. 4
    BY TopGroupIs
<1>4. ASSUME NEW j \in 0 .. 4
      PROVE  h(j) = g(j)
    <2> HIDE DEF e, n
    <2>1. CASE e - j >= k + 1
        BY <1>2, <2>1
    <2>2. CASE ~(e - j >= k + 1)
        <3>1. j > n
            BY <1>2, <2>2
        <3>2. ~(j <= n)
            BY <1>3, <3>1
        <3> QED
            BY <2>2, <3>2
    <2> QED
        BY <2>1, <2>2
<1>5. /\ h(0) = g(0) /\ h(1) = g(1) /\ h(2) = g(2) /\ h(3) = g(3) /\ h(4) = g(4)
    <2> HIDE DEF g, h
    <2> QED
        BY <1>4
<1>6. LET top == g(4) % 16 IN
      g(0) + 128 * g(1) + 16384 * g(2) + 2097152 * g(3)
      + 268435456 * (IF top >= 8 THEN top - 16 ELSE top) = Wrap(v)
    BY DEF Wrap
<1>7. VarintValue(f, k + 1, e) =
      LET top == h(4) % 16 IN
      h(0) + 128 * h(1) + 16384 * h(2) + 2097152 * h(3)
      + 268435456 * (IF top >= 8 THEN top - 16 ELSE top)
    BY DEF VarintValue
<1> HIDE DEF g, h
<1> QED
    BY <1>5, <1>6, <1>7 DEF e

LEMMA NumberRead ==
    ASSUME NEW f, IsSequence(f), NEW k \in Nat, NEW v \in Int, Lies(f, k, Varint(v)), NEW t, NEW vs
    PROVE  LET e == k + Len(Varint(v)) IN
           /\ e \in Nat /\ e > k
           /\ e <= Len(f) =>
                 ReadNumber(f, Ok(t, k, vs)) = Ok(t, e, Append(vs, Wrap(v)))
           /\ e > Len(f) => ReadNumber(f, Ok(t, k, vs)) = Failed(Ok(t, k, vs), "eof")
<1> DEFINE n == TopGroup(v)
           b == Varint(v)
           e == k + Len(b)
           p == Ok(t, k, vs)
<1>1. n \in 0 .. 4 /\ Len(b) = n + 1 /\ Len(f) \in Nat /\ e \in Nat /\ e > k
    BY TopGroupIs, VarintBytes, SeqIs
<1>2. p.at = k
    BY DEF Ok
<1>3. ASSUME e <= Len(f)
      PROVE  ReadNumber(f, p) = Ok(t, e, Append(vs, Wrap(v)))
    <2> DEFINE Ends(j) == ~Continued(f[j]) /\ \A i \in k + 1 .. j - 1 : Continued(f[i])
    <2>1. /\ e \in k + 1 .. Len(f)
          /\ \A j \in k + 1 .. e - 1 : Continued(f[j])
          /\ ~Continued(f[e]) /\ IsByte(f[e])
        BY <1>3, NumberLies
    <2>2. ASSUME NEW j \in k + 1 .. Len(f), Ends(j)
          PROVE  j = e
        <3>1. ~(j < e)
            BY <1>1, <2>1, <2>2
        <3>2. ~(e < j)
            BY <1>1, <2>1, <2>2
        <3> QED
            BY <1>1, <3>1, <3>2
    <2>3. (CHOOSE j \in k + 1 .. Len(f) : Ends(j)) = e
        <3>1. Ends(e)
            BY <2>1
        <3> HIDE DEF Ends, e
        <3> QED
            BY <2>1, <2>2, <3>1
    <2>4. ReadNumber(f, p) = Read(p, VarintValue(f, k + 1, e), e)
        BY <1>2, <2>1, <2>3, Zenon DEF ReadNumber
    <2>5. VarintValue(f, k + 1, e) = Wrap(v)
        BY <1>3, NumberIs
    <2> QED
        BY <2>4, <2>5 DEF Read, Ok
<1>4. ASSUME e > Len(f)
      PROVE  ReadNumber(f, p) = Failed(p, "eof")
    <2>1. ASSUME NEW j \in k + 1 .. Len(f)
          PROVE  Continued(f[j])
        <3>1. j - k \in 1 .. n /\ k + (j - k) = j /\ j - k \in 1 .. Len(b) /\ k + (j - k) <= Len(f)
            BY <1>1, <1>4
        <3>2. Continued(b[j - k])
            BY <3>1, VarintBytes
        <3>3. f[j] = b[j - k]
            BY <3>1 DEF Lies
        <3> QED
            BY <3>2, <3>3
    <2> QED
        BY <1>2, <2>1 DEF ReadNumber
<1> QED
    BY <1>1, <1>3, <1>4

-----------------------------------------------------------------------------
(* Strings                                                                 *)

Chars(s) == [j \in 1 .. Size[s] |-> Char(s, j)]

LEMMA CharsIs ==
    ASSUME NEW s \in Strings
    PROVE  /\ IsSequence(Chars(s)) /\ Len(Chars(s)) = Size[s] /\ Size[s] \in Nat
           /\ \A j \in 1 .. Size[s] : Chars(s)[j] = <<"char", s, j>>
<1>1. Size[s] \in Nat
    BY StringsAssumption
<1>2. Chars(s) \in Seq({Char(s, j) : j \in 1 .. Size[s]}) /\ Len(Chars(s)) = Size[s]
    BY <1>1 DEF Chars
<1>3. \A j \in 1 .. Size[s] : Chars(s)[j] = <<"char", s, j>>
    BY DEF Chars, Char
<1> QED
    BY <1>1, <1>2, <1>3 DEF IsSequence

LEMMA CharsRead ==
    ASSUME NEW f, IsSequence(f), NEW k \in Nat, NEW s \in Strings, Lies(f, k, Chars(s)), NEW t, NEW vs
    PROVE  LET e == k + Size[s] IN
           /\ e \in Nat /\ e >= k
           /\ e <= Len(f) => ReadChars(f, Ok(t, k, vs), Size[s]) = Ok(t, e, Append(vs, s))
           /\ e > Len(f) => ReadChars(f, Ok(t, k, vs), Size[s]) = Failed(Ok(t, k, vs), "eof")
<1> DEFINE n == Size[s]
           p == Ok(t, k, vs)
<1>1. n \in Nat /\ Len(f) \in Nat /\ Len(Chars(s)) = n
    BY CharsIs, SeqIs
<1>2. p.at = k
    BY DEF Ok
<1>3. ASSUME k + n <= Len(f)
      PROVE  ReadChars(f, p, n) = Ok(t, k + n, Append(vs, s))
    <2>1. \A j \in 1 .. n : f[k + j] = <<"char", s, j>>
        BY <1>1, <1>3, CharsIs DEF Lies
    <2>2. (IF n = 0 THEN NoText ELSE f[k + 1][2]) = s
        <3>1. CASE n = 0
            BY <3>1, StringsAssumption
        <3>2. CASE n # 0
            BY <1>1, <2>1, <3>2
        <3> QED
            BY <3>1, <3>2
    <2>3. ~(k + n > Len(f))
        BY <1>1, <1>3
    <2>4. ReadChars(f, p, n) = Read(p, s, k + n)
        BY <1>2, <2>1, <2>2, <2>3, Zenon DEF ReadChars, Char
    <2> QED
        BY <2>4 DEF Read, Ok
<1>4. ASSUME k + n > Len(f)
      PROVE  ReadChars(f, p, n) = Failed(p, "eof")
    BY <1>2, <1>4 DEF ReadChars
<1> QED
    BY <1>1, <1>3, <1>4

LEMMA StringRead ==
    ASSUME NEW f, IsSequence(f), NEW k \in Nat, NEW s \in Strings, Lies(f, k, StringBytes(s)),
           NEW t, NEW vs, IsSequence(vs)
    PROVE  LET e == k + Len(StringBytes(s)) IN
           /\ IsSequence(StringBytes(s)) /\ e \in Nat /\ e > k
           /\ e <= Len(f) => ReadString(f, Ok(t, k, vs)) = Ok(t, e, Append(vs, s))
           /\ e > Len(f) => ReadString(f, Ok(t, k, vs)).status = "eof"
<1> DEFINE n == Varint(Size[s])
           b == StringBytes(s)
           p == Ok(t, k, vs)
           q == Ok(t, k + 1, vs)
           size == ReadNumber(f, q)
           m == k + 1 + Len(n)
           e == k + Len(b)
<1>1. /\ Size[s] \in Nat /\ Size[s] \in Int /\ IsInt32(Size[s])
      /\ IsSequence(Chars(s)) /\ Len(Chars(s)) = Size[s]
    <2>1. Size[s] \in Nat /\ IsSequence(Chars(s)) /\ Len(Chars(s)) = Size[s]
        BY CharsIs
    <2>2. IsInt32(Size[s])
        BY StringsAssumption
    <2> QED
        BY <2>1, <2>2
<1>2. IsSequence(n) /\ Len(n) \in Nat /\ Len(n) >= 1 /\ Len(f) \in Nat
    <2>1. IsSequence(Varint(Size[s])) /\ Len(Varint(Size[s])) = TopGroup(Size[s]) + 1
        BY <1>1, VarintBytes
    <2>2. TopGroup(Size[s]) \in 0 .. 4
        BY <1>1, TopGroupIs
    <2>3. Len(f) \in Nat
        BY SeqIs
    <2> QED
        BY <2>1, <2>2, <2>3
<1>3. b = (<<Byte(0)>> \o n) \o Chars(s)
    BY DEF StringBytes, Chars
<1>4. IsSequence(<<Byte(0)>>) /\ Len(<<Byte(0)>>) = 1 /\ <<Byte(0)>>[1] = Byte(0)
    BY SingleIs
<1>5. IsSequence(<<Byte(0)>> \o n) /\ Len(<<Byte(0)>> \o n) = 1 + Len(n)
    BY <1>2, <1>4, ConcatIs
<1> HIDE DEF b, n
<1>6. /\ IsSequence(b) /\ Len(b) = 1 + Len(n) + Size[s]
      /\ Lies(f, k, <<Byte(0)>> \o n) /\ Lies(f, k + (1 + Len(n)), Chars(s))
    <2> DEFINE c == <<Byte(0)>> \o n
    <2>1. Lies(f, k, c \o Chars(s)) /\ b = c \o Chars(s) /\ IsSequence(c) /\ Len(c) = 1 + Len(n)
        BY <1>3, <1>5 DEF b
    <2> DEFINE d == Chars(s)
    <2>2. Lies(f, k, c \o d) /\ b = c \o d /\ IsSequence(c) /\ IsSequence(d)
        BY <1>1, <2>1
    <2> HIDE DEF c, d
    <2>3. /\ Lies(f, k, c) /\ Lies(f, k + Len(c), d)
          /\ Len(c \o d) = Len(c) + Len(d) /\ IsSequence(c \o d)
        BY <2>2, LiesSplit
    <2> QED
        BY <1>1, <2>1, <2>2, <2>3 DEF c, d
<1>7. /\ Lies(f, k, <<Byte(0)>>) /\ Lies(f, k + 1, n)
    <2> DEFINE c == <<Byte(0)>>
    <2>1. Lies(f, k, c \o n) /\ IsSequence(c) /\ Len(c) = 1
        BY <1>4, <1>6
    <2> HIDE DEF c
    <2>2. Lies(f, k, c) /\ Lies(f, k + Len(c), n)
        BY <1>2, <2>1, LiesSplit
    <2> QED
        BY <2>1, <2>2 DEF c
<1>8. e \in Nat /\ e > k /\ e = m + Size[s] /\ m = k + (1 + Len(n)) /\ m \in Nat /\ k + 1 \in Nat
    BY <1>1, <1>2, <1>6, SMTT(60)
<1>9. /\ m <= Len(f) => size = Ok(t, m, Append(vs, Size[s]))
      /\ m > Len(f) => size = Failed(q, "eof")
    <2>1. Lies(f, k + 1, Varint(Size[s])) /\ m = k + 1 + Len(Varint(Size[s]))
        BY <1>7 DEF n
    <2>2. Wrap(Size[s]) = Size[s]
        BY <1>1, WrapIs
    <2>3. /\ m <= Len(f) => size = Ok(t, m, Append(vs, Wrap(Size[s])))
          /\ m > Len(f) => size = Failed(q, "eof")
        BY <1>1, <1>8, <2>1, NumberRead
    <2> QED
        BY <2>2, <2>3
<1>10. [p EXCEPT !.at = @ + 1] = q
    BY DEF Ok
<1>11. ~(p.at < Len(f) /\ ~IsByte(f[p.at + 1]))
    <2>1. ASSUME k < Len(f)
          PROVE  f[k + 1] = Byte(0)
        <3>1. k + 1 <= Len(f)
            BY <1>2, <2>1
        <3> QED
            BY <1>4, <1>7, <3>1 DEF Lies
    <2>2. p.at = k
        BY DEF Ok
    <2>3. IsByte(Byte(0))
        BY DEF IsByte, Byte
    <2> QED
        BY <2>1, <2>2, <2>3
<1>12. ASSUME e <= Len(f)
       PROVE  ReadString(f, p) = Ok(t, e, Append(vs, s))
    <2>1. size = Ok(t, m, Append(vs, Size[s]))
        BY <1>1, <1>2, <1>8, <1>9, <1>12
    <2>2. size.status = "ok" /\ size.at = m /\ Last(size.values) = Size[s]
        <3>1. size.values = Append(vs, Size[s]) /\ size.status = "ok" /\ size.at = m
            BY <2>1 DEF Ok
        <3> QED
            BY <3>1, AppendIs DEF Last
    <2>3. [p EXCEPT !.at = m] = Ok(t, m, vs)
        BY DEF Ok
    <2>4. ReadString(f, p) = ReadChars(f, Ok(t, m, vs), Size[s])
        BY <1>10, <1>11, <2>2, <2>3, Zenon DEF ReadString
    <2> QED
        BY <1>6, <1>8, <1>12, <2>4, CharsRead
<1>13. ASSUME e > Len(f)
       PROVE  ReadString(f, p).status = "eof"
    <2>1. CASE m <= Len(f)
        <3>1. size = Ok(t, m, Append(vs, Size[s]))
            BY <1>9, <2>1
        <3>2. size.status = "ok" /\ size.at = m /\ Last(size.values) = Size[s]
            <4>1. size.values = Append(vs, Size[s]) /\ size.status = "ok" /\ size.at = m
                BY <3>1 DEF Ok
            <4> QED
                BY <4>1, AppendIs DEF Last
        <3>3. [p EXCEPT !.at = m] = Ok(t, m, vs)
            BY DEF Ok
        <3>4. ReadString(f, p) = ReadChars(f, Ok(t, m, vs), Size[s])
            BY <1>10, <1>11, <3>2, <3>3, Zenon DEF ReadString
        <3>5. ReadChars(f, Ok(t, m, vs), Size[s]) = Failed(Ok(t, m, vs), "eof")
            BY <1>6, <1>8, <1>13, CharsRead
        <3> QED
            BY <3>4, <3>5 DEF Failed, Ok
    <2>2. CASE m > Len(f)
        <3>1. size = Failed(q, "eof")
            BY <1>9, <2>2
        <3>2. size.status = "eof"
            BY <3>1 DEF Failed, Ok
        <3>3. ReadString(f, p) = Failed(p, "eof")
            BY <1>10, <1>11, <3>2, Zenon DEF ReadString
        <3> QED
            BY <3>3 DEF Failed, Ok
    <2> QED
        BY <1>2, <1>8, <2>1, <2>2
<1>14. IsSequence(b) /\ e \in Nat /\ e > k
    BY <1>6, <1>8
<1> QED
    BY <1>12, <1>13, <1>14 DEF b

-----------------------------------------------------------------------------
(* Fields                                                                  *)

IsField(fd) ==
    \/ fd[1] = "number" /\ fd[2] \in Int
    \/ fd[1] = "string" /\ fd[2] \in Strings
    \/ fd[1] = "id" /\ fd[2] = "id"

FieldValue(fd) == IF fd[1] = "number" THEN Wrap(fd[2]) ELSE fd[2]

LEMMA FieldRead ==
    ASSUME NEW f, IsSequence(f), NEW k \in Nat, NEW fd, IsField(fd), Lies(f, k, FieldBytes(fd)),
           NEW t, NEW vs, IsSequence(vs)
    PROVE  LET e == k + Len(FieldBytes(fd)) IN
           /\ IsSequence(FieldBytes(fd)) /\ e \in Nat /\ e >= k
           /\ e <= Len(f) => ReadField(f, Ok(t, k, vs), fd[1]) = Ok(t, e, Append(vs, FieldValue(fd)))
           /\ e > Len(f) => ReadField(f, Ok(t, k, vs), fd[1]).status = "eof"
<1> DEFINE p == Ok(t, k, vs)
           x == fd[2]
<1>1. p.status = "ok"
    BY DEF Ok
<1>2. \A q \in {"eof", "end", "garbage"} : Failed(p, q).status = q
    BY DEF Failed, Ok
<1>3. CASE fd[1] = "number"
    <2>1. x \in Int
        BY <1>3 DEF IsField
    <2>2. FieldBytes(fd) = Varint(x) /\ ReadField(f, p, fd[1]) = ReadNumber(f, p) /\ FieldValue(fd) = Wrap(x)
        BY <1>1, <1>3 DEF FieldBytes, ReadField, FieldValue
    <2> DEFINE e == k + Len(Varint(x))
    <2>3. /\ e \in Nat /\ e > k
          /\ e <= Len(f) => ReadNumber(f, p) = Ok(t, e, Append(vs, Wrap(x)))
          /\ e > Len(f) => ReadNumber(f, p) = Failed(p, "eof")
        BY <2>1, <2>2, NumberRead
    <2>4. IsSequence(Varint(x))
        BY <2>1, VarintBytes
    <2> QED
        BY <1>2, <2>2, <2>3, <2>4
<1>4. CASE fd[1] = "string"
    <2>1. x \in Strings
        BY <1>4 DEF IsField
    <2>2. FieldBytes(fd) = StringBytes(x) /\ ReadField(f, p, fd[1]) = ReadString(f, p) /\ FieldValue(fd) = x
        BY <1>1, <1>4 DEF FieldBytes, ReadField, FieldValue
    <2> QED
        BY <2>1, <2>2, StringRead
<1>5. CASE fd[1] = "id"
    <2>1. x = "id" /\ x \in Strings
        BY <1>5, StringsAssumption DEF IsField
    <2>2. FieldBytes(fd) = Chars(x) /\ ReadField(f, p, fd[1]) = ReadChars(f, p, Size[x])
          /\ FieldValue(fd) = x
        BY <1>1, <1>5, <2>1 DEF FieldBytes, ReadField, Chars, FieldValue
    <2>3. IsSequence(Chars(x)) /\ Len(Chars(x)) = Size[x]
        BY <2>1, CharsIs
    <2> QED
        BY <1>2, <2>1, <2>2, <2>3, CharsRead
<1> QED
    BY <1>3, <1>4, <1>5 DEF IsField

(* The fields of a record, and how the reader takes them.                  *)
IsFields(fields, layout) ==
    /\ IsSequence(fields) /\ Len(fields) <= 5
    /\ \A i \in 1 .. Len(fields) : IsField(fields[i])
    /\ IsSequence(layout) /\ Len(layout) = Len(fields)
    /\ \A i \in 1 .. Len(fields) : layout[i] = fields[i][1]

Part(fields, i) == IF i <= Len(fields) THEN FieldBytes(fields[i]) ELSE <<>>

UpTo(fields, i) == [j \in 1 .. (IF i <= Len(fields) THEN i ELSE Len(fields)) |-> FieldValue(fields[j])]
Values(fields) == [j \in 1 .. Len(fields) |-> FieldValue(fields[j])]

LEMMA UpToIs ==
    ASSUME NEW fields, IsSequence(fields), NEW i \in Nat
    PROVE  /\ IsSequence(UpTo(fields, i))
           /\ UpTo(fields, i + 1) =
                 IF i + 1 <= Len(fields) THEN Append(UpTo(fields, i), FieldValue(fields[i + 1]))
                 ELSE UpTo(fields, i)
<1> DEFINE n == Len(fields)
           u == UpTo(fields, i)
<1>1. n \in Nat
    BY SeqIs
<1>2. u \in Seq({FieldValue(fields[j]) : j \in 1 .. n}) /\ Len(u) = (IF i <= n THEN i ELSE n)
    BY <1>1 DEF UpTo
<1>3. CASE i + 1 <= n
    <2> DEFINE w == Append(u, FieldValue(fields[i + 1]))
    <2>1. Len(u) = i /\ UpTo(fields, i + 1) = [j \in 1 .. i + 1 |-> FieldValue(fields[j])] /\ u = [j \in 1 .. i |-> FieldValue(fields[j])]
        BY <1>1, <1>2, <1>3 DEF UpTo
    <2>2. /\ IsSequence(w) /\ Len(w) = i + 1
          /\ \A j \in 1 .. i : w[j] = u[j]
          /\ w[i + 1] = FieldValue(fields[i + 1])
        <3>1. IsSequence(u)
            BY <1>2 DEF IsSequence
        <3> HIDE DEF u
        <3> QED
            BY <2>1, <3>1, AppendIs
    <2>3. \A j \in 1 .. i : u[j] = FieldValue(fields[j])
        BY <2>1
    <2> HIDE DEF w, u
    <2>4. w = [j \in 1 .. i + 1 |-> w[j]]
        BY <2>2, SeqIs
    <2>5. \A j \in 1 .. i + 1 : w[j] = FieldValue(fields[j])
        BY <2>2, <2>3
    <2>6. w = [j \in 1 .. i + 1 |-> FieldValue(fields[j])]
        BY <2>4, <2>5
    <2> QED
        BY <1>2, <1>3, <2>1, <2>6 DEF IsSequence, w, u
<1>4. CASE ~(i + 1 <= n)
    <2>1. (IF i <= n THEN i ELSE n) = n /\ (IF i + 1 <= n THEN i + 1 ELSE n) = n
        BY <1>1, <1>4
    <2>2. UpTo(fields, i + 1) = u
        BY <2>1 DEF UpTo
    <2> QED
        BY <1>2, <1>4, <2>2 DEF IsSequence
<1> QED
    BY <1>3, <1>4

LEMMA PartRead ==
    ASSUME NEW f, IsSequence(f), NEW fields, NEW layout, IsFields(fields, layout),
           NEW i \in Nat, NEW k \in Nat, k <= Len(f), Lies(f, k, Part(fields, i + 1)), NEW t
    PROVE  LET p == Ok(t, k, UpTo(fields, i))
               q == IF i + 1 <= Len(layout) THEN ReadField(f, p, layout[i + 1]) ELSE p
               e == k + Len(Part(fields, i + 1))
           IN  /\ e <= Len(f) => q = Ok(t, e, UpTo(fields, i + 1))
               /\ e > Len(f) => q.status = "eof"
<1> DEFINE vs == UpTo(fields, i)
<1>1. /\ IsSequence(vs)
      /\ UpTo(fields, i + 1) =
            IF i + 1 <= Len(fields) THEN Append(vs, FieldValue(fields[i + 1])) ELSE vs
    BY UpToIs DEF IsFields
<1> HIDE DEF vs
<1>2. Len(fields) \in Nat /\ Len(layout) = Len(fields) /\ Len(f) \in Nat
    BY SeqIs DEF IsFields
<1>3. CASE i + 1 <= Len(fields)
    <2>1. i + 1 \in 1 .. Len(fields)
        BY <1>2, <1>3
    <2>2. IsField(fields[i + 1]) /\ layout[i + 1] = fields[i + 1][1]
          /\ Part(fields, i + 1) = FieldBytes(fields[i + 1])
        BY <1>3, <2>1 DEF IsFields, Part
    <2> DEFINE fd == fields[i + 1]
               p == Ok(t, k, vs)
               e == k + Len(FieldBytes(fd))
    <2>3. IsField(fd) /\ Lies(f, k, FieldBytes(fd))
        BY <2>2
    <2> HIDE DEF fd
    <2>4. /\ e <= Len(f) => ReadField(f, p, fd[1]) = Ok(t, e, Append(vs, FieldValue(fd)))
          /\ e > Len(f) => ReadField(f, p, fd[1]).status = "eof"
        BY <1>1, <2>3, FieldRead
    <2>5. i + 1 <= Len(layout) /\ layout[i + 1] = fd[1] /\ Part(fields, i + 1) = FieldBytes(fd)
          /\ UpTo(fields, i + 1) = Append(vs, FieldValue(fd))
        BY <1>1, <1>2, <1>3, <2>2 DEF fd
    <2> QED
        BY <2>4, <2>5 DEF vs
<1>4. CASE ~(i + 1 <= Len(fields))
    <2>1. Part(fields, i + 1) = <<>> /\ k + 0 = k
        BY <1>4 DEF Part
    <2> QED
        BY <1>1, <1>2, <1>4, <2>1, EmptyIs DEF vs
<1> QED
    BY <1>3, <1>4

LEMMA PartStep ==
    ASSUME NEW f, IsSequence(f), NEW fields, NEW layout, IsFields(fields, layout),
           NEW i \in Nat, NEW k \in Nat, NEW t, NEW p,
           IF k <= Len(f) THEN p = Ok(t, k, UpTo(fields, i)) ELSE p.status = "eof",
           Lies(f, k, Part(fields, i + 1))
    PROVE  LET q == IF i + 1 <= Len(layout) THEN ReadField(f, p, layout[i + 1]) ELSE p
               e == k + Len(Part(fields, i + 1))
           IN  /\ e \in Nat
               /\ IF e <= Len(f) THEN q = Ok(t, e, UpTo(fields, i + 1)) ELSE q.status = "eof"
<1> DEFINE e == k + Len(Part(fields, i + 1))
<1>1. Len(fields) \in Nat /\ Len(layout) = Len(fields) /\ Len(f) \in Nat
    BY SeqIs DEF IsFields
<1>2. e \in Nat /\ e >= k
    <2>1. CASE i + 1 <= Len(fields)
        <3>1. IsField(fields[i + 1])
            BY <1>1, <2>1 DEF IsFields
        <3>2. IsSequence(<<>>) /\ Part(fields, i + 1) = FieldBytes(fields[i + 1])
            BY <2>1, EmptyIs DEF Part
        <3> DEFINE fd == fields[i + 1]
        <3>3. Lies(f, k, FieldBytes(fd)) /\ IsField(fd)
            BY <3>1, <3>2
        <3> HIDE DEF fd
        <3>4. k + Len(FieldBytes(fd)) \in Nat /\ k + Len(FieldBytes(fd)) >= k
            BY <3>2, <3>3, FieldRead
        <3> QED
            BY <3>2, <3>4 DEF fd
    <2>2. CASE ~(i + 1 <= Len(fields))
        BY <2>2, EmptyIs DEF Part
    <2> QED
        BY <2>1, <2>2
<1>3. CASE k <= Len(f)
    BY <1>1, <1>2, <1>3, PartRead
<1>4. CASE ~(k <= Len(f))
    <2>1. p.status = "eof"
        BY <1>4
    <2>2. \A kind : ReadField(f, p, kind) = p
        BY <2>1 DEF ReadField
    <2> QED
        BY <1>1, <1>2, <1>4, <2>1, <2>2
<1> QED
    BY <1>3, <1>4

(* Bytes none of which is a tag.                                           *)
NoTags(b) == IsSequence(b) /\ \A j \in 1 .. Len(b) : b[j][1] # "tag"

LEMMA NoTagsConcat ==
    ASSUME NEW s, NEW t, NoTags(s), NoTags(t)
    PROVE  NoTags(s \o t) /\ Len(s \o t) = Len(s) + Len(t) /\ Len(s) \in Nat /\ Len(t) \in Nat
<1>1. IsSequence(s) /\ IsSequence(t)
    BY DEF NoTags
<1>2. IsSequence(s \o t) /\ Len(s \o t) = Len(s) + Len(t) /\ Len(s) \in Nat /\ Len(t) \in Nat
    BY <1>1, ConcatIs, SeqIs
<1>3. ASSUME NEW j \in 1 .. Len(s \o t)
      PROVE  (s \o t)[j][1] # "tag"
    <2>1. CASE j <= Len(s)
        <3>1. j \in 1 .. Len(s)
            BY <1>2, <2>1
        <3>2. (s \o t)[j] = s[j]
            BY <1>1, <3>1, ConcatIs
        <3> QED
            BY <3>1, <3>2 DEF NoTags
    <2>2. CASE j > Len(s)
        <3>1. j - Len(s) \in 1 .. Len(t) /\ Len(s) + (j - Len(s)) = j
            BY <1>2, <2>2
        <3>2. (s \o t)[j] = t[j - Len(s)]
            BY <1>1, <3>1, ConcatIs
        <3> QED
            BY <3>1, <3>2 DEF NoTags
    <2> QED
        BY <1>2, <2>1, <2>2
<1> QED
    BY <1>2, <1>3 DEF NoTags

LEMMA NumberNoTags ==
    ASSUME NEW v \in Int
    PROVE  NoTags(Varint(v))
<1>1. /\ IsSequence(Varint(v)) /\ Len(Varint(v)) = TopGroup(v) + 1
      /\ \A i \in 1 .. TopGroup(v) + 1 : IsByte(Varint(v)[i])
    BY VarintBytes
<1> QED
    BY <1>1 DEF NoTags, IsByte

LEMMA CharsNoTags ==
    ASSUME NEW s \in Strings
    PROVE  NoTags(Chars(s))
BY CharsIs DEF NoTags

LEMMA FieldNoTags ==
    ASSUME NEW fd, IsField(fd)
    PROVE  NoTags(FieldBytes(fd))
<1> DEFINE x == fd[2]
<1>1. CASE fd[1] = "number"
    <2>1. x \in Int
        BY <1>1 DEF IsField
    <2>2. FieldBytes(fd) = Varint(x)
        BY <1>1 DEF FieldBytes
    <2> QED
        BY <2>1, <2>2, NumberNoTags
<1>2. CASE fd[1] = "string"
    <2>1. x \in Strings
        BY <1>2 DEF IsField
    <2>2. FieldBytes(fd) = (<<Byte(0)>> \o Varint(Size[x])) \o Chars(x)
        BY <1>2 DEF FieldBytes, StringBytes, Chars
    <2>3. Size[x] \in Int
        BY <2>1, CharsIs
    <2>4. NoTags(<<Byte(0)>>)
        <3>1. IsSequence(<<Byte(0)>>) /\ Len(<<Byte(0)>>) = 1 /\ <<Byte(0)>>[1] = Byte(0)
            BY SingleIs
        <3>2. Byte(0)[1] # "tag"
            BY DEF Byte
        <3> QED
            BY <3>1, <3>2 DEF NoTags
    <2>5. NoTags(<<Byte(0)>> \o Varint(Size[x]))
        BY <2>3, <2>4, NumberNoTags, NoTagsConcat
    <2>6. NoTags(Chars(x))
        BY <2>1, CharsNoTags
    <2> QED
        BY <2>2, <2>5, <2>6, NoTagsConcat
<1>3. CASE fd[1] = "id"
    <2>1. x \in Strings
        BY <1>3, StringsAssumption DEF IsField
    <2>2. FieldBytes(fd) = Chars(x)
        BY <1>3 DEF FieldBytes, Chars
    <2> QED
        BY <2>1, <2>2, CharsNoTags
<1> QED
    BY <1>1, <1>2, <1>3 DEF IsField

LEMMA PartNoTags ==
    ASSUME NEW fields, NEW layout, IsFields(fields, layout), NEW i \in Nat \ {0}
    PROVE  NoTags(Part(fields, i))
<1>1. CASE i <= Len(fields)
    <2>1. i \in 1 .. Len(fields)
        BY <1>1, SeqIs DEF IsFields
    <2>2. IsField(fields[i]) /\ Part(fields, i) = FieldBytes(fields[i])
        BY <1>1, <2>1 DEF IsFields, Part
    <2> QED
        BY <2>2, FieldNoTags
<1>2. CASE ~(i <= Len(fields))
    BY <1>2, EmptyIs DEF Part, NoTags
<1> QED
    BY <1>1, <1>2

LEMMA PayloadRead ==
    ASSUME NEW f, IsSequence(f), NEW fields, NEW layout, IsFields(fields, layout),
           NEW k \in Nat, k <= Len(f), Lies(f, k, Payload(fields)), NEW t
    PROVE  LET e == k + Len(Payload(fields))
               q == ReadFields(f, Ok(t, k, <<>>), layout)
           IN  IF e <= Len(f) THEN q = Ok(t, e, Values(fields)) ELSE q.status = "eof"
<1> DEFINE part(i) == Part(fields, i)
           n(i) == Len(part(i))
           read(q, i) == IF i <= Len(layout) THEN ReadField(f, q, layout[i]) ELSE q
           p0 == Ok(t, k, <<>>)
           p1 == read(p0, 1)
           p2 == read(p1, 2)
           p3 == read(p2, 3)
           p4 == read(p3, 4)
           p5 == read(p4, 5)
           Reads(i, e, q) == e \in Nat /\ IF e <= Len(f) THEN q = Ok(t, e, UpTo(fields, i)) ELSE q.status = "eof"
<1>1. \A i \in {1, 2, 3, 4, 5} : NoTags(part(i)) /\ IsSequence(part(i)) /\ n(i) \in Nat
    BY PartNoTags, SeqIs DEF NoTags
<1>2. ASSUME NEW i \in Nat, NEW e, NEW q, Reads(i, e, q), Lies(f, e, part(i + 1))
      PROVE  Reads(i + 1, e + n(i + 1), read(q, i + 1))
    BY <1>2, PartStep
<1>3. Payload(fields) = (((part(1) \o part(2)) \o part(3)) \o part(4)) \o part(5)
    BY DEF Payload, Part
<1>4. ReadFields(f, p0, layout) = p5
    BY DEF ReadFields
<1> HIDE DEF part, read, Reads
<1> DEFINE s2 == part(1) \o part(2)
           s3 == s2 \o part(3)
           s4 == s3 \o part(4)
           s5 == s4 \o part(5)
<1>5. /\ IsSequence(part(1)) /\ IsSequence(part(2)) /\ IsSequence(part(3)) /\ IsSequence(part(4)) /\ IsSequence(part(5))
      /\ n(1) \in Nat /\ n(2) \in Nat /\ n(3) \in Nat /\ n(4) \in Nat /\ n(5) \in Nat
    BY <1>1
<1>6. IsSequence(s2) /\ Len(s2) = n(1) + n(2) /\ Len(s2) \in Nat
    BY <1>5, ConcatIs
<1>7. IsSequence(s3) /\ Len(s3) = Len(s2) + n(3) /\ Len(s3) \in Nat
    <2> HIDE DEF s2
    <2> QED
        BY <1>5, <1>6, ConcatIs
<1>8. IsSequence(s4) /\ Len(s4) = Len(s3) + n(4) /\ Len(s4) \in Nat
    <2> HIDE DEF s3
    <2> QED
        BY <1>5, <1>7, ConcatIs, SMTT(60)
<1>9. Payload(fields) = s5 /\ Len(s5) = Len(s4) + n(5) /\ Len(s5) \in Nat
    <2>1. Payload(fields) = s5
        BY <1>3
    <2> HIDE DEF s4
    <2> QED
        BY <1>5, <1>8, <2>1, ConcatIs
<1>10. Lies(f, k, s4) /\ Lies(f, k + Len(s4), part(5))
    <2>1. Lies(f, k, s4 \o part(5))
        BY <1>9
    <2> HIDE DEF s4
    <2> QED
        BY <1>5, <1>8, <2>1, LiesSplit
<1>11. Lies(f, k, s3) /\ Lies(f, k + Len(s3), part(4))
    <2>1. Lies(f, k, s3 \o part(4))
        BY <1>10
    <2> HIDE DEF s3, s4
    <2> QED
        BY <1>5, <1>7, <2>1, LiesSplit
<1>12. Lies(f, k, s2) /\ Lies(f, k + Len(s2), part(3))
    <2>1. Lies(f, k, s2 \o part(3))
        BY <1>11
    <2> HIDE DEF s2, s3, s4
    <2> QED
        BY <1>5, <1>6, <2>1, LiesSplit
<1>13. Lies(f, k, part(1)) /\ Lies(f, k + n(1), part(2))
    <2>1. Lies(f, k, part(1) \o part(2))
        BY <1>12
    <2> HIDE DEF s2, s3, s4
    <2> QED
        BY <1>5, <2>1, LiesSplit
<1> HIDE DEF s2, s3, s4, s5
<1>14. Reads(0, k, p0)
    <2>1. UpTo(fields, 0) = <<>>
        BY SeqIs DEF UpTo, IsFields
    <2> QED
        BY <2>1 DEF Reads
<1> HIDE DEF n, p0, p1, p2, p3, p4, p5
<1>15. Reads(1, k + n(1), p1)
    BY <1>2, <1>13, <1>14 DEF n, p1
<1>16. Reads(2, k + Len(s2), p2)
    <2>1. Reads(2, k + n(1) + n(2), p2)
        BY <1>2, <1>13, <1>15 DEF n, p2
    <2>2. k + n(1) + n(2) = k + Len(s2)
        BY <1>5, <1>6
    <2> QED
        BY <2>1, <2>2
<1>17. Reads(3, k + Len(s3), p3)
    <2>1. Reads(3, k + Len(s2) + n(3), p3)
        BY <1>2, <1>12, <1>16 DEF n, p3
    <2>2. k + Len(s2) + n(3) = k + Len(s3)
        BY SMTT(60), <1>5, <1>6, <1>7
    <2> QED
        BY <2>1, <2>2
<1>18. Reads(4, k + Len(s4), p4)
    <2>1. Reads(4, k + Len(s3) + n(4), p4)
        BY <1>2, <1>11, <1>17 DEF n, p4
    <2>2. k + Len(s3) + n(4) = k + Len(s4)
        BY <1>5, <1>7, <1>8, SMTT(60)
    <2> QED
        BY <2>1, <2>2
<1>19. Reads(5, k + Len(s5), p5)
    <2>1. Reads(5, k + Len(s4) + n(5), p5)
        BY <1>2, <1>10, <1>18 DEF n, p5
    <2>2. k + Len(s4) + n(5) = k + Len(s5)
        BY <1>5, <1>8, <1>9, SMTT(60)
    <2> QED
        BY <2>1, <2>2
<1>20. UpTo(fields, 5) = Values(fields)
    <2>1. Len(fields) \in Nat /\ Len(fields) <= 5
        BY SeqIs DEF IsFields
    <2>2. \A m \in Nat : m <= 5 => (IF 5 <= m THEN 5 ELSE m) = m
        OBVIOUS
    <2> QED
        BY <2>1, <2>2, Zenon DEF UpTo, Values
<1> QED
    BY <1>4, <1>9, <1>19, <1>20 DEF Reads, p0

LEMMA PayloadNoTags ==
    ASSUME NEW fields, NEW layout, IsFields(fields, layout)
    PROVE  NoTags(Payload(fields))
<1> DEFINE part(i) == Part(fields, i)
<1>1. NoTags(part(1)) /\ NoTags(part(2)) /\ NoTags(part(3)) /\ NoTags(part(4)) /\ NoTags(part(5))
    BY PartNoTags
<1>2. Payload(fields) = (((part(1) \o part(2)) \o part(3)) \o part(4)) \o part(5)
    BY DEF Payload, Part
<1> HIDE DEF part
<1>3. NoTags(part(1) \o part(2))
    BY <1>1, NoTagsConcat
<1>4. NoTags((part(1) \o part(2)) \o part(3))
    BY <1>1, <1>3, NoTagsConcat
<1>5. NoTags(((part(1) \o part(2)) \o part(3)) \o part(4))
    BY <1>1, <1>4, NoTagsConcat
<1> QED
    BY <1>1, <1>2, <1>5, NoTagsConcat

-----------------------------------------------------------------------------
(* Records                                                                 *)

(* Bytes that the reader takes for a record with tag and values wherever   *)
(* they are in the body of a file: it reads all of them, or ends because   *)
(* the file does.                                                          *)
BodyCodes(b, tag, v) ==
    /\ b[1] = Tag(tag) /\ Len(b) >= 1 /\ IsSequence(b)
    /\ \A j \in 2 .. Len(b) : b[j][1] # "tag"
    /\ \A f : \A k \in Nat :
          IsSequence(f) /\ k <= Len(f) /\ Lies(f, k, b) =>
              LET p == ReadRecord(f, k, Tags) IN
              IF k = Len(f) THEN p.status = "end"
              ELSE IF k + Len(b) <= Len(f) THEN p = Ok(tag, k + Len(b), v)
              ELSE p.status = "eof"

(* The same in the header, which is never cut.                             *)
HeaderCodes(b, tag, v) ==
    /\ b[1] = Tag(tag) /\ Len(b) >= 1 /\ IsSequence(b)
    /\ \A j \in 2 .. Len(b) : b[j][1] # "tag"
    /\ \A f : \A k \in Nat :
          IsSequence(f) /\ k + Len(b) <= Len(f) /\ Lies(f, k, b) =>
              ReadHeaderRecord(f, k) = Ok(tag, k + Len(b), v)

LEMMA TaggedIs ==
    ASSUME NEW tag, NEW b, NoTags(b)
    PROVE  LET c == <<Tag(tag)>> \o b IN
           /\ c[1] = Tag(tag) /\ Len(c) = 1 + Len(b) /\ Len(b) \in Nat /\ IsSequence(c)
           /\ \A j \in 2 .. Len(c) : c[j][1] # "tag"
           /\ \A f : \A k \in Nat :
                 IsSequence(f) /\ Lies(f, k, c) =>
                     Lies(f, k + 1, b) /\ (k < Len(f) => f[k + 1] = Tag(tag))
<1> DEFINE h == <<Tag(tag)>>
           c == h \o b
<1>1. IsSequence(h) /\ Len(h) = 1 /\ h[1] = Tag(tag) /\ IsSequence(b) /\ Len(b) \in Nat
    BY SingleIs, SeqIs DEF NoTags
<1> HIDE DEF h
<1>2. IsSequence(c) /\ Len(c) = 1 + Len(b) /\ c[1] = Tag(tag) /\ \A i \in 1 .. Len(b) : c[1 + i] = b[i]
    <2>1. /\ IsSequence(c) /\ Len(c) = Len(h) + Len(b)
          /\ \A i \in 1 .. Len(h) : c[i] = h[i]
          /\ \A i \in 1 .. Len(b) : c[Len(h) + i] = b[i]
        <3>1. IsSequence(c) /\ Len(c) = Len(h) + Len(b)
            BY <1>1, ConcatIs
        <3>2. \A i \in 1 .. Len(h) : c[i] = h[i]
            BY <1>1, ConcatIs
        <3>3. \A i \in 1 .. Len(b) : c[Len(h) + i] = b[i]
            <4>1. IsSequence(h) /\ IsSequence(b)
                BY <1>1
            <4> QED
                BY <4>1, ConcatRight
        <3> QED
            BY <3>1, <3>2, <3>3
    <2>2. 1 \in 1 .. Len(h)
        BY <1>1
    <2> QED
        BY <1>1, <2>1, <2>2
<1>3. ASSUME NEW j \in 2 .. Len(c)
      PROVE  c[j][1] # "tag"
    <2>1. j - 1 \in 1 .. Len(b) /\ 1 + (j - 1) = j
        BY <1>1, <1>2
    <2>2. c[j] = b[j - 1]
        BY <1>2, <2>1
    <2> QED
        BY <2>1, <2>2 DEF NoTags
<1>4. ASSUME NEW f, NEW k \in Nat, IsSequence(f), Lies(f, k, c)
      PROVE  Lies(f, k + 1, b) /\ (k < Len(f) => f[k + 1] = Tag(tag))
    <2>1. Lies(f, k, h) /\ Lies(f, k + 1, b) /\ Len(f) \in Nat
        BY <1>1, <1>4, LiesSplit, SeqIs
    <2>2. ASSUME k < Len(f)
          PROVE  f[k + 1] = Tag(tag)
        <3>1. 1 \in 1 .. Len(h) /\ k + 1 <= Len(f)
            BY <1>1, <2>1, <2>2
        <3> QED
            BY <1>1, <2>1, <3>1 DEF Lies
    <2> QED
        BY <2>1, <2>2
<1> QED
    BY <1>1, <1>2, <1>3, <1>4 DEF h

LEMMA TagAtIs ==
    ASSUME NEW f, NEW k, k < Len(f), NEW tag, f[k + 1] = Tag(tag)
    PROVE  TagAt(f, k) = tag
BY DEF TagAt, Tag

LEMMA HeaderCoded ==
    ASSUME NEW tag, tag # NoTag, NEW fields, IsFields(fields, HeaderLayout(tag))
    PROVE  HeaderCodes(HeaderRecord(tag, fields), tag, Values(fields))
<1> DEFINE b == Payload(fields)
           c == <<Tag(tag)>> \o b
<1>1. HeaderRecord(tag, fields) = c
    BY DEF HeaderRecord
<1>2. NoTags(b)
    BY PayloadNoTags
<1>3. /\ c[1] = Tag(tag) /\ Len(c) = 1 + Len(b) /\ Len(b) \in Nat /\ IsSequence(c)
      /\ \A j \in 2 .. Len(c) : c[j][1] # "tag"
    BY <1>2, TaggedIs
<1>4. ASSUME NEW f, NEW k \in Nat, IsSequence(f), k + Len(c) <= Len(f), Lies(f, k, c)
      PROVE  ReadHeaderRecord(f, k) = Ok(tag, k + Len(c), Values(fields))
    <2>1. Lies(f, k + 1, b) /\ (k < Len(f) => f[k + 1] = Tag(tag))
        BY <1>2, <1>4, TaggedIs
    <2>2. Len(f) \in Nat /\ k < Len(f) /\ k + 1 \in Nat /\ k + 1 <= Len(f)
          /\ k + 1 + Len(b) = k + Len(c) /\ k + 1 + Len(b) <= Len(f)
        BY <1>3, <1>4, SeqIs
    <2>3. TagAt(f, k) = tag
        BY <2>1, <2>2, TagAtIs
    <2>4. ReadFields(f, Ok(tag, k + 1, <<>>), HeaderLayout(tag)) = Ok(tag, k + 1 + Len(b), Values(fields))
        BY <1>4, <2>1, <2>2, PayloadRead
    <2>5. Parser(tag, k + 1) = Ok(tag, k + 1, <<>>)
        BY DEF Parser, Ok
    <2> QED
        BY <2>2, <2>3, <2>4, <2>5, Zenon DEF ReadHeaderRecord
<1> HIDE DEF c
<1>5. Len(c) >= 1
    BY <1>3
<1> QED
    BY <1>1, <1>3, <1>4, <1>5 DEF HeaderCodes


(* A record of the body is its tag, its size and the rest.                 *)
Sized(tag, size, b, f, k, c, e, p) ==
    /\ size \in Int /\ NoTags(b) /\ IsSequence(f) /\ k \in Nat /\ k < Len(f)
    /\ c = <<Tag(tag)>> \o (Varint(size) \o b) /\ Lies(f, k, c)
    /\ e = k + 1 + Len(Varint(size)) /\ p = ReadNumber(f, Parser(tag, k + 1))

LEMMA SizedIs ==
    ASSUME NEW tag, NEW size, NEW b, NEW f, NEW k, NEW c, NEW e, NEW p,
           Sized(tag, size, b, f, k, c, e, p)
    PROVE  /\ TagAt(f, k) = tag /\ e \in Nat /\ Lies(f, e, b)
           /\ k + Len(c) = e + Len(b) /\ Len(b) \in Nat
           /\ e <= Len(f) => /\ p.status = "ok" /\ [p EXCEPT !.values = <<>>] = Ok(tag, e, <<>>)
                             /\ IsInt32(size) => Last(p.values) = size
           /\ e > Len(f) => p.status = "eof"
<1> DEFINE n == Varint(size)
<1>0. /\ size \in Int /\ NoTags(b) /\ IsSequence(f) /\ k \in Nat /\ k < Len(f)
      /\ c = <<Tag(tag)>> \o (Varint(size) \o b) /\ Lies(f, k, c)
      /\ e = k + 1 + Len(Varint(size)) /\ p = ReadNumber(f, Parser(tag, k + 1))
    BY DEF Sized
<1> USE <1>0
<1>1. NoTags(n)
    BY NumberNoTags
<1>2. NoTags(n \o b) /\ Len(n \o b) = Len(n) + Len(b) /\ Len(n) \in Nat /\ Len(b) \in Nat
    BY <1>1, NoTagsConcat
<1>3. IsSequence(n) /\ IsSequence(b) /\ IsSequence(n \o b)
    BY <1>1, <1>2 DEF NoTags
<1>4. Len(c) = 1 + Len(n \o b) /\ Lies(f, k + 1, n \o b) /\ f[k + 1] = Tag(tag)
    BY <1>2, TaggedIs
<1>5. Lies(f, k + 1, n) /\ Lies(f, k + 1 + Len(n), b)
    <2> HIDE DEF n
    <2> QED
        BY <1>3, <1>4, LiesSplit
<1>6. TagAt(f, k) = tag
    BY <1>4, TagAtIs
<1>7. Parser(tag, k + 1) = Ok(tag, k + 1, <<>>)
    BY DEF Parser, Ok
<1>8. /\ e <= Len(f) => ReadNumber(f, Ok(tag, k + 1, <<>>))
                        = Ok(tag, e, Append(<<>>, Wrap(size)))
      /\ e > Len(f) => ReadNumber(f, Ok(tag, k + 1, <<>>)) = Failed(Ok(tag, k + 1, <<>>), "eof")
    <2>1. k + 1 \in Nat
        OBVIOUS
    <2> QED
        <3> DEFINE j == k + 1
        <3>1. j \in Nat /\ Lies(f, j, Varint(size)) /\ e = j + Len(Varint(size))
            BY <1>5
        <3> HIDE DEF j
        <3>2. ASSUME NEW vs
              PROVE  /\ e <= Len(f) => ReadNumber(f, Ok(tag, j, vs))
                                = Ok(tag, e, Append(vs, Wrap(size)))
                     /\ e > Len(f) => ReadNumber(f, Ok(tag, j, vs)) = Failed(Ok(tag, j, vs), "eof")
            BY <3>1, NumberRead
        <3> QED
            BY <3>2, Zenon DEF j
<1>9. IsInt32(size) => Wrap(size) = size
    BY WrapIs
<1>10. k + 1 + 1 = k + 2 /\ e \in Nat /\ k + Len(c) = e + Len(b)
    <2>1. e = k + 1 + Len(n) /\ Len(c) = 1 + Len(n \o b)
        BY <1>4
    <2> HIDE DEF n
    <2> QED
        BY <1>2, <2>1
<1>11. Failed(Ok(tag, k + 1, <<>>), "eof").status = "eof"
    BY DEF Failed, Ok
<1>12. p = ReadNumber(f, Ok(tag, k + 1, <<>>))
    BY <1>7
<1>13. ASSUME e <= Len(f)
       PROVE  /\ p.status = "ok" /\ [p EXCEPT !.values = <<>>] = Ok(tag, e, <<>>)
              /\ IsInt32(size) => Last(p.values) = size
    <2> DEFINE x == Wrap(size)
           y == Append(<<>>, x)
    <2>1. p = Ok(tag, e, y)
        BY <1>8, <1>12, <1>13, Zenon
    <2> HIDE DEF x
    <2>3. Len(y) = 1 /\ y[1] = x
        BY AppendIs, EmptyIs
    <2> HIDE DEF y
    <2>2. p.status = "ok" /\ [p EXCEPT !.values = <<>>] = Ok(tag, e, <<>>) /\ p.values = y
        <3>1. \A z : z = Ok(tag, e, y) =>
                 z.status = "ok" /\ [z EXCEPT !.values = <<>>] = Ok(tag, e, <<>>) /\ z.values = y
            BY OkIs
        <3> QED
            BY <2>1, <3>1, Zenon
    <2>4. Last(p.values) = x
        BY <2>2, <2>3 DEF Last
    <2> QED
        BY <1>9, <1>13, <2>2, <2>4 DEF x
<1>14. e > Len(f) => p.status = "eof"
    BY <1>8, <1>11, <1>12
<1> QED
    BY <1>2, <1>5, <1>6, <1>10, <1>13, <1>14

LEMMA SizedTags ==
    ASSUME NEW tag, NEW size \in Int, NEW b, NoTags(b)
    PROVE  LET c == <<Tag(tag)>> \o (Varint(size) \o b) IN
           /\ c[1] = Tag(tag) /\ Len(c) >= 1 /\ IsSequence(c)
           /\ \A j \in 2 .. Len(c) : c[j][1] # "tag"
<1> DEFINE r == Varint(size) \o b
           c == <<Tag(tag)>> \o r
<1>1. NoTags(r)
    BY NumberNoTags, NoTagsConcat
<1> HIDE DEF r
<1>2. /\ c[1] = Tag(tag) /\ Len(c) = 1 + Len(r) /\ Len(r) \in Nat /\ IsSequence(c)
      /\ \A j \in 2 .. Len(c) : c[j][1] # "tag"
    BY <1>1, TaggedIs
<1> HIDE DEF c
<1>3. Len(c) >= 1
    BY <1>2
<1> QED
    BY <1>2, <1>3 DEF c, r

LEMMA BodyCoded ==
    ASSUME NEW tag \in Tags, NEW fields, IsFields(fields, Layout(tag)), NEW size \in Int
    PROVE  BodyCodes(<<Tag(tag)>> \o (Varint(size) \o Payload(fields)), tag, Values(fields))
<1> DEFINE b == Payload(fields)
           c == <<Tag(tag)>> \o (Varint(size) \o b)
<1>1. NoTags(b)
    BY PayloadNoTags
<1>2. /\ c[1] = Tag(tag) /\ Len(c) >= 1 /\ IsSequence(c)
      /\ \A j \in 2 .. Len(c) : c[j][1] # "tag"
    BY <1>1, SizedTags
<1>3. tag # NoTag
    BY DEF Tags, NoTag
<1>4. ASSUME NEW f, NEW k \in Nat, IsSequence(f), k <= Len(f), Lies(f, k, c)
      PROVE  LET p == ReadRecord(f, k, Tags) IN
             IF k = Len(f) THEN p.status = "end"
             ELSE IF k + Len(c) <= Len(f) THEN p = Ok(tag, k + Len(c), Values(fields))
             ELSE p.status = "eof"
    <2> DEFINE p == ReadRecord(f, k, Tags)
               e == k + 1 + Len(Varint(size))
               q == ReadNumber(f, Parser(tag, k + 1))
    <2>1. Len(f) \in Nat
        BY <1>4, SeqIs
    <2>2. CASE k = Len(f)
        BY <2>2 DEF ReadRecord, Failed, Parser
    <2>3. CASE k # Len(f)
        <3>1. k < Len(f)
            BY <1>4, <2>1, <2>3
        <3>2. /\ TagAt(f, k) = tag /\ e \in Nat /\ Lies(f, e, b) /\ k + Len(c) = e + Len(b)
              /\ Len(b) \in Nat
              /\ e <= Len(f) => q.status = "ok" /\ [q EXCEPT !.values = <<>>] = Ok(tag, e, <<>>)
              /\ e > Len(f) => q.status = "eof"
            <4>1. Sized(tag, size, b, f, k, c, e, q)
                BY <1>1, <1>4, <3>1 DEF Sized
            <4> HIDE DEF c, e, q, b
            <4> QED
                BY <4>1, SizedIs
        <3> HIDE DEF e, c, b
        <3>3. CASE e <= Len(f)
            <4>1. q.status = "ok" /\ [q EXCEPT !.values = <<>>] = Ok(tag, e, <<>>)
                BY <3>2, <3>3
            <4>2. p = ReadFields(f, Ok(tag, e, <<>>), Layout(tag))
                BY <1>3, <2>3, <3>2, <4>1, Zenon DEF ReadRecord
            <4>3. IF e + Len(b) <= Len(f)
                  THEN ReadFields(f, Ok(tag, e, <<>>), Layout(tag)) = Ok(tag, e + Len(b), Values(fields))
                  ELSE ReadFields(f, Ok(tag, e, <<>>), Layout(tag)).status = "eof"
                BY <1>4, <3>2, <3>3, PayloadRead DEF b
            <4> QED
                BY <2>3, <3>2, <4>2, <4>3
        <3>4. CASE ~(e <= Len(f))
            <4>1. e > Len(f) /\ ~(k + Len(c) <= Len(f)) /\ q.status = "eof"
                BY <2>1, <3>2, <3>4
            <4>2. p = q
                BY <1>3, <2>3, <3>2, <4>1, Zenon DEF ReadRecord
            <4> QED
                BY <2>3, <4>1, <4>2
        <3> QED
            BY <3>3, <3>4
    <2> QED
        BY <2>2, <2>3
<1> HIDE DEF c
<1> QED
    BY <1>2, <1>4 DEF BodyCodes, c

(* A record that the reader does not know.                                 *)
LEMMA LaterCoded ==
    ASSUME NEW n \in Nat, IsInt32(n)
    PROVE  BodyCodes(LaterRecord(n), "LATER", <<>>)
<1> DEFINE b == [i \in 1 .. n |-> Byte(130)]
           c == <<Tag("LATER")>> \o (Varint(n) \o b)
<1>0. n \in Int
    OBVIOUS
<1>1. NoTags(b) /\ Len(b) = n
    <2>1. b \in Seq({Byte(130)}) /\ Len(b) = n
        OBVIOUS
    <2>2. \A j \in 1 .. n : b[j][1] # "tag"
        BY DEF Byte
    <2> QED
        BY <2>1, <2>2 DEF NoTags, IsSequence
<1>2. LaterRecord(n) = c
    BY DEF LaterRecord
<1> HIDE DEF b
<1>3. /\ c[1] = Tag("LATER") /\ Len(c) >= 1 /\ IsSequence(c)
      /\ \A j \in 2 .. Len(c) : c[j][1] # "tag"
    BY <1>0, <1>1, SizedTags, Zenon
<1>4. "LATER" \notin Tags /\ "LATER" # NoTag
    BY DEF Tags, NoTag
<1>5. ASSUME NEW f, NEW k \in Nat, IsSequence(f), k <= Len(f), Lies(f, k, c)
      PROVE  LET p == ReadRecord(f, k, Tags) IN
             IF k = Len(f) THEN p.status = "end"
             ELSE IF k + Len(c) <= Len(f) THEN p = Ok("LATER", k + Len(c), <<>>)
             ELSE p.status = "eof"
    <2> DEFINE p == ReadRecord(f, k, Tags)
               e == k + 1 + Len(Varint(n))
               q == ReadNumber(f, Parser("LATER", k + 1))
    <2>1. Len(f) \in Nat
        BY <1>5, SeqIs
    <2>2. CASE k = Len(f)
        BY <2>2 DEF ReadRecord, Failed, Parser
    <2>3. CASE k # Len(f)
        <3>1. k < Len(f)
            BY <1>5, <2>1, <2>3
        <3>2. /\ TagAt(f, k) = "LATER" /\ e \in Nat /\ k + Len(c) = e + Len(b)
              /\ e <= Len(f) => /\ q.status = "ok" /\ [q EXCEPT !.values = <<>>] = Ok("LATER", e, <<>>)
                                /\ Last(q.values) = n
              /\ e > Len(f) => q.status = "eof"
            <4>1. Sized("LATER", n, b, f, k, c, e, q)
                BY <1>1, <1>0, <1>5, <3>1 DEF Sized
            <4> HIDE DEF c, e, q, b
            <4> QED
                BY <1>0, <1>1, <4>1, SizedIs
        <3> HIDE DEF e, c
        <3>3. CASE e <= Len(f)
            <4> DEFINE body == [q EXCEPT !.values = <<>>]
            <4>2. q.status = "ok" /\ body = Ok("LATER", e, <<>>)
                BY <3>2, <3>3
            <4>3. Last(q.values) = n
                BY <3>2, <3>3
            <4> HIDE DEF body
            <4>4. body.at = e /\ [body EXCEPT !.at = @ + n] = Ok("LATER", e + n, <<>>)
                BY <4>2 DEF Ok
            <4> USE DEF body
            <4>5. CASE e + n <= Len(f)
                <5>1. ~(body.at + n > Len(f))
                    BY <2>1, <3>2, <4>4, <4>5
                <5>2. p = [body EXCEPT !.at = @ + n]
                    BY <1>4, <2>3, <3>2, <4>2, <4>3, <5>1, Zenon DEF ReadRecord
                <5> QED
                    BY <1>1, <2>3, <3>2, <4>4, <4>5, <5>2
            <4>6. CASE ~(e + n <= Len(f))
                <5>1. body.at + n > Len(f)
                    BY <2>1, <3>2, <4>4, <4>6
                <5>2. p = Failed(body, "eof")
                    BY <1>4, <2>3, <3>2, <4>2, <4>3, <5>1, Zenon DEF ReadRecord
                <5>3. p.status = "eof"
                    BY <4>2, <5>2 DEF Failed, Ok
                <5> QED
                    BY <1>1, <2>3, <3>2, <4>6, <5>3
            <4> QED
                BY <4>5, <4>6
        <3>4. CASE ~(e <= Len(f))
            <4>1. e > Len(f) /\ ~(k + Len(c) <= Len(f)) /\ q.status = "eof"
                BY <1>1, <2>1, <3>2, <3>4
            <4>2. p = q
                BY <1>4, <2>3, <3>2, <4>1, Zenon DEF ReadRecord
            <4> QED
                BY <2>3, <4>1, <4>2
        <3> QED
            BY <3>3, <3>4
    <2> QED
        BY <2>2, <2>3
<1> HIDE DEF c
<1> QED
    BY <1>2, <1>3, <1>5 DEF BodyCodes

LEMMA DeclaredIs ==
    ASSUME NEW tag, NEW fields, NEW layout, IsFields(fields, layout)
    PROVE  DeclaredSize(tag, fields) \in Int
<1> DEFINE fieldSize(f) == IF f[1] = "number" THEN varint_size(f[2])
                           ELSE IF tag = "CUSTOM_META" THEN Size[f[2]] ELSE string_size(f[2])
           part(i) == IF i <= Len(fields) THEN fieldSize(fields[i]) ELSE 0
<1>1. \A x : varint_size(x) \in Int
    BY DEF varint_size
<1>2. ASSUME NEW f, IsField(f)
      PROVE  fieldSize(f) \in Int
    <2>1. ASSUME f[1] # "number"
          PROVE  Size[f[2]] \in Int
        <3>1. f[2] \in Strings
            BY <1>2, <2>1, StringsAssumption DEF IsField
        <3>2. Size[f[2]] \in Nat
            BY <3>1, CharsIs
        <3> QED
            BY <3>2
    <2> QED
        BY <1>1, <2>1 DEF string_size
<1>3. ASSUME NEW i \in {1, 2, 3, 4, 5}
      PROVE  part(i) \in Int
    <2>1. CASE i <= Len(fields)
        <3>1. i \in 1 .. Len(fields)
            BY <2>1, SeqIs DEF IsFields
        <3>2. IsField(fields[i])
            BY <3>1 DEF IsFields
        <3> HIDE DEF fieldSize
        <3> QED
            BY <1>2, <2>1, <3>2
    <2>2. CASE ~(i <= Len(fields))
        BY <2>2
    <2> QED
        BY <2>1, <2>2
<1>4. DeclaredSize(tag, fields) = part(1) + part(2) + part(3) + part(4) + part(5)
    BY DEF DeclaredSize
<1> HIDE DEF part
<1> QED
    BY <1>3, <1>4

LEMMA RecordCoded ==
    ASSUME NEW tag \in Tags, NEW fields, IsFields(fields, Layout(tag))
    PROVE  BodyCodes(Record(tag, fields), tag, Values(fields))
<1>1. DeclaredSize(tag, fields) \in Int
    BY DeclaredIs
<1> QED
    BY <1>1, BodyCoded DEF Record

(* The fields of each record.                                              *)
LEMMA NumIs ==
    ASSUME NEW v, IsInt32(v)
    PROVE  IsField(Num(v)) /\ Num(v)[1] = "number" /\ FieldValue(Num(v)) = v
BY WrapIs DEF IsField, Num, FieldValue, IsInt32

LEMMA StrIs ==
    ASSUME NEW s \in Strings
    PROVE  IsField(Str(s)) /\ Str(s)[1] = "string" /\ FieldValue(Str(s)) = s
BY DEF IsField, Str, FieldValue

LEMMA NoFields == IsFields(<<>>, <<>>)
BY EmptyIs DEF IsFields

LEMMA OneField ==
    ASSUME NEW a, IsField(a)
    PROVE  LET s == <<a>> IN
           /\ IsFields(s, <<a[1]>>)
           /\ Values(s)[1] = FieldValue(a)
<1> DEFINE s == <<a>>
           l == <<a[1]>>
<1>1. s \in Seq({a}) /\ l \in Seq({a[1]})
    OBVIOUS
<1>2. /\ Len(s) = 1 /\ s[1] = a
      /\ Len(l) = 1 /\ l[1] = a[1]
    OBVIOUS
<1>3. \A i \in 1 .. 1 : i = 1
    OBVIOUS
<1> HIDE DEF s, l
<1>4. IsFields(s, l)
    BY <1>1, <1>2, <1>3 DEF IsFields, IsSequence
<1>5. Values(s)[1] = FieldValue(a)
    BY <1>2 DEF Values
<1> QED
    BY <1>4, <1>5 DEF s, l

LEMMA TwoFields ==
    ASSUME NEW a, NEW b, IsField(a), IsField(b)
    PROVE  LET s == <<a, b>> IN
           /\ IsFields(s, <<a[1], b[1]>>)
           /\ Values(s)[1] = FieldValue(a) /\ Values(s)[2] = FieldValue(b)
<1> DEFINE s == <<a, b>>
           l == <<a[1], b[1]>>
<1>1. s \in Seq({a, b}) /\ l \in Seq({a[1], b[1]})
    OBVIOUS
<1>2. /\ Len(s) = 2 /\ s[1] = a /\ s[2] = b
      /\ Len(l) = 2 /\ l[1] = a[1] /\ l[2] = b[1]
    OBVIOUS
<1>3. \A i \in 1 .. 2 : i = 1 \/ i = 2
    OBVIOUS
<1> HIDE DEF s, l
<1>4. IsFields(s, l)
    BY <1>1, <1>2, <1>3 DEF IsFields, IsSequence
<1>5. Values(s)[1] = FieldValue(a) /\ Values(s)[2] = FieldValue(b)
    BY <1>2 DEF Values
<1> QED
    BY <1>4, <1>5 DEF s, l

LEMMA ThreeFields ==
    ASSUME NEW a, NEW b, NEW c, IsField(a), IsField(b), IsField(c)
    PROVE  LET s == <<a, b, c>> IN
           /\ IsFields(s, <<a[1], b[1], c[1]>>)
           /\ Values(s)[2] = FieldValue(b) /\ Values(s)[3] = FieldValue(c)
<1> DEFINE s == <<a, b, c>>
           l == <<a[1], b[1], c[1]>>
<1>1. s \in Seq({a, b, c}) /\ l \in Seq({a[1], b[1], c[1]})
    OBVIOUS
<1>2. /\ Len(s) = 3 /\ s[1] = a /\ s[2] = b /\ s[3] = c
      /\ Len(l) = 3 /\ l[1] = a[1] /\ l[2] = b[1] /\ l[3] = c[1]
    OBVIOUS
<1>3. \A i \in 1 .. 3 : i = 1 \/ i = 2 \/ i = 3
    OBVIOUS
<1> HIDE DEF s, l
<1>4. IsFields(s, l)
    BY <1>1, <1>2, <1>3 DEF IsFields, IsSequence
<1>5. Values(s)[2] = FieldValue(b) /\ Values(s)[3] = FieldValue(c)
    BY <1>2 DEF Values
<1> QED
    BY <1>4, <1>5 DEF s, l

LEMMA FourFields ==
    ASSUME NEW a, NEW b, NEW c, NEW d, IsField(a), IsField(b), IsField(c), IsField(d)
    PROVE  LET s == <<a, b, c, d>> IN
           IsFields(s, <<a[1], b[1], c[1], d[1]>>)
<1> DEFINE s == <<a, b, c, d>>
           l == <<a[1], b[1], c[1], d[1]>>
<1>1. s \in Seq({a, b, c, d}) /\ l \in Seq({a[1], b[1], c[1], d[1]})
    OBVIOUS
<1>2. /\ Len(s) = 4 /\ s[1] = a /\ s[2] = b /\ s[3] = c /\ s[4] = d
      /\ Len(l) = 4 /\ l[1] = a[1] /\ l[2] = b[1] /\ l[3] = c[1] /\ l[4] = d[1]
    OBVIOUS
<1>3. \A i \in 1 .. 4 : i = 1 \/ i = 2 \/ i = 3 \/ i = 4
    OBVIOUS
<1> HIDE DEF s, l
<1>4. IsFields(s, l)
    BY <1>1, <1>2, <1>3 DEF IsFields, IsSequence
<1> QED
    BY <1>4 DEF s, l

LEMMA FiveFields ==
    ASSUME NEW a, NEW b, NEW c, NEW d, NEW e,
           IsField(a), IsField(b), IsField(c), IsField(d), IsField(e)
    PROVE  LET s == <<a, b, c, d, e>> IN
           /\ IsFields(s, <<a[1], b[1], c[1], d[1], e[1]>>)
           /\ Values(s)[2] = FieldValue(b) /\ Values(s)[3] = FieldValue(c)
           /\ Values(s)[4] = FieldValue(d) /\ Values(s)[5] = FieldValue(e)
<1> DEFINE s == <<a, b, c, d, e>>
           l == <<a[1], b[1], c[1], d[1], e[1]>>
<1>1. s \in Seq({a, b, c, d, e}) /\ l \in Seq({a[1], b[1], c[1], d[1], e[1]})
    OBVIOUS
<1>2. /\ Len(s) = 5 /\ s[1] = a /\ s[2] = b /\ s[3] = c /\ s[4] = d /\ s[5] = e
      /\ Len(l) = 5 /\ l[1] = a[1] /\ l[2] = b[1] /\ l[3] = c[1] /\ l[4] = d[1] /\ l[5] = e[1]
    OBVIOUS
<1>3. \A i \in 1 .. 5 : i = 1 \/ i = 2 \/ i = 3 \/ i = 4 \/ i = 5
    OBVIOUS
<1> HIDE DEF s, l
<1>4. IsFields(s, l)
    BY <1>1, <1>2, <1>3 DEF IsFields, IsSequence
<1>5. /\ Values(s)[2] = FieldValue(b) /\ Values(s)[3] = FieldValue(c)
      /\ Values(s)[4] = FieldValue(d) /\ Values(s)[5] = FieldValue(e)
    BY <1>2 DEF Values
<1> QED
    BY <1>4, <1>5 DEF s, l

-----------------------------------------------------------------------------
(* The records that are written                                            *)

LEMMA NoTextIs == NoText # "BEGIN"
BY DEF NoText

LEMMA TextsAre ==
    /\ {"op", "main", "meta", NoText, "id", Plain} \subseteq Strings
    /\ Sections \subseteq Strings /\ MetaKeys \subseteq Strings /\ MetaValues \subseteq Strings
    /\ Names \subseteq Strings /\ Files \subseteq Strings
    /\ \A n \in Evals : Source[n] \in Strings /\ IsInt32(n) /\ EvalName[n] # NoText
    /\ \A v \in Weights \cup Lines \cup FirstLines : IsInt32(v)
    /\ \A w \in Weights : w \in Nat
<1>1. /\ {"op", "main", "meta", Plain} \cup Sections \cup MetaKeys \cup MetaValues \cup Names \subseteq Strings
      /\ EvalName \in [Evals -> Strings \ {NoText}] /\ Source \in [Evals -> Strings]
      /\ \A v \in Evals \cup Weights \cup Lines \cup FirstLines : IsInt32(v)
      /\ Weights \subseteq Nat
    BY TextsAssumption DEF Evals
<1>2. {NoText, "id"} \subseteq Strings
    BY StringsAssumption
<1>3. \A n \in Evals : EvalName[n] \in Strings /\ EvalName[n] # NoText /\ Source[n] \in Strings
    BY <1>1
<1>4. Files \subseteq Strings
    BY <1>1, <1>3 DEF Files
<1> QED
    BY <1>1, <1>2, <1>3, <1>4

LEMMA SampleCoded ==
    ASSUME NEW w, IsInt32(w), NEW s \in Strings
    PROVE  \E v : /\ BodyCodes(Record("SAMPLE_START", <<Num(w), Str(s)>>), "SAMPLE_START", v)
                  /\ v[1] = w
<1> DEFINE fields == <<Num(w), Str(s)>>
<1>1. IsFields(fields, <<"number", "string">>) /\ Values(fields)[1] = w
    BY NumIs, StrIs, TwoFields
<1>2. Layout("SAMPLE_START") = <<"number", "string">> /\ "SAMPLE_START" \in Tags
    BY DEF Layout, Tags
<1> HIDE DEF fields
<1>3. BodyCodes(Record("SAMPLE_START", fields), "SAMPLE_START", Values(fields))
    BY <1>1, <1>2, RecordCoded
<1> QED
    BY <1>1, <1>3 DEF fields

LEMMA PlainCoded ==
    ASSUME NEW tag \in {"SAMPLE_END", "FILE_END", "STREAM_END"}
    PROVE  \E v : BodyCodes(Record(tag, <<>>), tag, v)
<1>1. Layout(tag) = <<>> /\ tag \in Tags
    BY DEF Layout, Tags
<1> QED
    BY <1>1, NoFields, RecordCoded

LEMMA SourceCoded ==
    ASSUME NEW n \in Evals
    PROVE  \E v : /\ BodyCodes(Record("EVAL_SEQ", <<Str(Source[n]), Num(n)>>), "EVAL_SEQ", v)
                  /\ v[1] = Source[n] /\ v[2] = n
<1> DEFINE fields == <<Str(Source[n]), Num(n)>>
<1>1. IsFields(fields, <<"string", "number">>) /\ Values(fields)[1] = Source[n] /\ Values(fields)[2] = n
    <2> DEFINE a == Str(Source[n])
               b == Num(n)
    <2>1. IsField(a) /\ a[1] = "string" /\ FieldValue(a) = Source[n]
        BY TextsAre, StrIs
    <2>2. IsField(b) /\ b[1] = "number" /\ FieldValue(b) = n
        BY TextsAre, NumIs
    <2> HIDE DEF a, b
    <2>3. fields = <<a, b>>
        BY DEF a, b
    <2> HIDE DEF fields
    <2> QED
        BY <2>1, <2>2, <2>3, TwoFields
<1>2. Layout("EVAL_SEQ") = <<"string", "number">> /\ "EVAL_SEQ" \in Tags
    BY DEF Layout, Tags
<1> HIDE DEF fields
<1>3. BodyCodes(Record("EVAL_SEQ", fields), "EVAL_SEQ", Values(fields))
    BY <1>1, <1>2, RecordCoded
<1> QED
    BY <1>1, <1>3 DEF fields

LEMMA SectionCoded ==
    ASSUME NEW s \in Sections, NEW tag \in {"SECTION_START", "SECTION_END"}
    PROVE  \E v : BodyCodes(Record(tag, <<Str(s)>>), tag, v) /\ v[1] = s
<1> DEFINE fields == <<Str(s)>>
<1>1. IsFields(fields, <<"string">>) /\ Values(fields)[1] = s
    BY TextsAre, StrIs, OneField
<1>2. Layout(tag) = <<"string">> /\ tag \in Tags
    BY DEF Layout, Tags
<1> HIDE DEF fields
<1>3. BodyCodes(Record(tag, fields), tag, Values(fields))
    BY <1>1, <1>2, RecordCoded
<1> QED
    BY <1>1, <1>3 DEF fields

LEMMA MetaCoded ==
    ASSUME NEW k \in Strings, NEW x \in Strings
    PROVE  \E v : /\ BodyCodes(Record("CUSTOM_META", <<Str(k), Str(x)>>), "CUSTOM_META", v)
                  /\ v[1] = k /\ v[2] = x
<1> DEFINE fields == <<Str(k), Str(x)>>
<1>1. IsFields(fields, <<"string", "string">>) /\ Values(fields)[1] = k /\ Values(fields)[2] = x
    BY StrIs, TwoFields
<1>2. Layout("CUSTOM_META") = <<"string", "string">> /\ "CUSTOM_META" \in Tags
    BY DEF Layout, Tags
<1> HIDE DEF fields
<1>3. BodyCodes(Record("CUSTOM_META", fields), "CUSTOM_META", Values(fields))
    BY <1>1, <1>2, RecordCoded
<1> QED
    BY <1>1, <1>3 DEF fields

(* A frame before it is mapped.                                            *)
Raw(x) ==
    [x EXCEPT !.file = IF x.kind \in {"MAIN_FRAME", "XSUB_FRAME"} THEN FileName("file", x.file)
                       ELSE make_fullfile(x.file)]

LEMMA FrameCoded ==
    ASSUME NEW x \in Frames
    PROVE  \E v : /\ BodyCodes(Record(x.kind, FrameFields(x)), x.kind, v)
                  /\ FrameRead(x.kind, v) = Raw(x) /\ FileRead(x.kind, v) = x.file
                  /\ x.kind \in {"SUB_FRAME", "XSUB_FRAME"} /\ v[2] = "BEGIN" <=> x.name = "BEGIN"
                  /\ x.kind \in {"SUB_FRAME", "XSUB_FRAME", "EVAL_FRAME", "MAIN_FRAME"}
<1>1. CASE x \in SubFrames
    <2>1. PICK name \in Names, f \in Files, l \in Lines, first \in FirstLines :
                   x = Frame("SUB_FRAME", name, f, l, first)
        BY <1>1 DEF SubFrames
    <2> DEFINE fields == <<Str("main"), Str(name), Str(f), Num(l), Num(first)>>
    <2>2. x.kind = "SUB_FRAME" /\ x.name = name /\ x.file = f /\ FrameFields(x) = fields
        BY <2>1 DEF Frame, FrameFields
    <2>3. /\ IsFields(fields, <<"string", "string", "string", "number", "number">>)
          /\ Values(fields)[2] = name /\ Values(fields)[3] = f
          /\ Values(fields)[4] = l /\ Values(fields)[5] = first
        <3> DEFINE a == Str("main")
                   b == Str(name)
                   c == Str(f)
                   d == Num(l)
                   e == Num(first)
        <3>1. /\ IsField(a) /\ a[1] = "string"
              /\ IsField(b) /\ b[1] = "string" /\ FieldValue(b) = name
              /\ IsField(c) /\ c[1] = "string" /\ FieldValue(c) = f
            BY TextsAre, StrIs
        <3>2. /\ IsField(d) /\ d[1] = "number" /\ FieldValue(d) = l
              /\ IsField(e) /\ e[1] = "number" /\ FieldValue(e) = first
            BY TextsAre, NumIs
        <3> HIDE DEF a, b, c, d, e
        <3>3. fields = <<a, b, c, d, e>>
            BY DEF a, b, c, d, e
        <3> HIDE DEF fields
        <3> QED
            BY <3>1, <3>2, <3>3, FiveFields
    <2>4. Layout("SUB_FRAME") = <<"string", "string", "string", "number", "number">> /\ "SUB_FRAME" \in Tags
        BY DEF Layout, Tags
    <2> HIDE DEF fields
    <2>5. BodyCodes(Record("SUB_FRAME", fields), "SUB_FRAME", Values(fields))
        BY <2>3, <2>4, RecordCoded
    <2>6. /\ FrameRead("SUB_FRAME", Values(fields)) = Raw(x)
          /\ FileRead("SUB_FRAME", Values(fields)) = f
        BY <2>1, <2>3 DEF FrameRead, FileRead, Raw, Frame
    <2> QED
        BY <2>2, <2>3, <2>5, <2>6
<1>2. CASE x \in XSubFrames
    <2>1. PICK name \in Names \ {"BEGIN"} : x = Frame("XSUB_FRAME", name, NoText, -1, -1)
        BY <1>2 DEF XSubFrames
    <2> DEFINE fields == <<Str("main"), Str(name)>>
    <2>2. x.kind = "XSUB_FRAME" /\ x.name = name /\ x.file = NoText /\ FrameFields(x) = fields
        BY <2>1 DEF Frame, FrameFields
    <2>3. IsFields(fields, <<"string", "string">>) /\ Values(fields)[2] = name
        <3> DEFINE a == Str("main")
                   b == Str(name)
        <3>1. /\ IsField(a) /\ a[1] = "string"
              /\ IsField(b) /\ b[1] = "string" /\ FieldValue(b) = name
            BY TextsAre, StrIs
        <3> HIDE DEF a, b
        <3>2. fields = <<a, b>>
            BY DEF a, b
        <3> HIDE DEF fields
        <3> QED
            BY <3>1, <3>2, TwoFields
    <2>4. Layout("XSUB_FRAME") = <<"string", "string">> /\ "XSUB_FRAME" \in Tags
        BY DEF Layout, Tags
    <2> HIDE DEF fields
    <2>5. BodyCodes(Record("XSUB_FRAME", fields), "XSUB_FRAME", Values(fields))
        BY <2>3, <2>4, RecordCoded
    <2>6. /\ FrameRead("XSUB_FRAME", Values(fields)) = Raw(x)
          /\ FileRead("XSUB_FRAME", Values(fields)) = NoText
        <3> DEFINE v == Values(fields)
        <3>1. v[2] = name
            BY <2>3
        <3> HIDE DEF v
        <3>2. FrameRead("XSUB_FRAME", v) = Frame("XSUB_FRAME", name, FileName("file", NoText), -1, -1)
            BY <3>1 DEF FrameRead
        <3>3. Raw(x) = Frame("XSUB_FRAME", name, FileName("file", NoText), -1, -1)
            <4>1. Raw(x) = [x EXCEPT !.file = FileName("file", NoText)]
                BY <2>2 DEF Raw
            <4> QED
                BY <2>1, <4>1 DEF Frame
        <3> QED
            BY <3>2, <3>3 DEF FileRead, v
    <2> QED
        BY <2>2, <2>3, <2>5, <2>6
<1>3. ASSUME NEW kind \in {"EVAL_FRAME", "MAIN_FRAME"}, x \in FileFrames(kind)
      PROVE  \E v : /\ BodyCodes(Record(x.kind, FrameFields(x)), x.kind, v)
                    /\ FrameRead(x.kind, v) = Raw(x) /\ FileRead(x.kind, v) = x.file
                    /\ x.kind \in {"SUB_FRAME", "XSUB_FRAME"} /\ v[2] = "BEGIN" <=> x.name = "BEGIN"
                    /\ x.kind \in {"SUB_FRAME", "XSUB_FRAME", "EVAL_FRAME", "MAIN_FRAME"}
    <2>1. PICK f \in Files, l \in Lines : x = FileFrame(kind, f, l)
        BY <1>3 DEF FileFrames
    <2> DEFINE fields == <<Str(f), Num(l)>>
    <2>2. x.kind = kind /\ x.name = NoText /\ x.file = f /\ FrameFields(x) = fields
        BY <2>1 DEF FileFrame, Frame, FrameFields
    <2>3. IsFields(fields, <<"string", "number">>) /\ Values(fields)[1] = f /\ Values(fields)[2] = l
        <3> DEFINE a == Str(f)
                   b == Num(l)
        <3>1. IsField(a) /\ a[1] = "string" /\ FieldValue(a) = f
            BY TextsAre, StrIs
        <3>2. IsField(b) /\ b[1] = "number" /\ FieldValue(b) = l
            BY TextsAre, NumIs
        <3> HIDE DEF a, b
        <3>3. fields = <<a, b>>
            BY DEF a, b
        <3> HIDE DEF fields
        <3> QED
            BY <3>1, <3>2, <3>3, TwoFields
    <2>4. Layout(kind) = <<"string", "number">> /\ kind \in Tags
        BY DEF Layout, Tags
    <2> HIDE DEF fields
    <2>5. BodyCodes(Record(kind, fields), kind, Values(fields))
        BY <2>3, <2>4, RecordCoded
    <2>6. FrameRead(kind, Values(fields)) = Raw(x) /\ FileRead(kind, Values(fields)) = f
        <3> DEFINE v == Values(fields)
        <3>1. v[1] = f /\ v[2] = l
            BY <2>3
        <3> HIDE DEF v
        <3>2. CASE kind = "EVAL_FRAME"
            <4>1. FrameRead(kind, v) = FileFrame(kind, make_fullfile(f), l) /\ FileRead(kind, v) = f
                BY <3>1, <3>2 DEF FrameRead, FileRead
            <4>2. Raw(x) = FileFrame(kind, make_fullfile(f), l)
                <5>1. Raw(x) = [x EXCEPT !.file = make_fullfile(f)]
                    BY <2>2, <3>2 DEF Raw
                <5> QED
                    BY <2>1, <5>1 DEF FileFrame, Frame
            <4> QED
                BY <4>1, <4>2 DEF v
        <3>3. CASE kind = "MAIN_FRAME"
            <4>1. FrameRead(kind, v) = FileFrame(kind, FileName("file", f), l) /\ FileRead(kind, v) = f
                BY <3>1, <3>3 DEF FrameRead, FileRead
            <4>2. Raw(x) = FileFrame(kind, FileName("file", f), l)
                <5>1. Raw(x) = [x EXCEPT !.file = FileName("file", f)]
                    BY <2>2, <3>3 DEF Raw
                <5> QED
                    BY <2>1, <5>1 DEF FileFrame, Frame
            <4> QED
                BY <4>1, <4>2 DEF v
        <3> QED
            BY <3>2, <3>3
    <2>7. kind \notin {"SUB_FRAME", "XSUB_FRAME"} /\ NoText # "BEGIN"
        BY NoTextIs
    <2> QED
        BY <2>2, <2>5, <2>6, <2>7
<1> QED
    BY <1>1, <1>2, <1>3 DEF Frames

(* The records of the header.                                              *)
LEMMA HeaderRecordsCoded ==
    /\ \E v : HeaderCodes(HeaderRecord("META_PERL_VERSION", <<Num(5), Num(36), Num(0)>>), "META_PERL_VERSION", v)
    /\ \E v : HeaderCodes(HeaderRecord("META_TICK_DURATION", <<Num(1000)>>), "META_TICK_DURATION", v)
    /\ \E v : HeaderCodes(HeaderRecord("META_STACK_SAMPLE_DEPTH", <<Num(20)>>), "META_STACK_SAMPLE_DEPTH", v)
    /\ \E v : HeaderCodes(HeaderRecord("META_GENEALOGY", <<Num(2), Num(1), Id("id"), Id("id")>>), "META_GENEALOGY", v)
<1>2. IsField(Id("id")) /\ Id("id")[1] = "id"
    BY DEF IsField, Id
<1>3. \A v : IsInt32(v) => IsField(Num(v)) /\ Num(v)[1] = "number"
    BY NumIs
<1>4. IsInt32(5) /\ IsInt32(36) /\ IsInt32(0) /\ IsInt32(1000) /\ IsInt32(20) /\ IsInt32(2) /\ IsInt32(1)
    BY DEF IsInt32
<1>5. IsFields(<<Num(5), Num(36), Num(0)>>, <<"number", "number", "number">>)
    <2>1. \A a, b, c : IsInt32(a) /\ IsInt32(b) /\ IsInt32(c) =>
             IsFields(<<Num(a), Num(b), Num(c)>>, <<"number", "number", "number">>)
        <3> SUFFICES ASSUME NEW a, NEW b, NEW c, IsInt32(a), IsInt32(b), IsInt32(c)
                     PROVE  IsFields(<<Num(a), Num(b), Num(c)>>, <<"number", "number", "number">>)
            OBVIOUS
        <3>1. IsFields(<<Num(a), Num(b), Num(c)>>, <<Num(a)[1], Num(b)[1], Num(c)[1]>>)
            BY <1>3, ThreeFields
        <3> QED
            BY <1>3, <3>1
    <2> QED
        BY <1>4, <2>1, Zenon
<1>6. IsFields(<<Num(1000)>>, <<"number">>) /\ IsFields(<<Num(20)>>, <<"number">>)
    <2>1. \A a : IsInt32(a) => IsFields(<<Num(a)>>, <<"number">>)
        <3> SUFFICES ASSUME NEW a, IsInt32(a)
                     PROVE  IsFields(<<Num(a)>>, <<"number">>)
            OBVIOUS
        <3>1. IsFields(<<Num(a)>>, <<Num(a)[1]>>)
            BY <1>3, OneField
        <3> QED
            BY <1>3, <3>1
    <2> QED
        BY <1>4, <2>1, ZenonT(60)
<1>7. IsFields(<<Num(2), Num(1), Id("id"), Id("id")>>, <<"number", "number", "id", "id">>)
    <2>1. \A a, b, c : IsInt32(a) /\ IsInt32(b) /\ IsField(c) /\ c[1] = "id" =>
             IsFields(<<Num(a), Num(b), c, c>>, <<"number", "number", "id", "id">>)
        <3> SUFFICES ASSUME NEW a, NEW b, NEW c, IsInt32(a), IsInt32(b), IsField(c), c[1] = "id"
                     PROVE  IsFields(<<Num(a), Num(b), c, c>>, <<"number", "number", "id", "id">>)
            OBVIOUS
        <3>1. IsFields(<<Num(a), Num(b), c, c>>, <<Num(a)[1], Num(b)[1], c[1], c[1]>>)
            BY <1>3, FourFields
        <3> QED
            BY <1>3, <3>1
    <2> QED
        BY <1>2, <1>4, <2>1, Zenon
<1>8. /\ HeaderLayout("META_PERL_VERSION") = <<"number", "number", "number">>
      /\ HeaderLayout("META_TICK_DURATION") = <<"number">>
      /\ HeaderLayout("META_STACK_SAMPLE_DEPTH") = <<"number">>
      /\ HeaderLayout("META_GENEALOGY") = <<"number", "number", "id", "id">>
    BY DEF HeaderLayout
<1>9. /\ "META_PERL_VERSION" # NoTag /\ "META_TICK_DURATION" # NoTag
      /\ "META_STACK_SAMPLE_DEPTH" # NoTag /\ "META_GENEALOGY" # NoTag
    BY DEF NoTag
<1> QED
    BY <1>5, <1>6, <1>7, <1>8, <1>9, HeaderCoded

(* Metadata in the header: the reader takes its size for a first field.    *)
LEMMA HeaderMetaCoded ==
    ASSUME NEW k \in Strings, NEW x \in Strings
    PROVE  \E v : HeaderCodes(Record("CUSTOM_META", <<Str(k), Str(x)>>), "CUSTOM_META", v)
<1> DEFINE a == Str(k)
           b == Str(x)
           two == <<a, b>>
           d == DeclaredSize("CUSTOM_META", two)
           c == Num(d)
           three == <<c, a, b>>
           A == FieldBytes(a)
           B == FieldBytes(b)
           C == Varint(d)
<1>1. IsField(a) /\ a[1] = "string" /\ IsField(b) /\ b[1] = "string"
    BY StrIs
<1>2. d \in Int
    <2>1. IsFields(two, <<a[1], b[1]>>)
        BY <1>1, TwoFields
    <2> HIDE DEF two, a, b
    <2> QED
        BY <2>1, DeclaredIs
<1>3. IsField(c) /\ c[1] = "number" /\ FieldBytes(c) = C
    BY <1>2 DEF IsField, Num, FieldBytes
<1>4. IsSequence(A) /\ IsSequence(B) /\ IsSequence(C)
    BY <1>1, <1>3, FieldNoTags DEF NoTags
<1> HIDE DEF a, b, c, d
<1>5. IsFields(three, <<"number", "string", "string">>)
    <2>1. IsFields(three, <<c[1], a[1], b[1]>>)
        BY <1>1, <1>3, ThreeFields
    <2> QED
        BY <1>1, <1>3, <2>1
<1>6. Payload(two) = A \o B
    <2>1. Len(two) = 2 /\ two[1] = a /\ two[2] = b
        OBVIOUS
    <2> HIDE DEF two, A, B
    <2>2. Payload(two) = A \o B \o <<>> \o <<>> \o <<>>
        BY <2>1 DEF Payload, A, B
    <2>3. IsSequence(A \o B)
        BY <1>4, ConcatIs
    <2> QED
        BY <2>2, <2>3, ConcatNothing
<1>7. Payload(three) = C \o A \o B
    <2>1. Len(three) = 3 /\ three[1] = c /\ three[2] = a /\ three[3] = b
        OBVIOUS
    <2> HIDE DEF three, A, B, C
    <2>2. Payload(three) = C \o A \o B \o <<>> \o <<>>
        BY <1>3, <2>1 DEF Payload, A, B
    <2>3. IsSequence(C \o A \o B)
        BY <1>4, ConcatIs
    <2> QED
        BY <2>2, <2>3, ConcatNothing
<1> HIDE DEF two, three, A, B, C
<1>8. Payload(three) = C \o Payload(two)
    BY <1>4, <1>6, <1>7, Associative
<1>9. Record("CUSTOM_META", two) = HeaderRecord("CUSTOM_META", three)
    BY <1>8 DEF Record, HeaderRecord, C, d
<1>10. HeaderLayout("CUSTOM_META") = <<"number", "string", "string">> /\ "CUSTOM_META" # NoTag
    BY DEF HeaderLayout, NoTag
<1>11. HeaderCodes(HeaderRecord("CUSTOM_META", three), "CUSTOM_META", Values(three))
    BY <1>5, <1>10, HeaderCoded
<1> QED
    BY <1>9, <1>11 DEF two, a, b

LEMMA SeparatorCoded == \E v : HeaderCodes(<<Tag("HEADER_SEPARATOR")>>, "HEADER_SEPARATOR", v)
<1> DEFINE none == <<>>
           one == <<Tag("HEADER_SEPARATOR")>>
<1>1. HeaderLayout("HEADER_SEPARATOR") = none /\ "HEADER_SEPARATOR" # NoTag
    BY DEF HeaderLayout, NoTag
<1>2. IsFields(none, none) /\ IsSequence(none) /\ Len(none) = 0
    BY NoFields, EmptyIs
<1>3. IsSequence(one)
    BY SingleIs
<1>4. none \o none = none /\ one \o none = one
    BY <1>2, <1>3, ConcatNothing
<1>5. Payload(none) = none \o none \o none \o none \o none
    <2> DEFINE e == <<>>
    <2>1. \A s : Len(s) = 0 => Payload(s) = e \o e \o e \o e \o e
        BY DEF Payload
    <2> QED
        BY <1>2, <2>1
<1> HIDE DEF none
<1>6. Payload(none) = none
    BY <1>4, <1>5
<1>7. HeaderRecord("HEADER_SEPARATOR", none) = one
    BY <1>4, <1>6 DEF HeaderRecord
<1>8. HeaderCodes(HeaderRecord("HEADER_SEPARATOR", none), "HEADER_SEPARATOR", Values(none))
    BY <1>1, <1>2, HeaderCoded
<1> QED
    BY <1>7, <1>8 DEF one

-----------------------------------------------------------------------------
(* What the reader makes of a file                                         *)

(* A milestone is a place between two records of a file, with what the     *)
(* variables of the reader are there; a file is read from Start.           *)
Start ==
    [at |-> 0, phase |-> "header", sample |-> NoSample, meta |-> {}, code |-> {},
     secs |-> NoSections, fended |-> FALSE, sended |-> FALSE, ret |-> <<>>]

AfterHeader(m, tag, e) ==
    [at |-> e, phase |-> IF tag = "HEADER_SEPARATOR" THEN "body" ELSE "header",
     sample |-> m.sample, meta |-> m.meta, code |-> m.code, secs |-> m.secs,
     fended |-> m.fended, sended |-> m.sended, ret |-> m.ret]

FrameTags == {"SUB_FRAME", "XSUB_FRAME", "EVAL_FRAME", "MAIN_FRAME"}
SectionTags == {"SECTION_START", "SECTION_END"}
EndTags == {"FILE_END", "STREAM_END"}

(* WithFrame, with perl as a parameter.                                    *)
FrameSample(p, x, tag, v) ==
    LET hide == p[1] /\ x.begin /\ tag \in {"EVAL_FRAME", "MAIN_FRAME"} IN
    [x EXCEPT !.frames = IF hide THEN @ ELSE Append(@, FrameRead(tag, v)),
              !.remap = @ \o (IF ~p[2] THEN <<>>
                              ELSE <<IF IsEval(FileRead(tag, v)) THEN FileRead(tag, v) ELSE NoText>>),
              !.begin = tag \in {"SUB_FRAME", "XSUB_FRAME"} /\ v[2] = "BEGIN"]

LEMMA WithFrameIs ==
    ASSUME NEW x, NEW tag, NEW v
    PROVE  WithFrame(x, tag, v) = FrameSample(perl, x, tag, v)
BY DEF WithFrame, FrameSample, TryRemap, newPerl, map_evals

SectionsAfter(m, tag, v) == [m.secs EXCEPT ![v[1]] = Depth(tag = "SECTION_START", @)]

(* Behind a record of the body: SAMPLE_END and the tags of sections return *)
(* a sample.                                                               *)
After(p, m, tag, v, e) ==
    [at |-> e, phase |-> "body",
     sample |-> IF tag = "SAMPLE_START" THEN [NoSample EXCEPT !.weight = v[1]]
                ELSE IF tag \in FrameTags THEN FrameSample(p, m.sample, tag, v)
                ELSE IF tag \in {"SAMPLE_END"} \cup SectionTags THEN NoSample
                ELSE m.sample,
     meta |-> IF tag = "CUSTOM_META" THEN Store(m.meta, v[1], v[2])
              ELSE IF tag \in {"SAMPLE_END"} \cup SectionTags THEN {}
              ELSE m.meta,
     code |-> IF tag = "EVAL_SEQ" THEN Store(m.code, v[2], v[1]) ELSE m.code,
     secs |-> IF tag \in SectionTags THEN SectionsAfter(m, tag, v) ELSE m.secs,
     fended |-> m.fended \/ tag \in EndTags,
     sended |-> m.sended \/ tag = "STREAM_END",
     ret |-> IF tag = "SAMPLE_END"
             THEN Append(m.ret, [weight |-> m.sample.weight,
                                 frames |-> Remapped(m.sample, m.code),
                                 sections |-> Active(m.secs), metadata |-> m.meta])
             ELSE IF tag \in SectionTags
             THEN Append(m.ret, [weight |-> 0, frames |-> NoFrames,
                                 sections |-> Active(SectionsAfter(m, tag, v)),
                                 metadata |-> m.meta])
             ELSE m.ret]

(* Records that the reader does not refuse at a milestone.                 *)
Accepts(m, tag, v) ==
    /\ tag \in FrameTags \cup {"SAMPLE_END"} => m.sample # NoSample
    /\ tag = "SECTION_END" => m.secs[v[1]] # 0

(* One record takes the reader from m to n; the header is never cut.       *)
Link(p, f, d, m, n) ==
    \E b, tag, v :
        /\ Lies(f, m.at, b)
        /\ IF m.phase = "header"
           THEN /\ HeaderCodes(b, tag, v) /\ m.at + Len(b) <= d
                /\ n = AfterHeader(m, tag, m.at + Len(b))
           ELSE /\ BodyCodes(b, tag, v) /\ Accepts(m, tag, v)
                /\ n = After(p, m, tag, v, m.at + Len(b))

StartOf(s, t) == Len(s) <= Len(t) /\ \A i \in 1 .. Len(s) : s[i] = t[i]

(* The milestones of a file: the reader gets from each to another one, up  *)
(* to the last.                                                            *)
Chain(p, f, d, M, last) ==
    /\ Start \in M /\ last \in M /\ d \in Nat
    /\ \A m \in M : /\ m.at \in Nat /\ m.at <= last.at
                    /\ IsSequence(m.ret) /\ StartOf(m.ret, last.ret)
                    /\ m.fended \in BOOLEAN /\ m.sended \in BOOLEAN
                    /\ (m.sended => m.fended) /\ (m.fended => last.fended)
                    /\ m.phase \in {"header", "body"}
    /\ \A m \in M : m # last => m.at < last.at /\ \E n \in M : Link(p, f, d, m, n)

(* A file that was not cut.                                                *)
Whole(f, last) ==
    /\ IsSequence(f) /\ Len(f) = last.at
    /\ last.sended <=> \E k \in 1 .. Len(f) : f[k] = Tag("STREAM_END")

Written(p, f, d, last) == \E M : Chain(p, f, d, M, last) /\ Whole(f, last)

(* Bytes behind a file change nothing of what lies in it.                  *)
LEMMA LiesGrows ==
    ASSUME NEW f, NEW b, IsSequence(f), IsSequence(b), NEW k \in Nat, NEW c, IsSequence(c),
           Lies(f, k, c), k + Len(c) <= Len(f)
    PROVE  Lies(f \o b, k, c)
<1>1. Len(f) \in Nat /\ Len(c) \in Nat
    BY SeqIs
<1> SUFFICES ASSUME NEW j \in 1 .. Len(c), k + j <= Len(f \o b)
             PROVE  (f \o b)[k + j] = c[j]
    BY DEF Lies
<1>2. k + j \in 1 .. Len(f)
    BY <1>1
<1>3. (f \o b)[k + j] = f[k + j]
    BY <1>2, ConcatIs
<1>4. f[k + j] = c[j]
    BY <1>1, <1>2 DEF Lies
<1> QED
    BY <1>3, <1>4

LEMMA LiesLast ==
    ASSUME NEW f, NEW b, IsSequence(f), IsSequence(b)
    PROVE  Lies(f \o b, Len(f), b)
BY ConcatIs, SeqIs DEF Lies

LEMMA LinkGrows ==
    ASSUME NEW p, NEW f, NEW d \in Nat, NEW m, NEW n, Link(p, f, d, m, n), IsSequence(f),
           m.at \in Nat, n.at <= Len(f), NEW b, IsSequence(b), NEW e \in Nat, d <= e
    PROVE  Link(p, f \o b, e, m, n)
<1>1. PICK c, tag, v :
        /\ Lies(f, m.at, c)
        /\ IF m.phase = "header"
           THEN /\ HeaderCodes(c, tag, v) /\ m.at + Len(c) <= d
                /\ n = AfterHeader(m, tag, m.at + Len(c))
           ELSE /\ BodyCodes(c, tag, v) /\ Accepts(m, tag, v)
                /\ n = After(p, m, tag, v, m.at + Len(c))
    BY DEF Link
<1>2. IsSequence(c) /\ n.at = m.at + Len(c)
    <2>1. AfterHeader(m, tag, m.at + Len(c)).at = m.at + Len(c)
        BY DEF AfterHeader
    <2>2. After(p, m, tag, v, m.at + Len(c)).at = m.at + Len(c)
        BY DEF After
    <2> QED
        BY <1>1, <2>1, <2>2 DEF HeaderCodes, BodyCodes
<1>3. Lies(f \o b, m.at, c)
    BY <1>1, <1>2, LiesGrows
<1>4. m.at + Len(c) <= d => m.at + Len(c) <= e
    BY <1>2, SeqIs
<1> QED
    BY <1>1, <1>3, <1>4 DEF Link

LEMMA StartOfTransitive ==
    ASSUME NEW s, NEW t, NEW u, IsSequence(s), IsSequence(t), IsSequence(u), StartOf(s, t), StartOf(t, u)
    PROVE  StartOf(s, u)
BY SeqIs DEF StartOf

LEMMA StartOfItself ==
    ASSUME NEW s, IsSequence(s)
    PROVE  StartOf(s, s)
BY SeqIs DEF StartOf

(* A milestone that may follow the last one.                               *)
Follows(last, n) ==
    /\ n.phase \in {"header", "body"} /\ n.fended \in BOOLEAN /\ n.sended \in BOOLEAN
    /\ IsSequence(n.ret) /\ StartOf(last.ret, n.ret)
    /\ (n.sended => n.fended) /\ (last.fended => n.fended)

LEMMA Grows ==
    ASSUME NEW p, NEW f, NEW d, NEW last, Written(p, f, d, last),
           NEW b, IsSequence(b), Len(b) >= 1, NEW e \in Nat, d <= e, NEW n,
           n.at = Len(f) + Len(b), Follows(last, n), Link(p, f \o b, e, last, n),
           n.sended <=> last.sended \/ \E k \in 1 .. Len(b) : b[k] = Tag("STREAM_END")
    PROVE  Written(p, f \o b, e, n) /\ Len(f \o b) = Len(f) + Len(b) /\ Len(f) = last.at
<1>1. PICK M : Chain(p, f, d, M, last) /\ Whole(f, last)
    BY DEF Written
<1> DEFINE g == f \o b
           N == M \cup {n}
<1>2. /\ IsSequence(f) /\ Len(f) = last.at /\ Len(f) \in Nat /\ Len(b) \in Nat
      /\ IsSequence(g) /\ Len(g) = Len(f) + Len(b)
    BY <1>1, SeqIs, ConcatIs DEF Whole
<1>3. n.at \in Nat /\ n.at > last.at /\ last.at \in Nat
    BY <1>2
<1>4. /\ Start \in M /\ last \in M /\ d \in Nat
      /\ \A m \in M : /\ m.at \in Nat /\ m.at <= last.at
                      /\ IsSequence(m.ret) /\ StartOf(m.ret, last.ret)
                      /\ m.fended \in BOOLEAN /\ m.sended \in BOOLEAN
                      /\ (m.sended => m.fended) /\ (m.fended => last.fended)
                      /\ m.phase \in {"header", "body"}
      /\ \A m \in M : m # last => m.at < last.at /\ \E o \in M : Link(p, f, d, m, o)
    BY <1>1 DEF Chain
<1>5. ASSUME NEW m \in N
      PROVE  /\ m.at \in Nat /\ m.at <= n.at
             /\ IsSequence(m.ret) /\ StartOf(m.ret, n.ret)
             /\ m.fended \in BOOLEAN /\ m.sended \in BOOLEAN
             /\ (m.sended => m.fended) /\ (m.fended => n.fended)
             /\ m.phase \in {"header", "body"}
    <2>1. CASE m = n
        BY <1>3, <2>1, StartOfItself DEF Follows
    <2>2. CASE m \in M
        <3>1. StartOf(m.ret, n.ret)
            BY <1>4, <2>2, StartOfTransitive DEF Follows
        <3>2. m.at \in Nat /\ m.at <= n.at
            BY <1>3, <1>4, <2>2
        <3>3. m.fended => n.fended
            BY <1>4, <2>2 DEF Follows
        <3> QED
            BY <1>4, <2>2, <3>1, <3>2, <3>3
    <2> QED
        BY <2>1, <2>2
<1>6. ASSUME NEW m \in N, m # n
      PROVE  m.at < n.at /\ \E o \in N : Link(p, g, e, m, o)
    <2>1. m \in M /\ m.at \in Nat /\ m.at <= last.at
        BY <1>4, <1>6
    <2>2. m.at < n.at
        BY <1>3, <2>1
    <2>3. CASE m = last
        BY <2>2, <2>3
    <2>4. CASE m # last
        <3>1. PICK o \in M : Link(p, f, d, m, o)
            BY <1>4, <2>1, <2>4
        <3>2. o.at <= Len(f)
            BY <1>2, <1>4
        <3>3. Link(p, f \o b, e, m, o)
            BY <1>2, <1>4, <2>1, <3>1, <3>2, LinkGrows
        <3> QED
            BY <2>2, <3>3
    <2> QED
        BY <2>3, <2>4
<1>7. Chain(p, g, e, N, n)
    BY <1>4, <1>5, <1>6 DEF Chain
<1>8. n.sended <=> \E k \in 1 .. Len(g) : g[k] = Tag("STREAM_END")
    <2>1. ASSUME NEW k \in 1 .. Len(f)
          PROVE  k \in 1 .. Len(g) /\ g[k] = f[k]
        BY <1>2, ConcatIs
    <2>2. ASSUME NEW k \in 1 .. Len(b)
          PROVE  Len(f) + k \in 1 .. Len(g) /\ g[Len(f) + k] = b[k]
        BY <1>2, ConcatIs, SMTT(60)
    <2>3. ASSUME NEW k \in 1 .. Len(g)
          PROVE  k \in 1 .. Len(f) \/ \E j \in 1 .. Len(b) : k = Len(f) + j
        <3>1. k \notin 1 .. Len(f) => k - Len(f) \in 1 .. Len(b) /\ k = Len(f) + (k - Len(f))
            BY <1>2
        <3> QED
            BY <3>1
    <2>4. last.sended <=> \E k \in 1 .. Len(f) : f[k] = Tag("STREAM_END")
        BY <1>1 DEF Whole
    <2> HIDE DEF g
    <2>5. ASSUME NEW k \in 1 .. Len(g), g[k] = Tag("STREAM_END")
          PROVE  n.sended
        <3>1. CASE k \in 1 .. Len(f)
            BY <2>1, <2>4, <2>5, <3>1
        <3>2. CASE k \notin 1 .. Len(f)
            BY <2>2, <2>3, <2>5, <3>2, ZenonT(60)
        <3> QED
            BY <3>1, <3>2
    <2>6. ASSUME n.sended
          PROVE  \E k \in 1 .. Len(g) : g[k] = Tag("STREAM_END")
        <3>1. CASE last.sended
            BY <2>1, <2>4, <3>1
        <3>2. CASE ~last.sended
            BY <2>2, <2>6, <3>2
        <3> QED
            BY <3>1, <3>2
    <2>7. n.sended \in BOOLEAN
        BY DEF Follows
    <2> QED
        BY <2>5, <2>6, <2>7
<1> QED
    BY <1>2, <1>7, <1>8 DEF Written, Whole

LEMMA StartWritten ==
    ASSUME NEW p
    PROVE  Written(p, <<>>, 0, Start)
<1> DEFINE none == <<>>
           S == {Start}
<1>1. IsSequence(none) /\ Len(none) = 0 /\ StartOf(none, none)
    BY EmptyIs, StartOfItself
<1>2. /\ Start.at = 0 /\ Start.ret = none /\ Start.phase = "header"
      /\ Start.fended = FALSE /\ Start.sended = FALSE
    BY DEF Start
<1> HIDE DEF none
<1>3. Chain(p, none, 0, S, Start)
    <2>1. ASSUME NEW m \in S
          PROVE  /\ m.at \in Nat /\ m.at <= Start.at
                 /\ IsSequence(m.ret) /\ StartOf(m.ret, Start.ret)
                 /\ m.fended \in BOOLEAN /\ m.sended \in BOOLEAN
                 /\ (m.sended => m.fended) /\ (m.fended => Start.fended)
                 /\ m.phase \in {"header", "body"}
        <3>1. m = Start
            OBVIOUS
        <3>2. Start.at \in Nat /\ Start.at <= Start.at /\ Start.phase \in {"header", "body"}
            BY <1>2
        <3>3. IsSequence(Start.ret) /\ StartOf(Start.ret, Start.ret)
            BY <1>1, <1>2
        <3>4. /\ Start.fended \in BOOLEAN /\ Start.sended \in BOOLEAN
              /\ Start.sended => Start.fended
            BY <1>2
        <3> QED
            BY <3>1, <3>2, <3>3, <3>4
    <2>2. Start \in S /\ 0 \in Nat /\ \A m \in S : m = Start
        OBVIOUS
    <2> HIDE DEF S
    <2> QED
        BY <2>1, <2>2 DEF Chain
<1>4. Whole(none, Start)
    BY <1>1, <1>2 DEF Whole
<1> QED
    BY <1>3, <1>4 DEF Written, none

LEMMA TagsOf ==
    ASSUME NEW b, NEW tag, b[1] = Tag(tag), Len(b) \in Nat, Len(b) >= 1,
           \A j \in 2 .. Len(b) : b[j][1] # "tag"
    PROVE  (\E k \in 1 .. Len(b) : b[k] = Tag("STREAM_END")) <=> tag = "STREAM_END"
<1>1. Tag(tag) = Tag("STREAM_END") <=> tag = "STREAM_END"
    BY DEF Tag
<1>2. \A j \in 2 .. Len(b) : b[j] # Tag("STREAM_END")
    BY DEF Tag
<1>3. \A k \in 1 .. Len(b) : k = 1 \/ k \in 2 .. Len(b)
    OBVIOUS
<1>4. 1 \in 1 .. Len(b)
    OBVIOUS
<1> QED
    BY <1>1, <1>2, <1>3, <1>4

LEMMA LastIs ==
    ASSUME NEW p, NEW f, NEW d, NEW last, Written(p, f, d, last)
    PROVE  /\ IsSequence(f) /\ Len(f) \in Nat /\ Len(f) = last.at /\ d \in Nat
           /\ IsSequence(last.ret) /\ last.fended \in BOOLEAN /\ last.sended \in BOOLEAN
           /\ last.sended => last.fended
<1>1. PICK M : Chain(p, f, d, M, last) /\ Whole(f, last)
    BY DEF Written
<1> QED
    BY <1>1, SeqIs DEF Chain, Whole

LEMMA HeaderGrows ==
    ASSUME NEW p, NEW f, NEW d, NEW last, Written(p, f, d, last), last.phase = "header",
           NEW b, NEW tag, NEW v, HeaderCodes(b, tag, v), tag # "STREAM_END", d <= Len(f)
    PROVE  LET e == Len(f) + Len(b) IN
           /\ Written(p, f \o b, e, AfterHeader(last, tag, e))
           /\ Len(f \o b) = e /\ e \in Nat /\ e <= Len(f \o b)
<1> DEFINE e == Len(f) + Len(b)
           n == AfterHeader(last, tag, e)
<1>1. /\ IsSequence(f) /\ Len(f) \in Nat /\ Len(f) = last.at /\ d \in Nat
      /\ IsSequence(last.ret) /\ last.fended \in BOOLEAN /\ last.sended \in BOOLEAN
      /\ last.sended => last.fended
    BY LastIs
<1>2. /\ b[1] = Tag(tag) /\ Len(b) >= 1 /\ IsSequence(b) /\ Len(b) \in Nat
      /\ \A j \in 2 .. Len(b) : b[j][1] # "tag"
    BY SeqIs DEF HeaderCodes
<1>3. e \in Nat /\ d <= e
    BY <1>1, <1>2
<1>4. Link(p, f \o b, e, last, n)
    <2>1. Lies(f \o b, last.at, b)
        BY <1>1, <1>2, LiesLast
    <2>2. last.at + Len(b) = e /\ e <= e
        BY <1>1, <1>3
    <2> HIDE DEF e
    <2> QED
        BY <2>1, <2>2 DEF Link
<1>5. /\ n.at = e /\ n.ret = last.ret /\ n.fended = last.fended /\ n.sended = last.sended
      /\ n.phase \in {"header", "body"}
    BY DEF AfterHeader
<1>6. Follows(last, n)
    BY <1>1, <1>5, StartOfItself DEF Follows
<1>7. ~\E k \in 1 .. Len(b) : b[k] = Tag("STREAM_END")
    BY <1>2, TagsOf
<1> HIDE DEF n, e
<1>8. Written(p, f \o b, e, n) /\ Len(f \o b) = Len(f) + Len(b)
    BY <1>2, <1>3, <1>4, <1>5, <1>6, <1>7, Grows DEF e
<1> QED
    BY <1>3, <1>8 DEF n, e

LEMMA BodyGrows ==
    ASSUME NEW p, NEW f, NEW d, NEW last, Written(p, f, d, last), last.phase = "body",
           NEW b, NEW tag, NEW v, BodyCodes(b, tag, v), Accepts(last, tag, v)
    PROVE  LET n == After(p, last, tag, v, Len(f) + Len(b)) IN
           /\ \A e \in Nat : d <= e => Written(p, f \o b, e, n)
           /\ Len(f \o b) = Len(f) + Len(b) /\ Len(f \o b) \in Nat /\ Len(f \o b) >= Len(f)
<1> DEFINE z == Len(f) + Len(b)
           n == After(p, last, tag, v, z)
<1>1. /\ IsSequence(f) /\ Len(f) \in Nat /\ Len(f) = last.at /\ d \in Nat
      /\ IsSequence(last.ret) /\ last.fended \in BOOLEAN /\ last.sended \in BOOLEAN
      /\ last.sended => last.fended
    BY LastIs
<1>2. /\ b[1] = Tag(tag) /\ Len(b) >= 1 /\ IsSequence(b) /\ Len(b) \in Nat
      /\ \A j \in 2 .. Len(b) : b[j][1] # "tag"
    BY SeqIs DEF BodyCodes
<1>3. \A e : Link(p, f \o b, e, last, n)
    <2>1. Lies(f \o b, last.at, b)
        BY <1>1, <1>2, LiesLast
    <2>2. last.at + Len(b) = z
        BY <1>1
    <2> HIDE DEF z
    <2> QED
        BY <2>1, <2>2 DEF Link
<1>4. /\ n.at = z /\ n.phase = "body"
      /\ n.fended = (last.fended \/ tag \in EndTags)
      /\ n.sended = (last.sended \/ tag = "STREAM_END")
    BY DEF After
<1>5. n.ret = last.ret \/ \E x : n.ret = Append(last.ret, x)
    BY DEF After
<1> HIDE DEF n
<1>6. IsSequence(n.ret) /\ StartOf(last.ret, n.ret)
    <2>1. CASE n.ret = last.ret
        BY <1>1, <2>1, StartOfItself
    <2>2. ASSUME NEW x, n.ret = Append(last.ret, x)
          PROVE  IsSequence(n.ret) /\ StartOf(last.ret, n.ret)
        <3>1. /\ IsSequence(n.ret) /\ Len(n.ret) = Len(last.ret) + 1 /\ Len(last.ret) \in Nat
              /\ \A i \in 1 .. Len(last.ret) : n.ret[i] = last.ret[i]
            BY <1>1, <2>2, AppendIs, SeqIs
        <3> QED
            BY <3>1 DEF StartOf
    <2> QED
        BY <1>5, <2>1, <2>2
<1>7. Follows(last, n)
    <2>1. tag = "STREAM_END" => tag \in EndTags
        BY DEF EndTags
    <2> QED
        BY <1>1, <1>4, <1>6, <2>1 DEF Follows
<1>8. n.sended <=> last.sended \/ \E k \in 1 .. Len(b) : b[k] = Tag("STREAM_END")
    BY <1>2, <1>4, TagsOf
<1>9. ASSUME NEW e \in Nat, d <= e
      PROVE  Written(p, f \o b, e, n)
    BY <1>2, <1>3, <1>4, <1>7, <1>8, <1>9, Grows
<1>10. Len(f \o b) = z /\ z \in Nat /\ z >= Len(f)
    <2>1. Len(f \o b) = Len(f) + Len(b)
        BY <1>1, <1>2, ConcatIs
    <2>2. Len(f) + Len(b) \in Nat /\ Len(f) + Len(b) >= Len(f)
        BY <1>1, <1>2
    <2> QED
        BY <2>1, <2>2
<1> QED
    BY <1>9, <1>10 DEF n

(* The milestone behind the records of a header is Start but for its       *)
(* place.                                                                  *)
Blank(m, phase) ==
    /\ m.phase = phase /\ m.sample = NoSample /\ m.meta = {} /\ m.code = {}
    /\ m.secs = NoSections /\ m.fended = FALSE /\ m.sended = FALSE /\ m.ret = <<>>

HeaderWritten(p, f, phase) ==
    IsSequence(f) /\ \E last : Written(p, f, Len(f), last) /\ Blank(last, phase)

LEMMA HeaderStep ==
    ASSUME NEW p, NEW f, HeaderWritten(p, f, "header"), NEW b, NEW tag,
           \E v : HeaderCodes(b, tag, v), tag # "STREAM_END"
    PROVE  HeaderWritten(p, f \o b, IF tag = "HEADER_SEPARATOR" THEN "body" ELSE "header")
<1>1. PICK last : Written(p, f, Len(f), last) /\ Blank(last, "header")
    BY DEF HeaderWritten
<1>2. PICK v : HeaderCodes(b, tag, v)
    OBVIOUS
<1> DEFINE n == AfterHeader(last, tag, Len(f) + Len(b))
<1>3. IsSequence(f) /\ Len(f) \in Nat /\ IsSequence(b)
    BY <1>1, <1>2, LastIs DEF HeaderCodes
<1>4. Written(p, f \o b, Len(f) + Len(b), n) /\ Len(f \o b) = Len(f) + Len(b)
    <2>1. last.phase = "header" /\ Len(f) <= Len(f)
        BY <1>1, <1>3 DEF Blank
    <2> QED
        BY <1>1, <1>2, <2>1, HeaderGrows
<1>5. Blank(n, IF tag = "HEADER_SEPARATOR" THEN "body" ELSE "header")
    BY <1>1 DEF Blank, AfterHeader
<1>6. IsSequence(f \o b)
    BY <1>3, ConcatIs
<1> HIDE DEF n
<1>7. Written(p, f \o b, Len(f \o b), n)
    BY <1>4
<1> QED
    BY <1>5, <1>6, <1>7 DEF HeaderWritten

LEMMA HeaderIsWritten ==
    ASSUME NEW p, NEW meta,
           meta = <<>> \/ meta = Record("CUSTOM_META", <<Str("meta"), Str("meta")>>)
    PROVE  HeaderWritten(p, Header \o meta \o <<Tag("HEADER_SEPARATOR")>>, "body")
<1> DEFINE a == HeaderRecord("META_PERL_VERSION", <<Num(5), Num(36), Num(0)>>)
           b == HeaderRecord("META_TICK_DURATION", <<Num(1000)>>)
           c == HeaderRecord("META_STACK_SAMPLE_DEPTH", <<Num(20)>>)
           d == HeaderRecord("META_GENEALOGY", <<Num(2), Num(1), Id("id"), Id("id")>>)
           s == <<Tag("HEADER_SEPARATOR")>>
           r == Record("CUSTOM_META", <<Str("meta"), Str("meta")>>)
           none == <<>>
<1>1. /\ \E v : HeaderCodes(a, "META_PERL_VERSION", v)
      /\ \E v : HeaderCodes(b, "META_TICK_DURATION", v)
      /\ \E v : HeaderCodes(c, "META_STACK_SAMPLE_DEPTH", v)
      /\ \E v : HeaderCodes(d, "META_GENEALOGY", v)
    BY HeaderRecordsCoded
<1>2. \E v : HeaderCodes(s, "HEADER_SEPARATOR", v)
    BY SeparatorCoded
<1>3. \E v : HeaderCodes(r, "CUSTOM_META", v)
    BY TextsAre, HeaderMetaCoded
<1>4. Header = a \o b \o c \o d
    BY DEF Header
<1>5. HeaderWritten(p, none, "header")
    <2>1. IsSequence(none) /\ Len(none) = 0
        BY EmptyIs
    <2>2. Written(p, none, 0, Start)
        BY StartWritten
    <2>3. Blank(Start, "header")
        BY DEF Blank, Start
    <2> QED
        BY <2>1, <2>2, <2>3 DEF HeaderWritten
<1>6. none \o a = a
    <2>1. IsSequence(a)
        BY <1>1 DEF HeaderCodes
    <2> HIDE DEF a
    <2> QED
        BY <2>1, ConcatNothing
<1>7. meta = none \/ meta = r
    OBVIOUS
<1> HIDE DEF a, b, c, d, s, r, none
<1>8. HeaderWritten(p, a, "header")
    <2>1. HeaderWritten(p, none \o a, "header")
        BY <1>1, <1>5, HeaderStep
    <2> QED
        BY <1>6, <2>1
<1>9. HeaderWritten(p, a \o b, "header")
    BY <1>1, <1>8, HeaderStep
<1>10. HeaderWritten(p, a \o b \o c, "header")
    BY <1>1, <1>9, HeaderStep
<1>11. HeaderWritten(p, Header, "header")
    BY <1>1, <1>4, <1>10, HeaderStep
<1>12. HeaderWritten(p, Header \o meta, "header")
    <2>1. CASE meta = r
        BY <1>3, <1>11, <2>1, HeaderStep
    <2>2. CASE meta = none
        <3>1. Header \o none = Header
            BY <1>11, ConcatNothing DEF HeaderWritten, none
        <3> QED
            BY <1>11, <2>2, <3>1
    <2> QED
        BY <1>7, <2>1, <2>2
<1>13. HeaderWritten(p, Header \o meta \o s, "body")
    BY <1>2, <1>12, HeaderStep
<1> QED
    BY <1>13 DEF s

EmptyOf(last) ==
    [weight |-> 0, frames |-> NoFrames, sections |-> Active(last.secs), metadata |-> last.meta]

(* The milestone n behind the empty sample that flush() adds.              *)
Flushed(p, f, d, last, n) ==
    /\ \A e \in Nat : d <= e => Written(p, f \o EmptySample, e, n)
    /\ n.phase = "body" /\ n.meta = {} /\ n.code = last.code /\ n.secs = last.secs
    /\ n.fended = last.fended /\ n.sended = last.sended
    /\ n.ret = Append(last.ret, EmptyOf(last))

LEMMA EmptySampleGrows ==
    ASSUME NEW p, NEW f, NEW d, NEW last, Written(p, f, d, last), last.phase = "body"
    PROVE  /\ Len(f \o EmptySample) \in Nat /\ Len(f \o EmptySample) >= Len(f)
           /\ \E n : Flushed(p, f, d, last, n)
<1> DEFINE a == Record("SAMPLE_START", <<Num(0), Str(NoText)>>)
           b == Record("SAMPLE_END", <<>>)
<1>1. PICK v : BodyCodes(a, "SAMPLE_START", v) /\ v[1] = 0
    <2>1. IsInt32(0)
        BY DEF IsInt32
    <2>2. NoText \in Strings
        BY TextsAre
    <2> QED
        BY <2>1, <2>2, SampleCoded
<1>2. PICK w : BodyCodes(b, "SAMPLE_END", w)
    BY PlainCoded
<1>3. EmptySample = a \o b
    BY DEF EmptySample
<1> HIDE DEF a, b
<1> DEFINE g == f \o a
           m == After(p, last, "SAMPLE_START", v, Len(f) + Len(a))
           n == After(p, m, "SAMPLE_END", w, Len(g) + Len(b))
<1>4. /\ IsSequence(f) /\ Len(f) \in Nat /\ IsSequence(a) /\ IsSequence(b) /\ d \in Nat
    BY <1>1, <1>2, LastIs DEF BodyCodes
<1>5. f \o EmptySample = g \o b
    BY <1>3, <1>4, Associative, SMTT(60)
<1>6. Accepts(last, "SAMPLE_START", v)
    BY DEF Accepts, FrameTags
<1>7. Written(p, g, d, m) /\ Len(g) \in Nat /\ Len(g) >= Len(f)
    <2>1. d <= d
        BY <1>4
    <2> QED
        BY <1>1, <1>4, <1>6, <2>1, BodyGrows
<1>8. /\ m.phase = "body" /\ m.sample = [NoSample EXCEPT !.weight = 0] /\ m.meta = last.meta
      /\ m.code = last.code /\ m.secs = last.secs /\ m.ret = last.ret
      /\ m.fended = last.fended /\ m.sended = last.sended
    <2>1. last.fended \in BOOLEAN /\ last.sended \in BOOLEAN
        BY LastIs
    <2> QED
        BY <1>1, <2>1 DEF After, SectionTags, EndTags
<1>9. /\ m.sample # NoSample /\ m.sample.weight = 0 /\ m.sample.frames = NoFrames
    BY <1>8 DEF NoSample
<1>10. Remapped(m.sample, m.code) = NoFrames
    <2>1. DOMAIN m.sample.frames = {}
        BY <1>9 DEF NoFrames
    <2>2. \A x : DOMAIN x.frames = {} => Remapped(x, m.code) = <<>>
        BY DEF Remapped
    <2> QED
        BY <2>1, <2>2 DEF NoFrames
<1>11. Accepts(m, "SAMPLE_END", w)
    BY <1>9 DEF Accepts
<1> HIDE DEF m, g
<1>12. /\ \A e \in Nat : d <= e => Written(p, g \o b, e, n)
       /\ Len(g \o b) \in Nat /\ Len(g \o b) >= Len(g)
    BY <1>2, <1>7, <1>8, <1>11, BodyGrows
<1>13. /\ n.phase = "body" /\ n.meta = {} /\ n.code = m.code /\ n.secs = m.secs
       /\ n.fended = m.fended /\ n.sended = m.sended
       /\ n.ret = Append(m.ret, [weight |-> m.sample.weight,
                                 frames |-> Remapped(m.sample, m.code),
                                 sections |-> Active(m.secs), metadata |-> m.meta])
    <2>1. m.fended \in BOOLEAN /\ m.sended \in BOOLEAN
        BY <1>7, LastIs
    <2> QED
        BY <2>1 DEF After, SectionTags, EndTags
<1> HIDE DEF n
<1>14. n.ret = Append(last.ret, EmptyOf(last))
    BY <1>8, <1>9, <1>10, <1>13 DEF EmptyOf
<1>15. Flushed(p, f, d, last, n)
    BY <1>5, <1>8, <1>12, <1>13, <1>14 DEF Flushed
<1> QED
    BY <1>4, <1>5, <1>7, <1>12, <1>15

-----------------------------------------------------------------------------
(* The frames of a sample                                                  *)

Rank(S, n) == Cardinality({m \in S : m <= n})

(* Nth numbers the elements of a set in their order.                       *)
Numbered(S) ==
    /\ IsFiniteSet(S) /\ S \subseteq Nat
    /\ \A i \in 1 .. Cardinality(S) :
          /\ Nth(S, i) \in S /\ Rank(S, Nth(S, i)) = i
          /\ \A n \in S : Rank(S, n) = i => n = Nth(S, i)

LEMMA NumberedGrows ==
    ASSUME NEW S, Numbered(S), NEW k \in Nat, \A n \in S : n < k
    PROVE  LET T == S \cup {k} IN
           /\ Numbered(T) /\ Cardinality(T) = Cardinality(S) + 1 /\ Cardinality(S) \in Nat
           /\ Nth(T, Cardinality(S) + 1) = k
           /\ \A i \in 1 .. Cardinality(S) : Nth(T, i) = Nth(S, i)
<1> DEFINE T == S \cup {k}
           c == Cardinality(S)
<1>1. IsFiniteSet(S) /\ S \subseteq Nat /\ c \in Nat /\ k \notin S
    BY FS_CardinalityType DEF Numbered
<1>2. IsFiniteSet(T) /\ T \subseteq Nat /\ Cardinality(T) = c + 1
    BY <1>1, FS_AddElement
<1>3. ASSUME NEW n \in S
      PROVE  Rank(T, n) = Rank(S, n) /\ Rank(T, n) \in Nat /\ Rank(T, n) <= c
    <2> DEFINE U == {m \in S : m <= n}
    <2>1. {m \in T : m <= n} = U
        <3>1. n \in Nat /\ n < k
            BY <1>1
        <3>2. ~(k <= n)
            BY <3>1
        <3> QED
            BY <3>2
    <2>2. Cardinality(U) \in Nat /\ Cardinality(U) <= c
        <3>1. U \subseteq S
            OBVIOUS
        <3> HIDE DEF U
        <3> QED
            BY <1>1, <3>1, FS_Subset, FS_CardinalityType
    <2> HIDE DEF U
    <2>3. Rank(T, n) = Cardinality(U) /\ Rank(S, n) = Cardinality(U)
        BY <2>1 DEF Rank, U
    <2> QED
        BY <2>2, <2>3
<1>4. Rank(T, k) = c + 1
    <2>1. ASSUME NEW m \in T
          PROVE  m <= k
        <3>1. CASE m = k
            BY <3>1
        <3>2. CASE m \in S
            BY <1>1, <3>2
        <3> QED
            BY <3>1, <3>2
    <2>2. {m \in T : m <= k} = T
        BY <2>1
    <2> QED
        BY <1>2, <2>2 DEF Rank
<1>5. ASSUME NEW i \in 1 .. c
      PROVE  /\ Nth(T, i) = Nth(S, i) /\ Nth(T, i) \in T /\ Rank(T, Nth(T, i)) = i
             /\ \A n \in T : Rank(T, n) = i => n = Nth(T, i)
    <2> DEFINE a == Nth(S, i)
    <2>1. a \in S /\ Rank(S, a) = i /\ \A n \in S : Rank(S, n) = i => n = a
        BY DEF Numbered
    <2>2. i # c + 1
        BY <1>1
    <2> HIDE DEF a, T
    <2>3. \A n \in T : n \in S \/ n = k
        BY DEF T
    <2>4. \A n \in T : Rank(T, n) = i => n = a
        BY <1>3, <1>4, <2>1, <2>2, <2>3
    <2>5. a \in T /\ Rank(T, a) = i
        BY <1>3, <2>1 DEF T
    <2>6. Nth(T, i) \in T /\ Rank(T, Nth(T, i)) = i
        BY <2>5 DEF Nth, Rank
    <2>7. Nth(T, i) = a
        BY <2>4, <2>6
    <2> QED
        BY <2>4, <2>5, <2>7 DEF a
<1>6. /\ Nth(T, c + 1) = k /\ k \in T
      /\ \A n \in T : Rank(T, n) = c + 1 => n = k
    <2>1. \A n \in T : n \in S \/ n = k
        OBVIOUS
    <2>2. k \in T
        OBVIOUS
    <2> HIDE DEF T
    <2>3. \A n \in T : Rank(T, n) = c + 1 => n = k
        <3>1. ASSUME NEW n \in S
              PROVE  Rank(T, n) # c + 1
            BY <1>1, <1>3
        <3> QED
            BY <2>1, <3>1
    <2>4. Nth(T, c + 1) \in T /\ Rank(T, Nth(T, c + 1)) = c + 1
        BY <1>4, <2>2 DEF Nth, Rank
    <2> QED
        BY <2>2, <2>3, <2>4
<1>7. Numbered(T)
    <2>1. \A i \in 1 .. c + 1 : i \in 1 .. c \/ i = c + 1
        BY <1>1
    <2> HIDE DEF T, c
    <2>2. ASSUME NEW i \in 1 .. Cardinality(T)
          PROVE  /\ Nth(T, i) \in T /\ Rank(T, Nth(T, i)) = i
                 /\ \A n \in T : Rank(T, n) = i => n = Nth(T, i)
        <3>1. CASE i \in 1 .. c
            BY <1>5, <3>1
        <3>2. CASE i = c + 1
            BY <1>4, <1>6, <3>2
        <3> QED
            BY <1>2, <2>1, <3>1, <3>2
    <2> QED
        BY <1>2, <2>2 DEF Numbered
<1> QED
    BY <1>1, <1>2, <1>5, <1>6, <1>7

(* A sample as it is built by read_trace(): w its weight.                  *)
Partly(w, frames, remap, begin) ==
    [weight |-> w, frames |-> frames, remap |-> remap, begin |-> begin]

HiddenIn(p, frames, i) ==
    /\ p[1] /\ i > 1 /\ frames[i].kind \in {"EVAL_FRAME", "MAIN_FRAME"}
    /\ frames[i - 1].name = "BEGIN"
ShownIn(p, frames) == {i \in 1 .. Len(frames) : ~HiddenIn(p, frames, i)}

RemapOf(x) == IF IsEval(x.file) THEN x.file ELSE NoText

(* What the reader has made of the frames that are written.                *)
FramesInv(p, frames, read, remap, begin) ==
    /\ IsSequence(frames) /\ \A i \in 1 .. Len(frames) : frames[i] \in Frames
    /\ Numbered(ShownIn(p, frames))
    /\ read = [i \in 1 .. Cardinality(ShownIn(p, frames)) |-> Raw(frames[Nth(ShownIn(p, frames), i)])]
    /\ remap = IF p[2] THEN [i \in 1 .. Len(frames) |-> RemapOf(frames[i])] ELSE <<>>
    /\ begin <=> Len(frames) > 0 /\ frames[Len(frames)].name = "BEGIN"
    /\ ~p[1] => /\ Cardinality(ShownIn(p, frames)) = Len(frames)
                /\ \A i \in 1 .. Len(frames) : Nth(ShownIn(p, frames), i) = i

LEMMA NoFramesInv ==
    ASSUME NEW p
    PROVE  FramesInv(p, <<>>, <<>>, <<>>, FALSE)
<1> DEFINE none == <<>>
           S == ShownIn(p, none)
<1>1. IsSequence(none) /\ Len(none) = 0
    BY EmptyIs
<1>2. 1 .. 0 = {} /\ \A F : [i \in {} |-> F[i]] = none
    OBVIOUS
<1>3. S = {}
    <2> HIDE DEF none
    <2> QED
        BY <1>1 DEF ShownIn
<1>4. IsFiniteSet(S) /\ Cardinality(S) = 0
    BY <1>3, FS_EmptySet
<1>5. Numbered(S)
    BY <1>3, <1>4 DEF Numbered
<1>6. /\ none = [i \in 1 .. 0 |-> Raw(none[Nth(S, i)])]
      /\ none = [i \in 1 .. 0 |-> RemapOf(none[i])]
    <2>1. \A f : f = [i \in 1 .. 0 |-> f[i]] => f = <<>>
        OBVIOUS
    <2> QED
        BY <2>1
<1> HIDE DEF none
<1> HIDE DEF S
<1>7. ~(Len(none) > 0)
    BY <1>1
<1>8. FramesInv(p, none, none, none, FALSE)
    BY <1>1, <1>4, <1>5, <1>6, <1>7 DEF FramesInv, S
<1> QED
    BY <1>8 DEF none

LEMMA FrameIs ==
    ASSUME NEW x \in Frames
    PROVE  /\ x = Frame(x.kind, x.name, x.file, x.line, x.first)
           /\ x.kind \in FrameTags
           /\ x.file \in Files \/ x.file = NoText
<1>1. CASE x \in SubFrames
    <2>1. PICK name \in Names, f \in Files, l \in Lines, first \in FirstLines :
                   x = Frame("SUB_FRAME", name, f, l, first)
        BY <1>1 DEF SubFrames
    <2> QED
        BY <2>1 DEF Frame, FrameTags
<1>2. CASE x \in XSubFrames
    <2>1. PICK name \in Names : x = Frame("XSUB_FRAME", name, NoText, -1, -1)
        BY <1>2 DEF XSubFrames
    <2> QED
        BY <2>1 DEF Frame, FrameTags
<1>3. ASSUME NEW kind \in {"EVAL_FRAME", "MAIN_FRAME"}, x \in FileFrames(kind)
      PROVE  /\ x = Frame(x.kind, x.name, x.file, x.line, x.first)
             /\ x.kind \in FrameTags
             /\ x.file \in Files \/ x.file = NoText
    <2>1. PICK f \in Files, l \in Lines : x = FileFrame(kind, f, l)
        BY <1>3 DEF FileFrames
    <2> QED
        BY <2>1 DEF FileFrame, Frame, FrameTags
<1> QED
    BY <1>1, <1>2, <1>3 DEF Frames

(* add_frame() and the record it writes, as the reader takes it.           *)
LEMMA FrameAdded ==
    ASSUME NEW p \in BOOLEAN \X BOOLEAN,
           NEW frames, NEW read, NEW remap, NEW begin \in BOOLEAN,
           FramesInv(p, frames, read, remap, begin),
           NEW w, NEW x \in Frames, NEW v,
           FrameRead(x.kind, v) = Raw(x), FileRead(x.kind, v) = x.file,
           x.kind \in {"SUB_FRAME", "XSUB_FRAME"} /\ v[2] = "BEGIN" <=> x.name = "BEGIN"
    PROVE  \E r, m : \E b \in BOOLEAN :
              /\ FrameSample(p, Partly(w, read, remap, begin), x.kind, v) = Partly(w, r, m, b)
              /\ FramesInv(p, Append(frames, x), r, m, b)
<1> DEFINE k == Len(frames) + 1
           new == Append(frames, x)
           S == ShownIn(p, frames)
           T == ShownIn(p, new)
           c == Cardinality(S)
           hide == p[1] /\ begin /\ x.kind \in {"EVAL_FRAME", "MAIN_FRAME"}
           b == x.name = "BEGIN"
           r == IF hide THEN read ELSE Append(read, Raw(x))
           m == remap \o (IF ~p[2] THEN <<>> ELSE <<RemapOf(x)>>)
<1>1. /\ IsSequence(new) /\ Len(new) = k /\ new[k] = x /\ Len(frames) \in Nat /\ k \in Nat
      /\ \A i \in 1 .. Len(frames) : new[i] = frames[i]
    BY AppendIs, SeqIs DEF FramesInv
<1>2. /\ Numbered(S) /\ c \in Nat
      /\ read = [i \in 1 .. c |-> Raw(frames[Nth(S, i)])]
      /\ \A i \in 1 .. c : Nth(S, i) \in S
    BY FS_CardinalityType DEF FramesInv, Numbered
<1>3. S \subseteq 1 .. Len(frames)
    BY DEF ShownIn
<1>4. HiddenIn(p, new, k) <=> hide
    <2>1. begin <=> Len(frames) > 0 /\ frames[Len(frames)].name = "BEGIN"
        BY DEF FramesInv
    <2>2. k - 1 = Len(frames) /\ (k > 1 <=> Len(frames) > 0)
        BY <1>1
    <2>3. Len(frames) > 0 => new[Len(frames)] = frames[Len(frames)]
        BY <1>1
    <2> QED
        BY <1>1, <2>1, <2>2, <2>3 DEF HiddenIn
<1>5. \A i \in 1 .. Len(frames) : HiddenIn(p, new, i) <=> HiddenIn(p, frames, i)
    <2> SUFFICES ASSUME NEW i \in 1 .. Len(frames)
                 PROVE  HiddenIn(p, new, i) <=> HiddenIn(p, frames, i)
        OBVIOUS
    <2>1. i > 1 => i - 1 \in 1 .. Len(frames)
        BY <1>1
    <2> QED
        BY <1>1, <2>1 DEF HiddenIn
<1>6. T = IF hide THEN S ELSE S \cup {k}
    <2>1. 1 .. k = (1 .. Len(frames)) \cup {k}
        BY <1>1
    <2>2. T = {i \in 1 .. k : ~HiddenIn(p, new, i)}
        BY <1>1 DEF ShownIn
    <2>3. S = {i \in 1 .. Len(frames) : ~HiddenIn(p, frames, i)}
        BY DEF ShownIn
    <2> HIDE DEF S, T, hide, new, k
    <2> QED
        BY <1>4, <1>5, <2>1, <2>2, <2>3
<1>7. /\ Numbered(T)
      /\ r = [i \in 1 .. Cardinality(T) |-> Raw(new[Nth(T, i)])]
      /\ ~hide => /\ Cardinality(T) = c + 1 /\ Nth(T, c + 1) = k
                  /\ \A i \in 1 .. c : Nth(T, i) = Nth(S, i)
    <2>1. \A i \in 1 .. c : Raw(frames[Nth(S, i)]) = Raw(new[Nth(S, i)])
        BY <1>1, <1>2, <1>3
    <2>2. CASE hide
        <3>1. T = S /\ r = read
            BY <1>6, <2>2
        <3> HIDE DEF T, S, r, new
        <3>2. read = [i \in 1 .. c |-> Raw(new[Nth(S, i)])]
            BY <1>2, <2>1
        <3> QED
            BY <1>2, <2>2, <3>1, <3>2
    <2>3. CASE ~hide
        <3>1. T = S \cup {k} /\ r = Append(read, Raw(x))
            BY <1>6, <2>3
        <3>2. \A n \in S : n < k
            BY <1>1, <1>3
        <3> HIDE DEF T, S, r, new, k, hide
        <3>3. /\ Numbered(T) /\ Cardinality(T) = c + 1
              /\ Nth(T, c + 1) = k
              /\ \A i \in 1 .. c : Nth(T, i) = Nth(S, i)
            BY <1>1, <1>2, <3>1, <3>2, NumberedGrows
        <3>4. IsSequence(read) /\ Len(read) = c
            <4>1. read = [i \in 1 .. c |-> read[i]]
                BY <1>2
            <4> QED
                BY <1>2, <4>1, FunctionIs
        <3>5. /\ r = [i \in 1 .. c + 1 |-> r[i]]
              /\ \A i \in 1 .. c : r[i] = read[i]
              /\ r[c + 1] = Raw(x)
            <4> DEFINE a == Append(read, Raw(x))
            <4>1. /\ IsSequence(a) /\ Len(a) = c + 1 /\ a[c + 1] = Raw(x)
                  /\ \A i \in 1 .. c : a[i] = read[i]
                BY <3>4, AppendIs
            <4>2. a = [i \in 1 .. Len(a) |-> a[i]]
                BY <4>1, SeqIs
            <4> HIDE DEF a
            <4> QED
                BY <3>1, <4>1, <4>2 DEF a
        <3>6. \A i \in 1 .. c + 1 : r[i] = Raw(new[Nth(T, i)])
            <4>1. ASSUME NEW i \in 1 .. c
                  PROVE  r[i] = Raw(new[Nth(T, i)])
                <5>1. read[i] = Raw(frames[Nth(S, i)])
                    BY <1>2
                <5> QED
                    BY <2>1, <3>3, <3>5, <5>1
            <4>2. r[c + 1] = Raw(new[Nth(T, c + 1)])
                BY <1>1, <3>3, <3>5
            <4>3. \A i \in 1 .. c + 1 : i \in 1 .. c \/ i = c + 1
                BY <1>2
            <4> QED
                BY <4>1, <4>2, <4>3
        <3>7. r = [i \in 1 .. c + 1 |-> Raw(new[Nth(T, i)])]
            BY <3>5, <3>6
        <3> QED
            BY <3>3, <3>7
    <2> QED
        BY <2>2, <2>3
<1>8. m = IF p[2] THEN [i \in 1 .. Len(new) |-> RemapOf(new[i])] ELSE <<>>
    <2>1. remap = IF p[2] THEN [i \in 1 .. Len(frames) |-> RemapOf(frames[i])] ELSE <<>>
        BY DEF FramesInv
    <2>2. CASE ~p[2]
        <3>1. remap = <<>> /\ m = remap \o <<>>
            BY <2>1, <2>2
        <3> QED
            BY <2>2, <3>1, EmptyIs, ConcatNothing
    <2>3. CASE p[2]
        <3> DEFINE one == <<RemapOf(x)>>
        <3>1. m = remap \o one /\ remap = [i \in 1 .. Len(frames) |-> RemapOf(frames[i])]
            BY <2>1, <2>3
        <3>2. IsSequence(one) /\ Len(one) = 1 /\ one[1] = RemapOf(x)
            BY SingleIs
        <3> HIDE DEF one, m, new
        <3>3. IsSequence(remap) /\ Len(remap) = Len(frames)
            <4>1. remap = [i \in 1 .. Len(frames) |-> remap[i]]
                BY <3>1
            <4> QED
                BY <1>1, <4>1, FunctionIs
        <3>4. /\ IsSequence(m) /\ Len(m) = k
              /\ \A i \in 1 .. Len(frames) : m[i] = remap[i]
              /\ m[k] = one[1]
            <4>1. IsSequence(m) /\ Len(m) = Len(remap) + Len(one)
                BY <3>1, <3>2, <3>3, ConcatIs
            <4>2. \A i \in 1 .. Len(remap) : m[i] = remap[i]
                BY <3>1, <3>2, <3>3, ConcatIs
            <4>3. 1 \in 1 .. Len(one)
                BY <3>2
            <4>4. m[Len(remap) + 1] = one[1]
                <5>1. (remap \o one)[Len(remap) + 1] = one[1]
                    BY <3>2, <3>3, <4>3, ConcatRight, SMTT(60)
                <5> QED
                    BY <3>1, <5>1
            <4> QED
                BY <3>2, <3>3, <4>1, <4>2, <4>4
        <3>5. \A i \in 1 .. k : m[i] = RemapOf(new[i])
            <4>1. \A i \in 1 .. k : i \in 1 .. Len(frames) \/ i = k
                BY <1>1
            <4>2. \A i \in 1 .. Len(frames) : m[i] = RemapOf(new[i])
                BY <1>1, <3>1, <3>4
            <4>3. m[k] = RemapOf(new[k])
                BY <1>1, <3>2, <3>4
            <4> QED
                BY <4>1, <4>2, <4>3
        <3>6. m = [i \in 1 .. k |-> m[i]]
            BY <3>4, SeqIs, ZenonT(60)
        <3> HIDE DEF k
        <3>7. m = [i \in 1 .. k |-> RemapOf(new[i])]
            BY <3>5, <3>6
        <3> QED
            BY <1>1, <2>3, <3>7
    <2> QED
        BY <2>2, <2>3
<1>9. ASSUME ~p[1]
      PROVE  Cardinality(T) = Len(new) /\ \A i \in 1 .. Len(new) : Nth(T, i) = i
    <2>1. c = Len(frames) /\ \A i \in 1 .. Len(frames) : Nth(S, i) = i
        BY <1>9 DEF FramesInv
    <2>2. ~hide
        BY <1>9
    <2>3. Cardinality(T) = k /\ Nth(T, k) = k
        BY <1>7, <2>1, <2>2
    <2>4. \A i \in 1 .. Len(frames) : Nth(T, i) = i
        BY <1>7, <2>1, <2>2
    <2>5. \A i \in 1 .. k : i \in 1 .. Len(frames) \/ i = k
        BY <1>1
    <2> HIDE DEF T, S, c, k
    <2> QED
        BY <1>1, <2>3, <2>4, <2>5
<1>10. b <=> Len(new) > 0 /\ new[Len(new)].name = "BEGIN"
    BY <1>1
<1>11. \A i \in 1 .. Len(new) : new[i] \in Frames
    <2>1. \A i \in 1 .. k : i \in 1 .. Len(frames) \/ i = k
        BY <1>1
    <2>2. \A i \in 1 .. Len(frames) : frames[i] \in Frames
        BY DEF FramesInv
    <2> HIDE DEF k
    <2> QED
        BY <1>1, <2>1, <2>2
<1>12. FramesInv(p, new, r, m, b)
    <2> HIDE DEF new, r, m, b
    <2> QED
        BY <1>1, <1>7, <1>8, <1>9, <1>10, <1>11 DEF FramesInv
<1>13. FrameSample(p, Partly(w, read, remap, begin), x.kind, v) = Partly(w, r, m, b)
    <2> DEFINE s == Partly(w, read, remap, begin)
    <2>1. s.begin = begin /\ s.frames = read /\ s.remap = remap /\ s.weight = w
        BY DEF Partly
    <2>2. FrameSample(p, s, x.kind, v) = [s EXCEPT !.frames = r, !.remap = m, !.begin = b]
        BY <2>1 DEF FrameSample, RemapOf
    <2> QED
        BY <2>2 DEF Partly
<1> QED
    BY <1>12, <1>13

(* The sources that the file has.                                          *)
SourcesOf(ns) == {<<n, Source[n]>> : n \in ns}

LEMMA MapEval ==
    ASSUME NEW ns, NEW f, IsEval(f)
    PROVE  maybe_map_eval(SourcesOf(ns), f) =
               IF EvalNumber(f) \in ns THEN FileName("eval", Source[EvalNumber(f)])
               ELSE IF EvalNumber(f) \in Mapped THEN FileName("mapped", f)
               ELSE make_fullfile(f)
<1> DEFINE k == EvalNumber(f)
           E == {e \in SourcesOf(ns) : e[1] = k}
<1>1. k \in ns => E = {<<k, Source[k]>>}
    <2>1. ASSUME k \in ns
          PROVE  <<k, Source[k]>> \in E
        BY <2>1 DEF SourcesOf
    <2>2. \A e \in E : e = <<k, Source[k]>>
        BY DEF SourcesOf
    <2> HIDE DEF E
    <2> QED
        BY <2>1, <2>2
<1>2. k \notin ns => E = {}
    BY DEF SourcesOf
<1> HIDE DEF k, E
<1>3. maybe_map_eval(SourcesOf(ns), f) =
          IF E # {} THEN FileName("eval", (CHOOSE e \in E : TRUE)[2])
          ELSE IF k \in Mapped THEN FileName("mapped", f)
          ELSE make_fullfile(f)
    BY DEF maybe_map_eval, k, E
<1>4. CASE k \in ns
    <2>1. (CHOOSE e \in E : TRUE) = <<k, Source[k]>>
        BY <1>1, <1>4
    <2>2. (CHOOSE e \in E : TRUE)[2] = Source[k] /\ E # {}
        BY <1>1, <1>4, <2>1
    <2> QED
        BY <1>3, <1>4, <2>2 DEF k
<1>5. CASE k \notin ns
    BY <1>2, <1>3, <1>5 DEF k
<1> QED
    BY <1>4, <1>5

LEMMA PairIs ==
    ASSUME NEW A, NEW B, NEW p \in A \X B
    PROVE  p[1] \in A /\ p[2] \in B /\ p = <<p[1], p[2]>>
OBVIOUS

LEMMA PerlIs ==
    ASSUME NEW p \in BOOLEAN \X BOOLEAN
    PROVE  /\ p[1] \in BOOLEAN /\ p[2] \in BOOLEAN
           /\ p # <<TRUE, TRUE>> => p[1] = FALSE \/ p[2] = FALSE
<1>1. p[1] \in BOOLEAN /\ p[2] \in BOOLEAN /\ p = <<p[1], p[2]>>
    BY PairIs, Zenon
<1>2. (p[1] = TRUE \/ p[1] = FALSE) /\ (p[2] = TRUE \/ p[2] = FALSE)
    BY <1>1, Zenon
<1> QED
    BY <1>1, <1>2, Zenon

(* The frames get the names they have to, but on a Perl from 5.36 on with  *)
(* evals mapped.                                                           *)
LEMMA FramesNamed ==
    ASSUME perl \in BOOLEAN \X BOOLEAN, perl # <<TRUE, TRUE>>,
           NEW frames, NEW read, NEW remap, NEW begin, FramesInv(perl, frames, read, remap, begin),
           NEW w
    PROVE  Remapped(Partly(w, read, remap, begin), SourcesOf(saved)) = Named(frames)
<1> DEFINE S == ShownIn(perl, frames)
           c == Cardinality(S)
           x == Partly(w, read, remap, begin)
           code == SourcesOf(saved)
<1>1. x.frames = read /\ x.remap = remap
    BY DEF Partly
<1>2. /\ Numbered(S) /\ c \in Nat /\ read = [i \in 1 .. c |-> Raw(frames[Nth(S, i)])]
      /\ DOMAIN frames = 1 .. Len(frames) /\ Len(frames) \in Nat
      /\ \A i \in 1 .. c : Nth(S, i) \in S
      /\ \A i \in 1 .. Len(frames) : frames[i] \in Frames
    BY FS_CardinalityType, SeqIs DEF FramesInv, Numbered
<1>3. Shown(frames) = S
    BY <1>2 DEF Shown, ShownIn, Hidden, HiddenIn, newPerl
<1> DEFINE y(i) == frames[Nth(S, i)]
<1>4. Named(frames) = [i \in 1 .. c |-> [y(i) EXCEPT !.file = NameOf(y(i), saved)]]
    BY <1>3 DEF Named
<1>5. \A i \in 1 .. c : y(i) \in Frames
    BY <1>2 DEF ShownIn
<1> HIDE DEF x
<1>6. Remapped(x, code) =
          [i \in 1 .. c |->
              IF i \in DOMAIN remap /\ remap[i] # NoText
              THEN [Raw(y(i)) EXCEPT !.file = maybe_map_eval(code, remap[i])] ELSE Raw(y(i))]
    <2> HIDE DEF S, c, code
    <2>1. DOMAIN read = 1 .. c /\ \A i \in 1 .. c : read[i] = Raw(y(i))
        BY <1>2
    <2>2. Remapped(x, code) =
              [i \in DOMAIN read |->
                  IF i \in DOMAIN remap /\ remap[i] # NoText
                  THEN [read[i] EXCEPT !.file = maybe_map_eval(code, remap[i])] ELSE read[i]]
        BY <1>1 DEF Remapped
    <2> QED
        BY <2>1, <2>2
<1> HIDE DEF code, c
<1>7. ASSUME NEW i \in 1 .. c
      PROVE  [y(i) EXCEPT !.file = NameOf(y(i), saved)] =
             IF i \in DOMAIN remap /\ remap[i] # NoText
             THEN [Raw(y(i)) EXCEPT !.file = maybe_map_eval(code, remap[i])] ELSE Raw(y(i))
    <2> DEFINE z == y(i)
    <2>1. z \in Frames /\ z = Frame(z.kind, z.name, z.file, z.line, z.first)
        BY <1>5, FrameIs
    <2>2. CASE ~map_evals
        <3>1. DOMAIN remap = {}
            BY <2>2 DEF FramesInv, map_evals
        <3>2. NameOf(z, saved) = IF z.kind \in {"MAIN_FRAME", "XSUB_FRAME"} THEN FileName("file", z.file)
                                 ELSE make_fullfile(z.file)
            BY <2>2 DEF NameOf
        <3> HIDE DEF z
        <3>3. [z EXCEPT !.file = NameOf(z, saved)] = Raw(z)
            BY <3>2 DEF Raw
        <3> QED
            BY <3>1, <3>3 DEF z
    <2>3. CASE map_evals
        <3>1. ~perl[1] /\ perl[2]
            BY <2>3, PerlIs DEF map_evals
        <3>2. c = Len(frames) /\ Nth(S, i) = i
            BY <3>1 DEF FramesInv, c
        <3>3. z = frames[i] /\ remap = [j \in 1 .. c |-> RemapOf(frames[j])]
            BY <3>1, <3>2 DEF FramesInv
        <3>4. i \in DOMAIN remap /\ remap[i] = RemapOf(z)
            BY <3>3
        <3>5. IsEval(z.file) => z.file # NoText
            BY TextsAre DEF IsEval
        <3> HIDE DEF z
        <3>6. CASE IsEval(z.file)
            <4>1. remap[i] = z.file /\ remap[i] # NoText
                BY <3>4, <3>5, <3>6 DEF RemapOf
            <4>2. NameOf(z, saved) = maybe_map_eval(code, z.file)
                BY <2>3, <3>6, MapEval DEF NameOf, code
            <4>3. [Raw(z) EXCEPT !.file = maybe_map_eval(code, remap[i])] = [z EXCEPT !.file = NameOf(z, saved)]
                <5> DEFINE g == IF z.kind \in {"MAIN_FRAME", "XSUB_FRAME"} THEN FileName("file", z.file)
                                ELSE make_fullfile(z.file)
                           h == NameOf(z, saved)
                <5>1. Raw(z) = [z EXCEPT !.file = g]
                    BY DEF Raw
                <5> HIDE DEF g, h
                <5>2. [z EXCEPT !.file = g] = Frame(z.kind, z.name, g, z.line, z.first)
                    BY <2>1 DEF Frame, z
                <5>3. [Frame(z.kind, z.name, g, z.line, z.first) EXCEPT !.file = h]
                        = Frame(z.kind, z.name, h, z.line, z.first)
                    BY DEF Frame
                <5>4. [z EXCEPT !.file = h] = Frame(z.kind, z.name, h, z.line, z.first)
                    BY <2>1 DEF Frame, z
                <5>5. h = maybe_map_eval(code, remap[i])
                    BY <4>1, <4>2 DEF h
                <5> QED
                    BY <5>1, <5>2, <5>3, <5>4, <5>5 DEF h
            <4> QED
                BY <3>4, <4>1, <4>3 DEF z
        <3>7. CASE ~IsEval(z.file)
            <4>1. remap[i] = NoText
                BY <3>4, <3>7 DEF RemapOf
            <4>2. [z EXCEPT !.file = NameOf(z, saved)] = Raw(z)
                BY <3>7 DEF NameOf, Raw
            <4> QED
                BY <4>1, <4>2 DEF z
        <3> QED
            BY <3>6, <3>7
    <2> QED
        BY <2>2, <2>3
<1> HIDE DEF y
<1>8. Remapped(x, code) = Named(frames)
    BY <1>4, <1>6, <1>7
<1> QED
    BY <1>8 DEF x, code

-----------------------------------------------------------------------------
(* The metadata                                                            *)

(* A hash with the entries of another one stored in it.                    *)
StoredOver(a, b) == {e \in a : \A u \in b : u[1] # e[1]} \cup b

LEMMA StoredOverNothing ==
    ASSUME NEW a
    PROVE  StoredOver(a, {}) = a
BY DEF StoredOver

LEMMA EntriesStored ==
    ASSUME NEW a, NEW b, NEW k, NEW kv, kv[1] = k
    PROVE  {e \in StoredOver(a, b) : e[1] # k} \cup {kv} = StoredOver(a, {e \in b : e[1] # k} \cup {kv})
<1> DEFINE c == {e \in b : e[1] # k} \cup {kv}
           s == StoredOver(a, b)
           t == {e \in s : e[1] # k} \cup {kv}
<1>1. \A e : e \in s <=> (e \in a /\ \A u \in b : u[1] # e[1]) \/ e \in b
    BY DEF StoredOver
<1>2. \A e : e \in StoredOver(a, c) <=> (e \in a /\ \A u \in c : u[1] # e[1]) \/ e \in c
    BY DEF StoredOver
<1>3. \A e : e \in c <=> e = kv \/ (e \in b /\ e[1] # k)
    OBVIOUS
<1> HIDE DEF s
<1>4. \A e : e \in t <=> e = kv \/ (e \in s /\ e[1] # k)
    OBVIOUS
<1> HIDE DEF c, t
<1>5. \A e : (\A u \in c : u[1] # e[1]) <=> e[1] # k /\ \A u \in b : u[1] # e[1]
    BY <1>3
<1>6. \A e : e \in t <=> e \in StoredOver(a, c)
    BY <1>1, <1>2, <1>3, <1>4, <1>5
<1>7. t = StoredOver(a, c)
    BY <1>6
<1> QED
    BY <1>7 DEF s, t, c

LEMMA StoreStoredOver ==
    ASSUME NEW a, NEW b, NEW k, NEW v
    PROVE  Store(StoredOver(a, b), k, v) = StoredOver(a, Store(b, k, v))
<1> DEFINE kv == <<k, v>>
<1>1. kv[1] = k
    OBVIOUS
<1> HIDE DEF kv
<1>2. {e \in StoredOver(a, b) : e[1] # k} \cup {kv} = StoredOver(a, {e \in b : e[1] # k} \cup {kv})
    BY <1>1, EntriesStored
<1> QED
    BY <1>2 DEF Store, kv

LEMMA LatestIs ==
    ASSUME NEW xs, IsSequence(xs)
    PROVE  \A e : e \in Latest(xs) <=>
               \E i \in 1 .. Len(xs) :
                  /\ e \in xs[i].metadata
                  /\ \A j \in i + 1 .. Len(xs) : \A m \in xs[j].metadata : m[1] # e[1]
<1> DEFINE L(i) == {e \in xs[i].metadata :
                      \A j \in i + 1 .. Len(xs) : \A m \in xs[j].metadata : m[1] # e[1]}
<1>1. Latest(xs) = UNION {L(i) : i \in 1 .. Len(xs)}
    BY SeqIs DEF Latest
<1>2. \A i : \A e : e \in L(i) <=>
                  /\ e \in xs[i].metadata
                  /\ \A j \in i + 1 .. Len(xs) : \A m \in xs[j].metadata : m[1] # e[1]
    OBVIOUS
<1> HIDE DEF L
<1>3. \A e : e \in Latest(xs) <=> \E i \in 1 .. Len(xs) : e \in L(i)
    BY <1>1
<1> QED
    BY <1>2, <1>3

LEMMA LatestOfNothing == Latest(<<>>) = {}
<1> DEFINE none == <<>>
<1>1. IsSequence(none) /\ Len(none) = 0
    BY EmptyIs
<1> HIDE DEF none
<1>2. \A e : e \notin Latest(none)
    BY <1>1, LatestIs
<1>3. Latest(none) = {}
    BY <1>2
<1> QED
    BY <1>3 DEF none

LEMMA LatestAppended ==
    ASSUME NEW xs, IsSequence(xs), NEW x
    PROVE  Latest(Append(xs, x)) = StoredOver(Latest(xs), x.metadata)
<1> DEFINE ys == Append(xs, x)
           n == Len(xs)
           After1(s, i, e) == \A j \in i + 1 .. Len(s) : \A m \in s[j].metadata : m[1] # e[1]
           New(e) == \A m \in x.metadata : m[1] # e[1]
<1>1. /\ IsSequence(ys) /\ Len(ys) = n + 1 /\ n \in Nat /\ ys[n + 1] = x
      /\ \A i \in 1 .. n : ys[i] = xs[i]
    BY AppendIs, SeqIs
<1>2. /\ \A e : e \in Latest(xs) <=> \E i \in 1 .. Len(xs) : e \in xs[i].metadata /\ After1(xs, i, e)
      /\ \A e : e \in Latest(ys) <=> \E i \in 1 .. Len(ys) : e \in ys[i].metadata /\ After1(ys, i, e)
    <2> HIDE DEF ys
    <2> QED
        BY <1>1, LatestIs
<1> HIDE DEF ys
<1>3. ASSUME NEW e, NEW i \in 1 .. n
      PROVE  After1(ys, i, e) <=> After1(xs, i, e) /\ New(e)
    <2>1. \A j : j \in i + 1 .. n + 1 <=> j \in i + 1 .. n \/ j = n + 1
        BY <1>1
    <2>2. \A j \in i + 1 .. n : ys[j] = xs[j]
        BY <1>1
    <2> QED
        BY <1>1, <2>1, <2>2
<1>4. \A e : After1(ys, n + 1, e)
    BY <1>1
<1>5. \A i : i \in 1 .. Len(ys) <=> i \in 1 .. n \/ i = n + 1
    BY <1>1
<1> HIDE DEF After1, New, n
<1>6. ASSUME NEW e
      PROVE  e \in Latest(ys) <=> (e \in Latest(xs) /\ New(e)) \/ e \in x.metadata
    <2>1. (\E i \in 1 .. n : e \in ys[i].metadata /\ After1(ys, i, e)) <=> e \in Latest(xs) /\ New(e)
        <3>1. \A i \in 1 .. n : ys[i] = xs[i]
            BY <1>1
        <3>2. e \in Latest(xs) <=> \E i \in 1 .. n : e \in xs[i].metadata /\ After1(xs, i, e)
            BY <1>2 DEF n
        <3> QED
            BY <1>3, <3>1, <3>2
    <2>2. (e \in ys[n + 1].metadata /\ After1(ys, n + 1, e)) <=> e \in x.metadata
        BY <1>1, <1>4
    <2>3. e \in Latest(ys) <=>
             \/ \E i \in 1 .. n : e \in ys[i].metadata /\ After1(ys, i, e)
             \/ e \in ys[n + 1].metadata /\ After1(ys, n + 1, e)
        BY <1>2, <1>5
    <2> QED
        BY <2>1, <2>2, <2>3
<1>7. \A e : e \in StoredOver(Latest(xs), x.metadata) <=> (e \in Latest(xs) /\ New(e)) \/ e \in x.metadata
    BY DEF StoredOver, New
<1>8. Latest(ys) = StoredOver(Latest(xs), x.metadata)
    BY <1>6, <1>7
<1> QED
    BY <1>8 DEF ys

-----------------------------------------------------------------------------
(* The inductive invariant                                                 *)

ReaderAt(m) ==
    /\ at = m.at /\ sample = m.sample /\ new_metadata = m.meta /\ source_code = m.code
    /\ sections = m.secs /\ file_ended = m.fended /\ stream_ended = m.sended
    /\ returned = m.ret

Unread == reader = "none" /\ ReaderAt(Start)

(* What is known of the last milestone of a file: the samples returned     *)
(* there are those that were sent, and their metadata with those that the  *)
(* reader still keeps are all there are.                                   *)
Facts(last) ==
    /\ last.phase = "body"
    /\ metadata = StoredOver(Latest(last.ret), last.meta)
    /\ perl # <<TRUE, TRUE>> => last.ret = sent

(* The variables of the reader there are those of the writer.              *)
Counterparts(last) ==
    last.secs = opened /\ last.code = SourcesOf(saved) /\ last.meta = unsent

SampleWritten(last) ==
    \E frames, read, remap : \E w \in Nat, begin \in BOOLEAN :
        /\ current = Partly(w, frames, <<>>, FALSE)
        /\ last.sample = Partly(w, read, remap, begin)
        /\ FramesInv(perl, frames, read, remap, begin)

Fresh ==
    /\ writer = "new" /\ Unread
    /\ opened = NoSections /\ sent = <<>> /\ unsent = {} /\ saved = {} /\ metadata = {}

(* A file that is written: metadata that has no sample to go with forces   *)
(* one.                                                                    *)
Writing(last) ==
    /\ writer \in {"body", "sample"} /\ Unread
    /\ Written(perl, file, durable, last) /\ durable <= Len(file)
    /\ Facts(last) /\ Counterparts(last)
    /\ ~last.fended
    /\ last.meta # {} => force_empty_frame
    /\ writer = "sample" => SampleWritten(last)

(* The bytes that were written.                                            *)
Content == IF writer = "killed" THEN file \o lost ELSE file

(* The reader is at a milestone, or ended at one, unless the file was cut  *)
(* inside a record.                                                        *)
ReaderInv(M) ==
    \/ Unread
    \/ /\ reader \in {"header", "body"}
       /\ \E m \in M : m.phase = reader /\ ReaderAt(m) /\ m.at <= Len(file)
    \/ /\ reader = "end" /\ file_ended = TRUE /\ (writer = "killed" => ~CutInside)
       /\ \E m \in M : /\ m.at = Len(file) /\ returned = m.ret
                       /\ stream_ended <=> m.sended \/ ~m.fended
    \/ /\ reader = "croak" /\ writer = "killed"
       /\ CutInside /\ ~file_ended /\ ~stream_ended
       /\ \E m \in M : returned = m.ret
    \/ reader = "crashed" /\ \E m \in M : returned = m.ret

Ended(M, last) ==
    /\ writer \in {"closed", "killed"}
    /\ Chain(perl, Content, durable, M, last)
    /\ IsSequence(file) /\ durable <= Len(file) /\ Len(Content) = last.at
    /\ Facts(last)
    /\ writer = "killed" => IsSequence(lost)
    /\ writer = "closed" => Whole(file, last) /\ last.fended /\ last.meta = {}
    /\ writer = "killed" => ~last.fended
    /\ ReaderInv(M)

IInv ==
    /\ perl \in Perls
    /\ writer # "killed" => lost = <<>>
    /\ Fresh \/ (\E last : Writing(last)) \/ (\E M, last : Ended(M, last))

LEMMA InitIInv == Init => IInv
<1> SUFFICES ASSUME Init
             PROVE  IInv
    OBVIOUS
<1>1. perl \in Perls
    BY DEF Init
<1>2. Fresh
    BY DEF Init, Fresh, Unread, ReaderAt, Start
<1>3. lost = <<>>
    BY DEF Init
<1> QED
    BY <1>1, <1>2, <1>3 DEF IInv

(* A record that is written takes the last milestone on.                   *)
LEMMA RecordAdded ==
    ASSUME NEW last, Written(perl, file, durable, last), durable <= Len(file), last.phase = "body",
           NEW b, NEW tag, NEW v, BodyCodes(b, tag, v), Accepts(last, tag, v),
           file' = file \o b, durable' = durable, perl' = perl
    PROVE  \E n : /\ \E e : n = After(perl, last, tag, v, e)
                  /\ Written(perl, file, durable, n)' /\ (durable <= Len(file))'
                  /\ n.phase = "body"
<1>1. PICK n : n = After(perl, last, tag, v, Len(file) + Len(b))
    OBVIOUS
<1>2. durable \in Nat /\ durable <= durable /\ Len(file) \in Nat
    BY LastIs
<1>3. /\ Written(perl, file \o b, durable, n)
      /\ Len(file \o b) \in Nat /\ Len(file \o b) >= Len(file)
    BY <1>1, <1>2, BodyGrows
<1>4. n.phase = "body"
    BY <1>1 DEF After
<1>5. Written(perl, file, durable, n)'
    BY <1>3
<1>6. durable' <= Len(file')
    BY <1>2, <1>3
<1> QED
    BY <1>1, <1>4, <1>5, <1>6

LEMMA UnreadStays ==
    ASSUME Unread, UNCHANGED input
    PROVE  Unread'
BY DEF Unread, ReaderAt, input

(* What each record changes at a milestone.                                *)
LEMMA AfterIs ==
    ASSUME NEW p, NEW m, NEW tag, NEW v, NEW e, NEW n, n = After(p, m, tag, v, e),
           m.fended \in BOOLEAN
    PROVE  /\ tag # "CUSTOM_META" /\ tag \notin {"SAMPLE_END"} \cup SectionTags => n.meta = m.meta
           /\ tag # "EVAL_SEQ" => n.code = m.code
           /\ tag \notin SectionTags => n.secs = m.secs
           /\ tag \notin EndTags => n.fended = m.fended
           /\ tag \in EndTags => n.fended
           /\ tag \notin {"SAMPLE_END"} \cup SectionTags => n.ret = m.ret
           /\ tag \in {"SAMPLE_END"} \cup SectionTags => n.meta = {}
           /\ n.phase = "body"
<1>1. tag # "CUSTOM_META" /\ tag \notin {"SAMPLE_END"} \cup SectionTags => n.meta = m.meta
    BY DEF After
<1>2. tag # "EVAL_SEQ" => n.code = m.code
    BY DEF After
<1>3. tag \notin SectionTags => n.secs = m.secs
    BY DEF After
<1>4. n.fended = (m.fended \/ tag \in EndTags)
    BY DEF After
<1>5. tag \notin {"SAMPLE_END"} \cup SectionTags => n.ret = m.ret
    BY DEF After
<1>6. tag \in {"SAMPLE_END"} \cup SectionTags => n.meta = {}
    BY DEF After, SectionTags
<1>7. n.phase = "body"
    BY DEF After
<1>8. (tag \notin EndTags => n.fended = m.fended) /\ (tag \in EndTags => n.fended)
    BY <1>4
<1> QED
    BY <1>1, <1>2, <1>3, <1>5, <1>6, <1>7, <1>8

-----------------------------------------------------------------------------
(* Writing                                                                 *)

LEMMA WriteHeaderStep ==
    ASSUME Fresh, NEW global \in BOOLEAN, WriteHeader(global)
    PROVE  \E n : Writing(n)'
<1> DEFINE meta == IF global THEN Record("CUSTOM_META", <<Str("meta"), Str("meta")>>) ELSE <<>>
           f == Header \o meta \o <<Tag("HEADER_SEPARATOR")>>
<1>1. HeaderWritten(perl, f, "body")
    BY HeaderIsWritten
<1>2. /\ file' = f \o (IF global THEN EmptySample ELSE <<>>)
      /\ durable' = Len(file') /\ writer' = "body"
      /\ sent' = IF global THEN <<Expect(0, NoFrames, opened)>> ELSE <<>>
      /\ UNCHANGED <<force_empty_frame, records, opened, perl, input, current, unsent, saved, metadata>>
    BY DEF WriteHeader
<1> HIDE DEF f
<1>3. PICK last : Written(perl, f, Len(f), last) /\ Blank(last, "body")
    BY <1>1 DEF HeaderWritten
<1>4. /\ last.phase = "body" /\ last.meta = {} /\ last.code = {} /\ last.secs = NoSections
      /\ last.fended = FALSE /\ last.ret = <<>>
    BY <1>3 DEF Blank
<1>5. /\ opened = NoSections /\ sent = <<>> /\ unsent = {} /\ saved = {} /\ metadata = {}
      /\ Unread'
    BY <1>2, UnreadStays DEF Fresh
<1>6. SourcesOf({}) = {}
    BY DEF SourcesOf
<1>7. CASE ~global
    <2>1. file' = f /\ sent' = <<>>
        BY <1>1, <1>2, <1>7, ConcatNothing DEF HeaderWritten
    <2>2. Written(perl, file, durable, last)' /\ durable' <= Len(file')
        <3>1. perl' = perl /\ file' = f /\ durable' = Len(f)
            BY <1>2, <2>1
        <3>2. Len(f) \in Nat
            BY <1>3, LastIs
        <3>3. Len(f) <= Len(f)
            BY <3>2
        <3> QED
            BY <1>3, <3>1, <3>3
    <2>3. Facts(last)'
        BY <1>2, <1>4, <1>5, <2>1, LatestOfNothing, StoredOverNothing DEF Facts
    <2>4. Counterparts(last)'
        BY <1>2, <1>4, <1>5, <1>6 DEF Counterparts
    <2> QED
        BY <1>2, <1>4, <1>5, <2>2, <2>3, <2>4 DEF Writing
<1>8. CASE global
    <2> DEFINE x == EmptyOf(last)
    <2>1. file' = f \o EmptySample /\ sent' = <<Expect(0, NoFrames, opened)>>
        BY <1>2, <1>8
    <2>2. PICK n :
                 /\ \A e \in Nat : Len(f) <= e => Written(perl, f \o EmptySample, e, n)
                 /\ n.phase = "body" /\ n.meta = {} /\ n.code = last.code /\ n.secs = last.secs
                 /\ n.fended = last.fended /\ n.sended = last.sended
                 /\ n.ret = Append(last.ret, x)
        <3> DEFINE d == Len(f)
        <3>1. Written(perl, f, d, last) /\ last.phase = "body"
            BY <1>3, <1>4
        <3> HIDE DEF d
        <3>2. \E n : Flushed(perl, f, d, last, n)
            BY <3>1, EmptySampleGrows
        <3>3. PICK n : Flushed(perl, f, d, last, n)
            BY <3>2
        <3> QED
            BY <3>3 DEF Flushed, d
    <2>3. Len(f \o EmptySample) \in Nat /\ Len(f \o EmptySample) >= Len(f) /\ Len(f) \in Nat
        BY <1>3, <1>4, EmptySampleGrows, LastIs
    <2>4. Written(perl, f \o EmptySample, Len(f \o EmptySample), n)
        BY <2>2, <2>3
    <2>5. Written(perl, file, durable, n)' /\ durable' <= Len(file')
        BY <1>2, <2>1, <2>3, <2>4
    <2>6. Expect(0, NoFrames, opened) = x
        BY <1>4, <1>5 DEF Expect, EmptyOf
    <2>7. n.ret = <<x>> /\ sent' = <<x>> /\ x.metadata = {}
        <3>1. \A y : Append(<<>>, y) = <<y>>
            OBVIOUS
        <3>2. x.metadata = {}
            BY <1>4 DEF EmptyOf
        <3> HIDE DEF x
        <3> QED
            BY <1>4, <2>1, <2>2, <2>6, <3>1, <3>2
    <2> HIDE DEF x
    <2>8. Latest(n.ret) = {}
        <3> DEFINE none == <<>>
        <3>1. n.ret = Append(none, x) /\ IsSequence(none) /\ Latest(none) = {}
            BY <1>4, <2>2, EmptyIs, LatestOfNothing
        <3> HIDE DEF none
        <3>2. Latest(n.ret) = StoredOver({}, {})
            BY <2>7, <3>1, LatestAppended
        <3> QED
            BY <3>2, StoredOverNothing
    <2>9. Facts(n)'
        BY <1>2, <1>5, <2>2, <2>7, <2>8, StoredOverNothing DEF Facts
    <2>10. Counterparts(n)'
        BY <1>2, <1>4, <1>5, <1>6, <2>2 DEF Counterparts
    <2> QED
        BY <1>2, <1>4, <1>5, <2>2, <2>5, <2>9, <2>10 DEF Writing
<1> QED
    BY <1>7, <1>8

LEMMA StartSampleStep ==
    ASSUME NEW last, Writing(last), NEW w \in Weights, start_sample(w)
    PROVE  \E n : Writing(n)'
<1> DEFINE b == Record("SAMPLE_START", <<Num(w), Str("op")>>)
<1>1. PICK v : BodyCodes(b, "SAMPLE_START", v) /\ v[1] = w
    <2>1. IsInt32(w) /\ "op" \in Strings
        BY TextsAre
    <2> QED
        BY <2>1, SampleCoded
<1>2. /\ writer = "body" /\ writer' = "sample" /\ file' = file \o b
      /\ current' = [NoSample EXCEPT !.weight = w]
      /\ UNCHANGED <<durable, force_empty_frame, opened, perl, input, sent, unsent, saved, metadata>>
    BY DEF start_sample, MayPut, Put
<1> HIDE DEF b
<1>3. /\ Written(perl, file, durable, last) /\ durable <= Len(file) /\ last.phase = "body"
      /\ last.fended \in BOOLEAN
    BY LastIs DEF Writing, Facts
<1>4. Accepts(last, "SAMPLE_START", v)
    BY DEF Accepts, FrameTags
<1>5. PICK n : /\ \E e : n = After(perl, last, "SAMPLE_START", v, e)
               /\ Written(perl, file, durable, n)' /\ (durable <= Len(file))'
               /\ n.phase = "body"
    BY <1>1, <1>2, <1>3, <1>4, RecordAdded, ZenonT(60)
<1>6. /\ n.meta = last.meta /\ n.code = last.code /\ n.secs = last.secs
      /\ n.fended = last.fended /\ n.ret = last.ret
    BY <1>3, <1>5, AfterIs DEF SectionTags, EndTags
<1>7. n.sample = Partly(w, <<>>, <<>>, FALSE)
    <2>1. n.sample = [NoSample EXCEPT !.weight = w]
        BY <1>1, <1>5 DEF After
    <2> QED
        BY <2>1 DEF NoSample, NoFrames, Partly
<1>8. current' = Partly(w, <<>>, <<>>, FALSE)
    BY <1>2 DEF NoSample, NoFrames, Partly
<1>9. SampleWritten(n)'
    <2>1. FramesInv(perl, <<>>, <<>>, <<>>, FALSE)'
        BY NoFramesInv
    <2>2. w \in Nat
        BY TextsAre
    <2> QED
        BY <1>7, <1>8, <2>1, <2>2 DEF SampleWritten
<1>10. Facts(n)' /\ Counterparts(n)'
    BY <1>2, <1>5, <1>6 DEF Writing, Facts, Counterparts
<1>11. Unread'
    BY <1>2, UnreadStays DEF Writing
<1> QED
    BY <1>2, <1>5, <1>6, <1>9, <1>10, <1>11 DEF Writing

LEMMA AddFrameStep ==
    ASSUME perl \in BOOLEAN \X BOOLEAN, NEW last, Writing(last), NEW x \in Frames, add_frame(x)
    PROVE  \E n : Writing(n)'
<1> DEFINE b == Record(x.kind, FrameFields(x))
<1>1. PICK v : /\ BodyCodes(b, x.kind, v)
               /\ FrameRead(x.kind, v) = Raw(x) /\ FileRead(x.kind, v) = x.file
               /\ x.kind \in {"SUB_FRAME", "XSUB_FRAME"} /\ v[2] = "BEGIN" <=> x.name = "BEGIN"
               /\ x.kind \in FrameTags
    BY FrameCoded DEF FrameTags
<1>2. /\ writer = "sample" /\ writer' = writer /\ file' = file \o b
      /\ current' = [current EXCEPT !.frames = Append(@, x)]
      /\ UNCHANGED <<durable, force_empty_frame, opened, perl, input, sent, unsent, saved, metadata>>
    BY DEF add_frame, Put
<1> HIDE DEF b
<1>3. /\ Written(perl, file, durable, last) /\ durable <= Len(file) /\ last.phase = "body"
      /\ last.fended \in BOOLEAN
    BY LastIs DEF Writing, Facts
<1>4. PICK frames, read, remap : \E w \in Nat, begin \in BOOLEAN :
          /\ current = Partly(w, frames, <<>>, FALSE)
          /\ last.sample = Partly(w, read, remap, begin)
          /\ FramesInv(perl, frames, read, remap, begin)
    BY <1>2 DEF Writing, SampleWritten
<1>5. PICK w \in Nat, begin \in BOOLEAN :
          /\ current = Partly(w, frames, <<>>, FALSE)
          /\ last.sample = Partly(w, read, remap, begin)
          /\ FramesInv(perl, frames, read, remap, begin)
    BY <1>4
<1>6. last.sample # NoSample
    <2>1. last.sample.weight = w /\ NoSample.weight = -1 /\ w # -1
        BY <1>5 DEF Partly, NoSample
    <2> QED
        BY <2>1
<1>7. Accepts(last, x.kind, v)
    BY <1>1, <1>6 DEF Accepts, FrameTags
<1>8. PICK n : /\ \E e : n = After(perl, last, x.kind, v, e)
               /\ Written(perl, file, durable, n)' /\ (durable <= Len(file))'
               /\ n.phase = "body"
    BY <1>1, <1>2, <1>3, <1>7, RecordAdded, ZenonT(60)
<1>9. /\ x.kind # "CUSTOM_META" /\ x.kind # "EVAL_SEQ" /\ x.kind \notin {"SAMPLE_END"} \cup SectionTags
      /\ x.kind \notin EndTags /\ x.kind # "SAMPLE_START"
    BY <1>1 DEF FrameTags, SectionTags, EndTags
<1>10. /\ n.meta = last.meta /\ n.code = last.code /\ n.secs = last.secs
       /\ n.fended = last.fended /\ n.ret = last.ret
    BY <1>3, <1>8, <1>9, AfterIs DEF SectionTags
<1>11. n.sample = FrameSample(perl, last.sample, x.kind, v)
    BY <1>1, <1>8, <1>9 DEF After
<1>12. PICK r, m : \E g \in BOOLEAN :
           /\ FrameSample(perl, Partly(w, read, remap, begin), x.kind, v) = Partly(w, r, m, g)
           /\ FramesInv(perl, Append(frames, x), r, m, g)
    BY <1>1, <1>5, FrameAdded
<1>13. current' = Partly(w, Append(frames, x), <<>>, FALSE)
    BY <1>2, <1>5 DEF Partly
<1>14. SampleWritten(n)'
    <2>1. perl' = perl
        BY <1>2
    <2>2. PICK g \in BOOLEAN :
              n.sample = Partly(w, r, m, g) /\ FramesInv(perl', Append(frames, x), r, m, g)
        BY <1>5, <1>11, <1>12, <2>1
    <2> QED
        BY <1>13, <2>2 DEF SampleWritten
<1>15. Facts(n)' /\ Counterparts(n)'
    BY <1>2, <1>8, <1>10 DEF Writing, Facts, Counterparts
<1>16. Unread'
    BY <1>2, UnreadStays DEF Writing
<1> QED
    BY <1>2, <1>8, <1>10, <1>14, <1>15, <1>16 DEF Writing

LEMMA SourcesOfMore ==
    ASSUME NEW ns, NEW n
    PROVE  Store(SourcesOf(ns), n, Source[n]) = SourcesOf(ns \cup {n})
<1>1. \A e : e \in SourcesOf(ns) => e[1] \in ns /\ e = <<e[1], Source[e[1]]>>
    BY DEF SourcesOf
<1>2. \A k : k \in ns => <<k, Source[k]>> \in SourcesOf(ns)
    BY DEF SourcesOf
<1>3. SourcesOf(ns \cup {n}) = SourcesOf(ns) \cup {<<n, Source[n]>>}
    BY DEF SourcesOf
<1> DEFINE kv == <<n, Source[n]>>
<1>4. \A e \in SourcesOf(ns) : e[1] = n => e = kv
    BY <1>1
<1> HIDE DEF kv
<1>5. {e \in SourcesOf(ns) : e[1] # n} \cup {kv} = SourcesOf(ns) \cup {kv}
    BY <1>4
<1> QED
    BY <1>3, <1>5 DEF Store, kv

LEMMA EvalSourceStep ==
    ASSUME NEW last, Writing(last), NEW k \in Evals, add_eval_source(k)
    PROVE  \E n : Writing(n)'
<1> DEFINE b == Record("EVAL_SEQ", <<Str(Source[k]), Num(k)>>)
<1>1. PICK v : BodyCodes(b, "EVAL_SEQ", v) /\ v[1] = Source[k] /\ v[2] = k
    BY SourceCoded
<1>2. /\ writer' = writer /\ file' = file \o b /\ saved' = saved \cup {k}
      /\ UNCHANGED <<durable, force_empty_frame, opened, perl, input, current, sent, unsent, metadata>>
    BY DEF add_eval_source, Put
<1> HIDE DEF b
<1>3. /\ Written(perl, file, durable, last) /\ durable <= Len(file) /\ last.phase = "body"
      /\ last.fended \in BOOLEAN
    BY LastIs DEF Writing, Facts
<1>4. Accepts(last, "EVAL_SEQ", v)
    BY DEF Accepts, FrameTags
<1>5. PICK n : /\ \E e : n = After(perl, last, "EVAL_SEQ", v, e)
               /\ Written(perl, file, durable, n)' /\ (durable <= Len(file))'
               /\ n.phase = "body"
    BY <1>1, <1>2, <1>3, <1>4, RecordAdded, ZenonT(60)
<1>6. /\ n.meta = last.meta /\ n.secs = last.secs
      /\ n.fended = last.fended /\ n.ret = last.ret
    BY <1>3, <1>5, AfterIs DEF SectionTags, EndTags
<1>7. n.sample = last.sample /\ n.code = Store(last.code, k, Source[k])
    BY <1>1, <1>5 DEF After, FrameTags, SectionTags
<1>8. n.code = SourcesOf(saved')
    BY <1>2, <1>7, SourcesOfMore DEF Writing, Counterparts
<1>9. Facts(n)' /\ Counterparts(n)'
    BY <1>2, <1>5, <1>6, <1>8 DEF Writing, Facts, Counterparts
<1>10. SampleWritten(last) => SampleWritten(n)'
    <2>1. current' = current /\ perl' = perl
        BY <1>2
    <2> QED
        BY <1>7, <2>1 DEF SampleWritten
<1>11. Unread'
    BY <1>2, UnreadStays DEF Writing
<1> QED
    BY <1>2, <1>5, <1>6, <1>9, <1>10, <1>11 DEF Writing

(* A sample is returned, with the metadata before it.                      *)
LEMMA FactsReturned ==
    ASSUME NEW last, Facts(last), IsSequence(last.ret), NEW n, NEW x,
           n.phase = "body", n.meta = {}, n.ret = Append(last.ret, x), x.metadata = last.meta,
           metadata' = metadata, perl' = perl,
           perl # <<TRUE, TRUE>> => sent' = Append(sent, x)
    PROVE  Facts(n)'
<1>1. Latest(n.ret) = StoredOver(Latest(last.ret), last.meta)
    BY LatestAppended
<1>2. metadata' = StoredOver(Latest(n.ret), n.meta)
    BY <1>1, StoredOverNothing DEF Facts
<1>3. perl # <<TRUE, TRUE>> => n.ret = sent'
    BY DEF Facts
<1> QED
    BY <1>2, <1>3 DEF Facts

LEMMA EndSampleStep ==
    ASSUME perl \in BOOLEAN \X BOOLEAN, NEW last, Writing(last), end_sample
    PROVE  \E n : Writing(n)'
<1> DEFINE b == Record("SAMPLE_END", <<>>)
           x == [weight |-> last.sample.weight, frames |-> Remapped(last.sample, last.code),
                 sections |-> Active(last.secs), metadata |-> last.meta]
<1>1. PICK v : BodyCodes(b, "SAMPLE_END", v)
    BY PlainCoded
<1>2. /\ writer = "sample" /\ writer' = "body" /\ file' = file \o b
      /\ sent' = Append(sent, Expect(current.weight, Named(current.frames), opened))
      /\ unsent' = {}
      /\ UNCHANGED <<durable, records, opened, perl, input, saved, metadata>>
    BY DEF end_sample, Send
<1> HIDE DEF b
<1>3. /\ Written(perl, file, durable, last) /\ durable <= Len(file) /\ last.phase = "body"
      /\ last.fended \in BOOLEAN /\ IsSequence(last.ret)
    BY LastIs DEF Writing, Facts
<1>4. PICK frames, read, remap : \E w \in Nat, begin \in BOOLEAN :
          /\ current = Partly(w, frames, <<>>, FALSE)
          /\ last.sample = Partly(w, read, remap, begin)
          /\ FramesInv(perl, frames, read, remap, begin)
    BY <1>2 DEF Writing, SampleWritten
<1>5. PICK w \in Nat, begin \in BOOLEAN :
          /\ current = Partly(w, frames, <<>>, FALSE)
          /\ last.sample = Partly(w, read, remap, begin)
          /\ FramesInv(perl, frames, read, remap, begin)
    BY <1>4
<1>6. /\ last.sample.weight = w /\ current.weight = w /\ current.frames = frames
      /\ last.sample # NoSample
    <2>1. last.sample.weight = w /\ NoSample.weight = -1 /\ w # -1
        BY <1>5 DEF Partly, NoSample
    <2>2. current.weight = w /\ current.frames = frames
        BY <1>5 DEF Partly
    <2> QED
        BY <2>1, <2>2
<1>7. Accepts(last, "SAMPLE_END", v)
    BY <1>6 DEF Accepts
<1>8. PICK n : /\ \E e : n = After(perl, last, "SAMPLE_END", v, e)
               /\ Written(perl, file, durable, n)' /\ (durable <= Len(file))'
               /\ n.phase = "body"
    BY <1>1, <1>2, <1>3, <1>7, RecordAdded, ZenonT(60)
<1>9. /\ n.meta = {} /\ n.code = last.code /\ n.secs = last.secs /\ n.fended = last.fended
    BY <1>3, <1>8, AfterIs DEF SectionTags, EndTags
<1>10. n.ret = Append(last.ret, x)
    BY <1>8 DEF After
<1>11. perl # <<TRUE, TRUE>> => Expect(current.weight, Named(current.frames), opened) = x
    <2> SUFFICES ASSUME perl # <<TRUE, TRUE>>
                 PROVE  Expect(current.weight, Named(current.frames), opened) = x
        OBVIOUS
    <2>1. Remapped(last.sample, SourcesOf(saved)) = Named(frames)
        BY <1>5, FramesNamed
    <2>2. last.code = SourcesOf(saved) /\ last.secs = opened /\ last.meta = unsent
        BY DEF Writing, Counterparts
    <2> QED
        BY <1>6, <2>1, <2>2 DEF Expect
<1>12. x.metadata = last.meta
    OBVIOUS
<1> HIDE DEF x
<1>13. perl # <<TRUE, TRUE>> => sent' = Append(sent, x)
    BY <1>2, <1>11
<1>14. Facts(n)'
    <2>1. Facts(last)
        BY DEF Writing
    <2>2. metadata' = metadata /\ perl' = perl
        BY <1>2
    <2> QED
        BY <1>3, <1>8, <1>9, <1>10, <1>12, <1>13, <2>1, <2>2, FactsReturned
<1>15. Counterparts(n)'
    BY <1>2, <1>9 DEF Writing, Counterparts
<1>16. Unread'
    BY <1>2, UnreadStays DEF Writing
<1> QED
    BY <1>2, <1>8, <1>9, <1>14, <1>15, <1>16 DEF Writing

LEMMA SectionStep ==
    ASSUME NEW last, Writing(last), NEW s \in Sections, start_section(s) \/ end_section(s)
    PROVE  \E n : Writing(n)'
<1>1. PICK tag \in {"SECTION_START", "SECTION_END"} :
          tag = IF start_section(s) THEN "SECTION_START" ELSE "SECTION_END"
    OBVIOUS
<1> DEFINE b == Record(tag, <<Str(s)>>)
<1>2. /\ writer = "body" /\ writer' = writer /\ file' = file \o b
      /\ opened' = [opened EXCEPT ![s] = Depth(tag = "SECTION_START", @)]
      /\ tag = "SECTION_END" => opened[s] > 0
      /\ sent' = Append(sent, Expect(0, NoFrames, opened')) /\ unsent' = {}
      /\ UNCHANGED <<durable, perl, input, current, saved, metadata>>
    <2>1. CASE start_section(s)
        BY <1>1, <2>1 DEF start_section, MayPut, Put, Send, Depth
    <2>2. CASE ~start_section(s)
        BY <1>1, <2>2 DEF end_section, MayPut, Put, Send, Depth
    <2> QED
        BY <2>1, <2>2
<1>3. PICK v : BodyCodes(b, tag, v) /\ v[1] = s
    BY <1>1, SectionCoded
<1> HIDE DEF b
<1>4. /\ Written(perl, file, durable, last) /\ durable <= Len(file) /\ last.phase = "body"
      /\ last.fended \in BOOLEAN /\ IsSequence(last.ret)
    BY LastIs DEF Writing, Facts
<1>5. last.secs = opened /\ last.code = SourcesOf(saved) /\ last.meta = unsent
    BY DEF Writing, Counterparts
<1>6. Accepts(last, tag, v)
    <2>1. tag = "SECTION_END" => opened[s] # 0
        BY <1>2
    <2> QED
        BY <1>1, <1>3, <1>5, <2>1 DEF Accepts, FrameTags
<1>7. PICK n : /\ \E e : n = After(perl, last, tag, v, e)
               /\ Written(perl, file, durable, n)' /\ (durable <= Len(file))'
               /\ n.phase = "body"
    BY <1>2, <1>3, <1>4, <1>6, RecordAdded, ZenonT(60)
<1>8. tag \in SectionTags /\ tag \notin EndTags /\ tag # "EVAL_SEQ" /\ tag # "SAMPLE_END"
    BY <1>1 DEF SectionTags, EndTags
<1>9. n.meta = {} /\ n.code = last.code /\ n.fended = last.fended
    BY <1>4, <1>7, <1>8, AfterIs
<1>10. SectionsAfter(last, tag, v) = opened'
    BY <1>2, <1>3, <1>5 DEF SectionsAfter
<1> DEFINE x == Expect(0, NoFrames, opened')
<1>11. n.secs = opened' /\ n.ret = Append(last.ret, x) /\ x.metadata = last.meta
    BY <1>5, <1>7, <1>8, <1>10 DEF After, Expect
<1> HIDE DEF x
<1>12. Facts(n)'
    <2>1. Facts(last)
        BY DEF Writing
    <2>2. metadata' = metadata /\ perl' = perl /\ sent' = Append(sent, x)
        BY <1>2 DEF x
    <2> QED
        BY <1>4, <1>7, <1>9, <1>11, <2>1, <2>2, FactsReturned
<1>13. Counterparts(n)'
    BY <1>2, <1>5, <1>9, <1>11 DEF Counterparts
<1>14. Unread'
    BY <1>2, UnreadStays DEF Writing
<1> QED
    BY <1>2, <1>7, <1>9, <1>12, <1>13, <1>14 DEF Writing

LEMMA MetadataStep ==
    ASSUME NEW last, Writing(last), NEW k \in MetaKeys, NEW z \in MetaValues,
           write_custom_metadata(k, z)
    PROVE  \E n : Writing(n)'
<1> DEFINE b == Record("CUSTOM_META", <<Str(k), Str(z)>>)
<1>1. PICK v : BodyCodes(b, "CUSTOM_META", v) /\ v[1] = k /\ v[2] = z
    BY TextsAre, MetaCoded
<1>2. /\ writer = "body" /\ writer' = writer /\ file' = file \o b
      /\ force_empty_frame' = TRUE
      /\ unsent' = Store(unsent, k, z) /\ metadata' = Store(metadata, k, z)
      /\ UNCHANGED <<durable, opened, perl, input, current, sent, saved>>
    BY DEF write_custom_metadata, MayPut, Put
<1> HIDE DEF b
<1>3. /\ Written(perl, file, durable, last) /\ durable <= Len(file) /\ last.phase = "body"
      /\ last.fended \in BOOLEAN
    BY LastIs DEF Writing, Facts
<1>4. Accepts(last, "CUSTOM_META", v)
    BY DEF Accepts, FrameTags
<1>5. PICK n : /\ \E e : n = After(perl, last, "CUSTOM_META", v, e)
               /\ Written(perl, file, durable, n)' /\ (durable <= Len(file))'
               /\ n.phase = "body"
    BY <1>1, <1>2, <1>3, <1>4, RecordAdded, ZenonT(60)
<1>6. n.code = last.code /\ n.secs = last.secs /\ n.fended = last.fended /\ n.ret = last.ret
    BY <1>3, <1>5, AfterIs DEF SectionTags, EndTags
<1>7. n.meta = Store(last.meta, k, z)
    BY <1>1, <1>5 DEF After
<1>8. Store(metadata, k, z) = StoredOver(Latest(n.ret), n.meta)
    BY <1>6, <1>7, StoreStoredOver DEF Writing, Facts
<1>9. Facts(n)'
    BY <1>2, <1>5, <1>6, <1>8 DEF Writing, Facts
<1>10. Counterparts(n)'
    BY <1>2, <1>6, <1>7 DEF Writing, Counterparts
<1>11. Unread'
    BY <1>2, UnreadStays DEF Writing
<1> QED
    BY <1>2, <1>5, <1>6, <1>9, <1>10, <1>11 DEF Writing

LEMMA LaterStep ==
    ASSUME NEW last, Writing(last), NEW k \in Nat, IsInt32(k), WriteLater(k)
    PROVE  \E n : Writing(n)'
<1> DEFINE b == LaterRecord(k)
           none == <<>>
<1>1. BodyCodes(b, "LATER", none)
    BY LaterCoded
<1>2. /\ writer = "body" /\ writer' = writer /\ file' = file \o b
      /\ UNCHANGED <<durable, force_empty_frame, opened, perl, input, history>>
    BY DEF WriteLater, MayPut, Put
<1> HIDE DEF b, none
<1>3. /\ Written(perl, file, durable, last) /\ durable <= Len(file) /\ last.phase = "body"
      /\ last.fended \in BOOLEAN
    BY LastIs DEF Writing, Facts
<1>4. Accepts(last, "LATER", none)
    BY DEF Accepts, FrameTags
<1>5. PICK n : /\ \E e : n = After(perl, last, "LATER", none, e)
               /\ Written(perl, file, durable, n)' /\ (durable <= Len(file))'
               /\ n.phase = "body"
    BY <1>1, <1>2, <1>3, <1>4, RecordAdded, ZenonT(60)
<1>6. /\ n.meta = last.meta /\ n.code = last.code /\ n.secs = last.secs
      /\ n.fended = last.fended /\ n.ret = last.ret
    BY <1>3, <1>5, AfterIs DEF SectionTags, EndTags
<1>7. Facts(n)' /\ Counterparts(n)'
    BY <1>2, <1>5, <1>6 DEF Writing, Facts, Counterparts, history
<1>8. Unread'
    BY <1>2, UnreadStays DEF Writing
<1> QED
    BY <1>2, <1>5, <1>6, <1>7, <1>8 DEF Writing

LEMMA FlushAdded ==
    ASSUME NEW g, NEW m, Written(perl, g, durable, m), durable <= Len(g),
           Facts(m), Counterparts(m), file' = g \o EmptySample,
           sent' = Append(sent, Expect(0, NoFrames, opened)), unsent' = {},
           UNCHANGED <<durable, opened, perl, saved, metadata>>
    PROVE  \E n : /\ Written(perl, file, durable, n)' /\ (durable <= Len(file))'
                  /\ Facts(n)' /\ Counterparts(n)'
                  /\ n.meta = {} /\ n.fended = m.fended
<1>1. m.phase = "body" /\ IsSequence(m.ret) /\ durable \in Nat /\ Len(g) \in Nat
    BY LastIs DEF Facts
<1>2. \E n : Flushed(perl, g, durable, m, n)
    BY <1>1, EmptySampleGrows
<1>3. PICK n : Flushed(perl, g, durable, m, n)
    BY <1>2
<1>4. /\ \A e \in Nat : durable <= e => Written(perl, g \o EmptySample, e, n)
      /\ n.phase = "body" /\ n.meta = {} /\ n.code = m.code /\ n.secs = m.secs
      /\ n.fended = m.fended
      /\ n.ret = Append(m.ret, EmptyOf(m))
    BY <1>3 DEF Flushed
<1>5. Len(g \o EmptySample) \in Nat /\ Len(g \o EmptySample) >= Len(g)
    BY <1>1, EmptySampleGrows
<1>6. durable <= durable
    BY <1>1
<1>7. Written(perl, file, durable, n)'
    BY <1>1, <1>4, <1>6
<1>8. durable' <= Len(file')
    BY <1>1, <1>5
<1>9. Expect(0, NoFrames, opened) = EmptyOf(m) /\ EmptyOf(m).metadata = m.meta
    BY DEF Expect, EmptyOf, Counterparts
<1>10. Facts(n)'
    BY <1>1, <1>4, <1>9, FactsReturned
<1>11. Counterparts(n)'
    BY <1>4 DEF Counterparts
<1> QED
    BY <1>4, <1>7, <1>8, <1>10, <1>11

LEMMA FlushStep ==
    ASSUME NEW last, Writing(last), flush
    PROVE  \E n : Writing(n)'
<1>1. /\ writer = "body" /\ writer' = writer /\ file' = file \o EmptySample
      /\ sent' = Append(sent, Expect(0, NoFrames, opened)) /\ unsent' = {}
      /\ UNCHANGED <<durable, opened, perl, saved, metadata>> /\ UNCHANGED input
    BY DEF flush, FlushRecords, FlushSends, Send
<1>2. PICK n : /\ Written(perl, file, durable, n)' /\ (durable <= Len(file))'
               /\ Facts(n)' /\ Counterparts(n)'
               /\ n.meta = {} /\ n.fended = last.fended
    BY <1>1, FlushAdded DEF Writing
<1>3. Unread'
    BY <1>1, UnreadStays DEF Writing
<1> QED
    BY <1>1, <1>2, <1>3 DEF Writing

LEMMA CloseStep ==
    ASSUME NEW last, Writing(last), NEW tag \in {"FILE_END", "STREAM_END"}, close(tag)
    PROVE  \E M, n : Ended(M, n)'
<1> DEFINE b == Record(tag, <<>>)
           g == file \o b
<1>1. PICK v : BodyCodes(b, tag, v)
    BY PlainCoded
<1>2. /\ writer' = "closed" /\ file' = g \o FlushRecords /\ FlushSends
      /\ UNCHANGED <<durable, opened, perl, saved, metadata>> /\ UNCHANGED input
    BY DEF close
<1> HIDE DEF b
<1>3. /\ Written(perl, file, durable, last) /\ durable <= Len(file) /\ last.phase = "body"
      /\ last.fended \in BOOLEAN /\ durable \in Nat /\ durable <= durable /\ Len(file) \in Nat
    BY LastIs DEF Writing, Facts
<1>4. tag \in EndTags /\ tag # "CUSTOM_META" /\ tag # "EVAL_SEQ" /\ tag \notin {"SAMPLE_END"} \cup SectionTags
    BY DEF EndTags, SectionTags
<1>5. Accepts(last, tag, v)
    BY DEF Accepts, FrameTags
<1>6. PICK m : m = After(perl, last, tag, v, Len(file) + Len(b))
    OBVIOUS
<1>7. Written(perl, g, durable, m) /\ durable <= Len(g)
    <2>1. /\ Written(perl, g, durable, m)
          /\ Len(g) \in Nat /\ Len(g) >= Len(file)
        BY <1>1, <1>3, <1>5, <1>6, BodyGrows
    <2> HIDE DEF g
    <2> QED
        BY <1>3, <2>1
<1>8. /\ m.meta = last.meta /\ m.code = last.code /\ m.secs = last.secs
      /\ m.fended /\ m.ret = last.ret /\ m.phase = "body"
    BY <1>3, <1>4, <1>6, AfterIs
<1>9. Facts(m) /\ Counterparts(m)
    BY <1>8 DEF Writing, Facts, Counterparts
<1> HIDE DEF g
<1>10. \E n : /\ Written(perl, file, durable, n)' /\ (durable <= Len(file))'
              /\ Facts(n)' /\ n.meta = {} /\ n.fended
    <2>1. CASE force_empty_frame
        <3>1. /\ file' = g \o EmptySample
              /\ sent' = Append(sent, Expect(0, NoFrames, opened)) /\ unsent' = {}
            BY <1>2, <2>1 DEF FlushRecords, FlushSends, Send
        <3> QED
            BY <1>2, <1>7, <1>8, <1>9, <3>1, FlushAdded
    <2>2. CASE ~force_empty_frame
        <3>1. file' = g \o <<>> /\ sent' = sent
            BY <1>2, <2>2 DEF FlushRecords, FlushSends
        <3>2. file' = g
            BY <1>7, <3>1, LastIs, ConcatNothing
        <3>3. m.meta = {}
            BY <1>8, <2>2 DEF Writing
        <3>4. Written(perl, file, durable, m)' /\ durable' <= Len(file')
            BY <1>2, <1>7, <3>2
        <3>5. Facts(m)'
            BY <1>2, <1>9, <3>1 DEF Facts
        <3> QED
            BY <1>8, <3>3, <3>4, <3>5
    <2> QED
        BY <2>1, <2>2
<1>11. PICK n : /\ Written(perl, file, durable, n)' /\ (durable <= Len(file))'
                /\ Facts(n)' /\ n.meta = {} /\ n.fended
    BY <1>10
<1>12. PICK M : Chain(perl', file', durable', M, n) /\ Whole(file', n)
    BY <1>11 DEF Written
<1>13. IsSequence(file') /\ Len(file') = n.at /\ Content' = file'
    BY <1>2, <1>12 DEF Whole, Content
<1>14. ReaderInv(M)'
    BY <1>2, UnreadStays DEF Writing, ReaderInv
<1>15. Ended(M, n)'
    BY <1>2, <1>11, <1>12, <1>13, <1>14 DEF Ended
<1> QED
    BY <1>15

LEMMA CutIs ==
    ASSUME NEW f, IsSequence(f), NEW n \in 0 .. Len(f)
    PROVE  LET g == SubSeq(f, 1, n) IN
           /\ IsSequence(g) /\ Len(g) = n
           /\ \A i \in 1 .. n : g[i] = f[i]
<1>1. PICK S : f \in Seq(S)
    BY DEF IsSequence
<1>2. n \in Nat /\ n <= Len(f)
    BY <1>1
<1>3. /\ SubSeq(f, 1, n) \in Seq(S) /\ Len(SubSeq(f, 1, n)) = n
      /\ \A i \in 1 .. n : SubSeq(f, 1, n)[i] = f[i]
    BY <1>1, <1>2
<1> QED
    BY <1>3 DEF IsSequence

(* What is left of a sequence and what is lost.                            *)
LEMMA TailIs ==
    ASSUME NEW f, IsSequence(f), NEW n \in 0 .. Len(f)
    PROVE  LET g == SubSeq(f, n + 1, Len(f)) IN
           /\ IsSequence(g) /\ Len(g) = Len(f) - n
           /\ \A i \in 1 .. Len(f) - n : g[i] = f[n + i]
<1>1. PICK S : f \in Seq(S)
    BY DEF IsSequence
<1>2. n \in Nat /\ n <= Len(f) /\ Len(f) \in Nat
    BY <1>1
<1>3. /\ SubSeq(f, n + 1, Len(f)) \in Seq(S) /\ Len(SubSeq(f, n + 1, Len(f))) = Len(f) - n
      /\ \A i \in 1 .. Len(f) - n : SubSeq(f, n + 1, Len(f))[i] = f[n + i]
    BY <1>1, <1>2
<1> QED
    BY <1>3 DEF IsSequence

LEMMA CutAndTail ==
    ASSUME NEW f, IsSequence(f), NEW n \in 0 .. Len(f)
    PROVE  SubSeq(f, 1, n) \o SubSeq(f, n + 1, Len(f)) = f
<1> DEFINE g == SubSeq(f, 1, n)
           h == SubSeq(f, n + 1, Len(f))
<1>1. Len(f) \in Nat /\ n \in Nat /\ n <= Len(f)
    BY SeqIs
<1>2. IsSequence(g) /\ Len(g) = n /\ \A i \in 1 .. n : g[i] = f[i]
    BY CutIs
<1>3. IsSequence(h) /\ Len(h) = Len(f) - n /\ \A i \in 1 .. Len(f) - n : h[i] = f[n + i]
    BY TailIs
<1> HIDE DEF g, h
<1>4. IsSequence(g \o h) /\ Len(g \o h) = Len(f)
    BY <1>1, <1>2, <1>3, ConcatIs
<1>5. ASSUME NEW i \in 1 .. Len(f)
      PROVE  (g \o h)[i] = f[i]
    <2>1. CASE i <= n
        <3>1. i \in 1 .. Len(g)
            BY <1>2, <2>1
        <3> QED
            BY <1>2, <1>3, <3>1, ConcatIs
    <2>2. CASE ~(i <= n)
        <3>1. i - n \in 1 .. Len(h) /\ n + (i - n) = i
            BY <1>1, <1>3, <2>2
        <3>2. (g \o h)[n + (i - n)] = h[i - n]
            BY <1>2, <1>3, <3>1, ConcatRight
        <3> QED
            BY <1>3, <3>1, <3>2
    <2> QED
        BY <2>1, <2>2
<1>6. g \o h = f
    <2>1. /\ g \o h = [i \in 1 .. Len(f) |-> (g \o h)[i]]
          /\ f = [i \in 1 .. Len(f) |-> f[i]]
        BY <1>4, SeqIs
    <2> QED
        BY <1>5, <2>1
<1> QED
    BY <1>6 DEF g, h

LEMMA KillStep ==
    ASSUME NEW last, Writing(last), Kill
    PROVE  \E M, n : Ended(M, n)'
<1>1. PICK k \in Cuts : /\ durable + k <= Len(file)
                       /\ file' = SubSeq(file, 1, Len(file) - k)
                       /\ lost' = SubSeq(file, Len(file) - k + 1, Len(file))
    BY DEF Kill
<1>2. /\ writer' = "killed"
      /\ UNCHANGED <<durable, force_empty_frame, records, opened, perl, input, current, sent,
                     unsent, saved, metadata>>
    BY DEF Kill
<1>3. PICK M : Chain(perl, file, durable, M, last) /\ Whole(file, last)
    BY DEF Writing, Written
<1>4. IsSequence(file) /\ Len(file) = last.at /\ Len(file) \in Nat /\ durable \in Nat
    BY <1>3, SeqIs DEF Whole, Chain
<1>5. k \in Nat
    BY KnownAssumption
<1>6. Len(file) - k \in 0 .. Len(file) /\ durable <= Len(file) - k
    BY <1>1, <1>4, <1>5
<1>7. IsSequence(file') /\ Len(file') = Len(file) - k /\ IsSequence(lost')
    BY <1>1, <1>4, <1>6, CutIs, TailIs
<1>8. Content' = file
    BY <1>1, <1>2, <1>4, <1>6, CutAndTail DEF Content
<1>9. Chain(perl', Content', durable', M, last) /\ Len(Content') = last.at /\ durable' <= Len(file')
    BY <1>2, <1>3, <1>4, <1>6, <1>7, <1>8
<1>10. Facts(last)'
    BY <1>2 DEF Writing, Facts
<1>11. ReaderInv(M)'
    BY <1>2, UnreadStays DEF Writing, ReaderInv
<1>12. Ended(M, last)'
    BY <1>2, <1>7, <1>9, <1>10, <1>11 DEF Writing, Ended
<1> QED
    BY <1>12

-----------------------------------------------------------------------------
(* Reading                                                                 *)

LEMMA EndedStays ==
    ASSUME NEW M, NEW last, Ended(M, last), UNCHANGED <<output, perl, history>>, ReaderInv(M)'
    PROVE  Ended(M, last)'
BY DEF Ended, Facts, Content, output, history

(* What is left of the file is the beginning of what was written.          *)
LEMMA ContentIs ==
    ASSUME NEW M, NEW last, Ended(M, last)
    PROVE  /\ Len(file) \in Nat /\ Len(Content) \in Nat /\ Len(file) <= Len(Content)
           /\ \A k \in Nat : \A b : IsSequence(b) /\ Lies(Content, k, b) => Lies(file, k, b)
           /\ writer = "closed" => Content = file
           /\ writer = "killed" =>
                 /\ IsSequence(lost) /\ Len(lost) \in Nat /\ Len(Content) = Len(file) + Len(lost)
                 /\ lost # <<>> <=> Len(lost) # 0
                 /\ \A i \in 1 .. Len(lost) : Content[Len(file) + i] = lost[i]
<1>1. IsSequence(file) /\ Len(file) \in Nat /\ writer \in {"closed", "killed"}
    BY SeqIs DEF Ended
<1>2. CASE writer = "closed"
    <2>1. Content = file
        BY <1>2 DEF Content
    <2> QED
        BY <1>1, <1>2, <2>1
<1>3. CASE writer = "killed"
    <2>1. Content = file \o lost /\ IsSequence(lost) /\ Len(lost) \in Nat
        BY <1>3, SeqIs DEF Content, Ended
    <2>2. /\ Len(Content) = Len(file) + Len(lost)
          /\ \A i \in 1 .. Len(file) : Content[i] = file[i]
          /\ \A i \in 1 .. Len(lost) : Content[Len(file) + i] = lost[i]
        BY <1>1, <2>1, ConcatIs
    <2>3. lost # <<>> <=> Len(lost) # 0
        <3>1. ASSUME Len(lost) = 0
              PROVE  lost = <<>>
            <4>1. PICK S : lost \in Seq(S)
                BY <2>1 DEF IsSequence
            <4> QED
                BY <3>1, <4>1
        <3> QED
            BY <3>1, EmptyIs
    <2>4. ASSUME NEW k \in Nat, NEW b, IsSequence(b), Lies(Content, k, b)
          PROVE  Lies(file, k, b)
        <3>1. Len(b) \in Nat
            BY <2>4, SeqIs
        <3> SUFFICES ASSUME NEW j \in 1 .. Len(b), k + j <= Len(file)
                     PROVE  file[k + j] = b[j]
            BY DEF Lies
        <3>2. k + j \in 1 .. Len(file) /\ k + j <= Len(Content)
            BY <1>1, <2>1, <2>2, <3>1
        <3> QED
            BY <2>2, <2>4, <3>2 DEF Lies
    <2>5. Len(Content) \in Nat /\ Len(file) <= Len(Content)
        BY <1>1, <2>1, <2>2
    <2> QED
        BY <1>1, <1>3, <2>1, <2>2, <2>3, <2>4, <2>5
<1> QED
    BY <1>1, <1>2, <1>3

LEMMA OpenStep ==
    ASSUME NEW M, NEW last, Ended(M, last), Open
    PROVE  Ended(M, last)'
<1>1. /\ reader = "none" /\ reader' = "header" /\ at' = 0
      /\ UNCHANGED <<output, perl, sample, new_metadata, custom_metadata, source_code, sections,
                     file_ended, stream_ended, returned, history>>
    BY DEF Open
<1>2. ReaderAt(Start)
    BY <1>1 DEF Ended, ReaderInv, Unread
<1>3. ReaderAt(Start)'
    BY <1>1, <1>2 DEF ReaderAt, Start
<1>4. Start \in M /\ Start.phase = "header" /\ Start.at = 0
    BY DEF Ended, Chain, Start
<1>5. 0 <= Len(file')
    BY <1>1, SeqIs DEF Ended, output
<1>6. ReaderInv(M)'
    BY <1>1, <1>3, <1>4, <1>5 DEF ReaderInv
<1> QED
    BY <1>1, <1>6, EndedStays

LEMMA ReadHeaderStep ==
    ASSUME NEW M, NEW last, Ended(M, last), ReadHeader
    PROVE  Ended(M, last)'
<1>1. reader = "header"
    BY DEF ReadHeader
<1>2. PICK m \in M : m.phase = "header" /\ ReaderAt(m) /\ m.at <= Len(file)
    BY <1>1 DEF Ended, ReaderInv, Unread
<1>3. /\ Chain(perl, Content, durable, M, last) /\ IsSequence(file) /\ durable <= Len(file)
      /\ last.phase = "body"
    BY DEF Ended, Facts
<1>4. PICK n \in M : Link(perl, Content, durable, m, n)
    BY <1>2, <1>3 DEF Chain
<1>5. PICK b, tag, v : /\ Lies(file, m.at, b) /\ HeaderCodes(b, tag, v)
                       /\ m.at + Len(b) <= durable /\ n = AfterHeader(m, tag, m.at + Len(b))
    <2>1. \E b, tag, v : /\ Lies(Content, m.at, b) /\ HeaderCodes(b, tag, v) /\ m.at + Len(b) <= durable
                         /\ n = AfterHeader(m, tag, m.at + Len(b))
        BY <1>2, <1>4 DEF Link
    <2>2. m.at \in Nat /\ \A b, tag, v : HeaderCodes(b, tag, v) => IsSequence(b)
        BY <1>3 DEF Chain, HeaderCodes
    <2> QED
        BY <2>1, <2>2, ContentIs
<1> DEFINE e == m.at + Len(b)
<1>6. e \in Nat /\ e <= Len(file) /\ m.at \in Nat
    <2>1. m.at \in Nat /\ durable \in Nat
        BY <1>3 DEF Chain
    <2>2. Len(b) \in Nat /\ Len(file) \in Nat
        BY <1>3, <1>5, SeqIs DEF HeaderCodes
    <2> QED
        BY <1>3, <1>5, <2>1, <2>2
<1>7. at = m.at
    BY <1>2 DEF ReaderAt
<1>8. ReadHeaderRecord(file, at) = Ok(tag, e, v)
    BY <1>3, <1>5, <1>6, <1>7 DEF HeaderCodes
<1> HIDE DEF e
<1>9. /\ reader' = IF tag = "HEADER_SEPARATOR" THEN "body" ELSE "header"
      /\ at' = e
      /\ UNCHANGED <<output, perl, sample, new_metadata, source_code, sections, file_ended,
                     stream_ended, returned, history>>
    <2>1. Ok(tag, e, v).status = "ok" /\ Ok(tag, e, v).tag = tag /\ Ok(tag, e, v).at = e
        BY DEF Ok
    <2> QED
        BY <1>8, <2>1 DEF ReadHeader
<1>10. /\ n.at = e /\ n.phase = reader' /\ n.sample = m.sample /\ n.meta = m.meta
       /\ n.code = m.code /\ n.secs = m.secs /\ n.fended = m.fended /\ n.sended = m.sended
       /\ n.ret = m.ret
    BY <1>5, <1>9 DEF AfterHeader, e
<1>11. ReaderAt(n)'
    BY <1>2, <1>9, <1>10 DEF ReaderAt
<1>12. n.at <= Len(file')
    BY <1>6, <1>9, <1>10 DEF output
<1>13. ReaderInv(M)'
    BY <1>9, <1>10, <1>11, <1>12 DEF ReaderInv
<1> QED
    BY <1>9, <1>13, EndedStays

(* An iteration of read_trace() for a record that is complete.             *)
ReadOk(p) ==
    \/ EndOfFile(p) \/ SkipUnknown(p)
    \/ ReadSampleStart(p) \/ ReadFrame(p) \/ ReadEvalSource(p)
    \/ ReadSampleEnd(p) \/ ReadMetadata(p) \/ ReadSection(p) \/ ReadEnd(p)

LEMMA RecordRead ==
    ASSUME Known = Tags, NEW m, m.fended \in BOOLEAN, m.sended \in BOOLEAN, ReaderAt(m),
           NEW tag, NEW v, NEW e, Accepts(m, tag, v), NEW n, n = After(perl, m, tag, v, e),
           NEW p, p = Ok(tag, e, v), ReadOk(p)
    PROVE  /\ UNCHANGED <<output, perl, history>>
           /\ \/ reader' = reader /\ ReaderAt(n)'
              \/ reader' = "crashed" /\ returned' = returned
<1>1. p.status = "ok" /\ p.tag = tag /\ p.at = e /\ p.values = v
    BY DEF Ok
<1>2. /\ at = m.at /\ sample = m.sample /\ new_metadata = m.meta /\ source_code = m.code
      /\ sections = m.secs /\ file_ended = m.fended /\ stream_ended = m.sended
      /\ returned = m.ret
    BY DEF ReaderAt
<1>3. n.at = e
    BY DEF After
<1>4. /\ tag \notin {"SAMPLE_START", "SAMPLE_END"} \cup FrameTags \cup SectionTags => n.sample = m.sample
      /\ tag \notin {"CUSTOM_META", "SAMPLE_END"} \cup SectionTags => n.meta = m.meta
      /\ tag # "EVAL_SEQ" => n.code = m.code
      /\ tag \notin SectionTags => n.secs = m.secs
      /\ tag \notin {"SAMPLE_END"} \cup SectionTags => n.ret = m.ret
    BY DEF After
<1>5. /\ tag \notin EndTags => n.fended = m.fended /\ n.sended = m.sended
      /\ tag \in EndTags => n.fended = TRUE
      /\ n.sended = (m.sended \/ tag = "STREAM_END")
    <2>1. n.fended = (m.fended \/ tag \in EndTags) /\ n.sended = (m.sended \/ tag = "STREAM_END")
        BY DEF After
    <2>2. tag \notin EndTags => tag # "STREAM_END"
        BY DEF EndTags
    <2> QED
        BY <2>1, <2>2
<1>6. ~EndOfFile(p)
    BY <1>1 DEF EndOfFile
<1>7. CASE SkipUnknown(p)
    <2>1. tag \notin Tags
        BY <1>1, <1>7 DEF SkipUnknown
    <2>2. /\ tag \notin {"SAMPLE_START", "SAMPLE_END"} \cup FrameTags \cup SectionTags
          /\ tag \notin {"CUSTOM_META", "SAMPLE_END"} \cup SectionTags /\ tag # "EVAL_SEQ"
          /\ tag \notin EndTags
        BY <2>1 DEF Tags, FrameTags, SectionTags, EndTags
    <2>3. ReaderAt(n)' /\ reader' = reader
        BY <1>1, <1>2, <1>3, <1>4, <1>5, <1>7, <2>2 DEF SkipUnknown, ReaderAt
    <2> QED
        BY <1>7, <2>3 DEF SkipUnknown
<1>8. CASE ReadSampleStart(p)
    <2>1. tag = "SAMPLE_START"
        BY <1>1, <1>8 DEF ReadSampleStart, Reading
    <2>2. n.sample = [NoSample EXCEPT !.weight = v[1]]
        BY <2>1 DEF After
    <2>3. ReaderAt(n)' /\ reader' = reader
        BY <1>1, <1>2, <1>3, <1>4, <1>5, <1>8, <2>1, <2>2 DEF ReadSampleStart, ReaderAt, SectionTags, EndTags
    <2> QED
        BY <1>8, <2>3 DEF ReadSampleStart
<1>9. CASE ReadFrame(p)
    <2>1. tag \in FrameTags
        BY <1>1, <1>9 DEF ReadFrame, Reading, FrameTags
    <2>2. /\ tag # "SAMPLE_START" /\ tag \notin {"CUSTOM_META", "SAMPLE_END"} \cup SectionTags
          /\ tag # "EVAL_SEQ" /\ tag \notin EndTags
        BY <2>1 DEF FrameTags, SectionTags, EndTags
    <2>3. sample # NoSample
        BY <1>2, <2>1 DEF Accepts
    <2>4. n.sample = WithFrame(sample, tag, v)
        <3>1. n.sample = FrameSample(perl, m.sample, tag, v)
            BY <2>1, <2>2 DEF After
        <3> QED
            BY <1>2, <3>1, WithFrameIs
    <2>5. ReaderAt(n)' /\ reader' = reader
        BY <1>1, <1>2, <1>3, <1>4, <1>5, <1>9, <2>2, <2>3, <2>4 DEF ReadFrame, ReaderAt
    <2> QED
        BY <1>9, <2>5 DEF ReadFrame
<1>10. CASE ReadEvalSource(p)
    <2>1. tag = "EVAL_SEQ"
        BY <1>1, <1>10 DEF ReadEvalSource, Reading
    <2>2. n.code = Store(m.code, v[2], v[1])
        BY <2>1 DEF After
    <2>3. ReaderAt(n)' /\ reader' = reader
        BY <1>1, <1>2, <1>3, <1>4, <1>5, <1>10, <2>1, <2>2
           DEF ReadEvalSource, ReaderAt, FrameTags, SectionTags, EndTags
    <2> QED
        BY <1>10, <2>3 DEF ReadEvalSource
<1>11. CASE ReadSampleEnd(p)
    <2>1. tag = "SAMPLE_END"
        BY <1>1, <1>11 DEF ReadSampleEnd, Reading
    <2>2. sample # NoSample
        BY <1>2, <2>1 DEF Accepts
    <2>3. /\ n.sample = NoSample /\ n.meta = {}
          /\ n.ret = Append(m.ret, Returned(m.sample.weight, Remapped(m.sample, m.code), m.secs))
        BY <1>2, <2>1 DEF After, Returned, FrameTags, SectionTags
    <2>4. /\ UNCHANGED <<output, perl, history>>
          /\ \/ reader' = "crashed" /\ returned' = returned
             \/ /\ Return(Returned(sample.weight, Remapped(sample, source_code), sections))
                /\ at' = e
                /\ UNCHANGED <<reader, custom_metadata, source_code, sections, file_ended, stream_ended>>
        BY <1>1, <1>11, <2>2 DEF ReadSampleEnd, Stop
    <2>5. CASE /\ Return(Returned(sample.weight, Remapped(sample, source_code), sections))
               /\ at' = e
               /\ UNCHANGED <<reader, custom_metadata, source_code, sections, file_ended, stream_ended>>
        <3>1. ReaderAt(n)' /\ reader' = reader
            BY <1>2, <1>3, <1>4, <1>5, <2>1, <2>3, <2>5 DEF Return, ReaderAt, SectionTags, EndTags
        <3> QED
            BY <2>4, <3>1
    <2> QED
        BY <2>4, <2>5
<1>12. CASE ReadMetadata(p)
    <2>1. tag = "CUSTOM_META"
        BY <1>1, <1>12 DEF ReadMetadata, Reading
    <2>2. n.meta = Store(m.meta, v[1], v[2])
        BY <2>1 DEF After
    <2>3. ReaderAt(n)' /\ reader' = reader
        BY <1>1, <1>2, <1>3, <1>4, <1>5, <1>12, <2>1, <2>2
           DEF ReadMetadata, ReaderAt, FrameTags, SectionTags, EndTags
    <2> QED
        BY <1>12, <2>3 DEF ReadMetadata
<1>13. CASE ReadSection(p)
    <2>1. tag \in SectionTags
        BY <1>1, <1>13 DEF ReadSection, Reading, SectionTags
    <2>2. /\ tag # "EVAL_SEQ" /\ tag \notin EndTags /\ tag # "SAMPLE_START" /\ tag \notin FrameTags
          /\ tag # "CUSTOM_META" /\ tag # "SAMPLE_END"
        BY <2>1 DEF SectionTags, FrameTags, EndTags
    <2>3. ~(tag # "SECTION_START" /\ sections[v[1]] = 0)
        BY <1>2, <2>1 DEF Accepts, SectionTags
    <2>4. /\ sections' = [sections EXCEPT ![v[1]] = Depth(tag = "SECTION_START", @)]
          /\ Return(Returned(0, NoFrames, sections'))
          /\ at' = e
          /\ UNCHANGED <<reader, custom_metadata, source_code, file_ended, stream_ended>>
          /\ UNCHANGED <<output, perl, history>>
        BY <1>1, <1>13, <2>3 DEF ReadSection
    <2>5. sections' = SectionsAfter(m, tag, v)
        BY <1>2, <2>4 DEF SectionsAfter
    <2>6. n.sample = NoSample /\ n.meta = {} /\ n.secs = sections'
          /\ n.ret = Append(m.ret, Returned(0, NoFrames, sections'))
        BY <1>2, <2>1, <2>2, <2>5 DEF After, Returned
    <2>7. ReaderAt(n)' /\ reader' = reader
        BY <1>2, <1>3, <1>4, <1>5, <2>2, <2>4, <2>6 DEF Return, ReaderAt
    <2> QED
        BY <2>4, <2>7
<1>14. CASE ReadEnd(p)
    <2>1. tag \in EndTags
        BY <1>1, <1>14 DEF ReadEnd, Reading, EndTags
    <2>2. /\ tag \notin {"SAMPLE_START", "SAMPLE_END"} \cup FrameTags \cup SectionTags
          /\ tag \notin {"CUSTOM_META", "SAMPLE_END"} \cup SectionTags /\ tag # "EVAL_SEQ"
        BY <2>1 DEF EndTags, FrameTags, SectionTags
    <2>3. ReaderAt(n)' /\ reader' = reader
        BY <1>1, <1>2, <1>3, <1>4, <1>5, <1>14, <2>1, <2>2 DEF ReadEnd, ReaderAt
    <2> QED
        BY <1>14, <2>3 DEF ReadEnd
<1> QED
    BY <1>6, <1>7, <1>8, <1>9, <1>10, <1>11, <1>12, <1>13, <1>14 DEF ReadOk

LEMMA AtEnd ==
    ASSUME NEW f, NEW k, k = Len(f)
    PROVE  ReadRecord(f, k, Known).status = "end"
BY DEF ReadRecord, Failed, Parser

(* Behind the last record reading ends, also if it was cut there.          *)
LEMMA FileEnds ==
    ASSUME NEW p, p.status = "end", ReadOk(p)
    PROVE  /\ reader' = "end" /\ file_ended' = TRUE /\ returned' = returned
           /\ stream_ended' = (stream_ended \/ ~file_ended)
           /\ UNCHANGED <<output, perl, history>>
<1>1. EndOfFile(p)
    BY DEF ReadOk, SkipUnknown, ReadSampleStart, ReadFrame, ReadEvalSource, ReadSampleEnd,
           ReadMetadata, ReadSection, ReadEnd, Reading
<1> QED
    BY <1>1 DEF EndOfFile

LEMMA FileIsCut ==
    ASSUME NEW p, p.status = "eof", ReadOk(p)
    PROVE  /\ reader' = "croak" /\ UNCHANGED <<file_ended, stream_ended, returned>>
           /\ UNCHANGED <<output, perl, history>>
<1>1. EndOfFile(p)
    BY DEF ReadOk, SkipUnknown, ReadSampleStart, ReadFrame, ReadEvalSource, ReadSampleEnd,
           ReadMetadata, ReadSection, ReadEnd, Reading
<1> QED
    BY <1>1 DEF EndOfFile, Stop

(* A cut at a milestone is one between records: each begins with a tag.    *)
LEMMA CutBetween ==
    ASSUME NEW M, NEW last, Ended(M, last), writer = "killed",
           NEW m \in M, m.at = Len(file)
    PROVE  ~CutInside
<1> SUFFICES ASSUME lost # <<>>
             PROVE  lost[1][1] = "tag"
    BY DEF CutInside
<1>1. /\ Len(file) \in Nat /\ Len(lost) \in Nat /\ Len(Content) = Len(file) + Len(lost)
      /\ Len(lost) # 0 /\ \A i \in 1 .. Len(lost) : Content[Len(file) + i] = lost[i]
    BY ContentIs
<1>2. Chain(perl, Content, durable, M, last) /\ Len(Content) = last.at
    BY DEF Ended
<1>3. m # last
    BY <1>1, <1>2
<1>4. PICK n \in M : Link(perl, Content, durable, m, n)
    BY <1>2, <1>3 DEF Chain
<1>5. PICK b, tag, v : Lies(Content, m.at, b) /\ (HeaderCodes(b, tag, v) \/ BodyCodes(b, tag, v))
    BY <1>4 DEF Link
<1>6. b[1] = Tag(tag) /\ Len(b) >= 1 /\ Len(b) \in Nat
    BY <1>5, SeqIs DEF HeaderCodes, BodyCodes
<1>7. 1 \in 1 .. Len(b) /\ 1 \in 1 .. Len(lost) /\ m.at + 1 <= Len(Content)
    BY <1>1, <1>6
<1>8. Content[m.at + 1] = b[1] /\ Content[m.at + 1] = lost[1]
    BY <1>1, <1>5, <1>7 DEF Lies
<1> QED
    BY <1>6, <1>8 DEF Tag

(* A record that ends behind the cut continues with what is lost.          *)
LEMMA RecordIsCut ==
    ASSUME NEW M, NEW last, Ended(M, last), writer = "killed",
           NEW k \in Nat, k < Len(file), NEW b, NEW tag, NEW v, BodyCodes(b, tag, v),
           Lies(Content, k, b), ~(k + Len(b) <= Len(file)), k + Len(b) <= Len(Content)
    PROVE  CutInside
<1>1. /\ Len(file) \in Nat /\ Len(lost) \in Nat /\ Len(Content) = Len(file) + Len(lost)
      /\ lost # <<>> <=> Len(lost) # 0
      /\ \A i \in 1 .. Len(lost) : Content[Len(file) + i] = lost[i]
    BY ContentIs
<1>2. Len(b) \in Nat /\ \A j \in 2 .. Len(b) : b[j][1] # "tag"
    BY SeqIs DEF BodyCodes
<1> DEFINE j == Len(file) + 1 - k
<1>3. /\ j \in 2 .. Len(b) /\ j \in 1 .. Len(b) /\ k + j = Len(file) + 1
      /\ k + j <= Len(Content) /\ 1 \in 1 .. Len(lost)
    BY <1>1, <1>2
<1> HIDE DEF j
<1>4. Content[Len(file) + 1] = b[j] /\ Content[Len(file) + 1] = lost[1]
    BY <1>1, <1>3 DEF Lies
<1>5. Len(lost) # 0
    BY <1>1, <1>3
<1> QED
    BY <1>1, <1>2, <1>3, <1>4, <1>5 DEF CutInside

LEMMA ReadTraceStep ==
    ASSUME Known = Tags, NEW M, NEW last, Ended(M, last), ReadTrace
    PROVE  Ended(M, last)'
<1>1. reader = "body"
    BY DEF ReadTrace
<1>2. PICK m \in M : m.phase = "body" /\ ReaderAt(m) /\ m.at <= Len(file)
    BY <1>1 DEF Ended, ReaderInv, Unread
<1>3. /\ Chain(perl, Content, durable, M, last) /\ IsSequence(file) /\ Len(file) <= last.at
      /\ writer \in {"closed", "killed"} /\ Len(Content) = last.at
      /\ writer = "closed" => Len(file) = last.at
      /\ writer = "killed" => ~last.fended
    BY ContentIs DEF Ended, Whole
<1>4. /\ m.at \in Nat /\ m.at <= last.at /\ last.at \in Nat /\ Len(file) \in Nat
      /\ m.fended \in BOOLEAN /\ m.sended \in BOOLEAN
      /\ (m.sended => m.fended) /\ (m.fended => last.fended)
    BY <1>3, SeqIs DEF Chain
<1>5. at = m.at
    BY <1>2 DEF ReaderAt
<1>6. PICK p : p = ReadRecord(file, at, Known) /\ ReadOk(p)
    BY DEF ReadTrace, ReadOk
<1>7. CASE m.at = Len(file)
    <2>1. p.status = "end"
        BY <1>5, <1>6, <1>7, AtEnd
    <2>2. /\ reader' = "end" /\ file_ended' = TRUE /\ returned' = returned
          /\ stream_ended' = (stream_ended \/ ~file_ended)
          /\ UNCHANGED <<output, perl, history>>
        BY <1>6, <2>1, FileEnds
    <2>3. returned' = m.ret /\ (stream_ended' <=> m.sended \/ ~m.fended)
        BY <1>2, <1>4, <2>2 DEF ReaderAt
    <2>4. m.at = Len(file')
        BY <1>7, <2>2 DEF output
    <2>5. writer = "killed" => ~CutInside
        BY <1>2, <1>7, CutBetween
    <2>6. ReaderInv(M)'
        BY <2>2, <2>3, <2>4, <2>5 DEF ReaderInv, CutInside, output, history
    <2> QED
        BY <2>2, <2>6, EndedStays
<1>8. CASE m.at # Len(file)
    <2>1. m # last
        BY <1>2, <1>3, <1>4, <1>8
    <2>2. PICK n \in M : Link(perl, Content, durable, m, n)
        BY <1>3, <2>1 DEF Chain
    <2>3. PICK b, tag, v : /\ Lies(Content, m.at, b) /\ Lies(file, m.at, b)
                           /\ BodyCodes(b, tag, v) /\ Accepts(m, tag, v)
                           /\ n = After(perl, m, tag, v, m.at + Len(b))
        <3>1. \E b, tag, v : /\ Lies(Content, m.at, b) /\ BodyCodes(b, tag, v) /\ Accepts(m, tag, v)
                             /\ n = After(perl, m, tag, v, m.at + Len(b))
            BY <1>2, <2>2 DEF Link
        <3>2. \A b, tag, v : BodyCodes(b, tag, v) => IsSequence(b)
            BY DEF BodyCodes
        <3> QED
            BY <1>4, <3>1, <3>2, ContentIs
    <2> DEFINE e == m.at + Len(b)
    <2>4. /\ e \in Nat /\ n.at = e /\ n.phase = "body" /\ n.at <= last.at
        <3>1. Len(b) \in Nat
            BY <2>3, SeqIs DEF BodyCodes
        <3>2. n.at = e /\ n.phase = "body"
            BY <2>3 DEF After
        <3> QED
            BY <1>3, <1>4, <3>1, <3>2 DEF Chain
    <2>5. IF e <= Len(file) THEN p = Ok(tag, e, v) ELSE p.status = "eof"
        <3>1. m.at <= Len(file)
            BY <1>2
        <3>2. \A k \in Nat : IsSequence(file) /\ k <= Len(file) /\ Lies(file, k, b) =>
              LET q == ReadRecord(file, k, Tags) IN
              IF k = Len(file) THEN q.status = "end"
              ELSE IF k + Len(b) <= Len(file) THEN q = Ok(tag, k + Len(b), v)
              ELSE q.status = "eof"
            BY <2>3 DEF BodyCodes
        <3> QED
            BY <1>3, <1>4, <1>5, <1>6, <1>8, <2>3, <3>1, <3>2
    <2> HIDE DEF e
    <2>6. CASE e <= Len(file)
        <3>1. n = After(perl, m, tag, v, e)
            BY <2>3 DEF e
        <3>2. /\ UNCHANGED <<output, perl, history>>
              /\ \/ reader' = reader /\ ReaderAt(n)'
                 \/ reader' = "crashed" /\ returned' = returned
            BY <1>2, <1>4, <1>6, <2>3, <2>5, <2>6, <3>1, RecordRead
        <3>3. CASE reader' = reader /\ ReaderAt(n)'
            <4>1. n.at <= Len(file')
                BY <2>4, <2>6, <3>2 DEF output
            <4>2. ReaderInv(M)'
                BY <1>1, <2>4, <3>3, <4>1 DEF ReaderInv
            <4> QED
                BY <3>2, <4>2, EndedStays
        <3>4. CASE reader' = "crashed" /\ returned' = returned
            <4>1. returned' = m.ret
                BY <1>2, <3>4 DEF ReaderAt
            <4>2. ReaderInv(M)'
                BY <3>4, <4>1 DEF ReaderInv
            <4> QED
                BY <3>2, <4>2, EndedStays
        <3> QED
            BY <3>2, <3>3, <3>4
    <2>7. CASE ~(e <= Len(file))
        <3>1. /\ reader' = "croak" /\ UNCHANGED <<file_ended, stream_ended, returned>>
              /\ UNCHANGED <<output, perl, history>>
            BY <1>6, <2>5, <2>7, FileIsCut
        <3>2. writer = "killed"
            <4>1. Len(file) # last.at
                BY <1>4, <2>4, <2>7
            <4> QED
                BY <1>3, <4>1
        <3>3. CutInside
            <4>1. e <= Len(Content) /\ m.at < Len(file)
                BY <1>2, <1>3, <1>4, <1>8, <2>4
            <4> QED
                BY <1>4, <2>3, <2>7, <3>2, <4>1, RecordIsCut DEF e
        <3>4. ~file_ended /\ ~stream_ended
            BY <1>2, <1>3, <1>4, <3>2 DEF ReaderAt
        <3>5. returned' = m.ret
            BY <1>2, <3>1 DEF ReaderAt
        <3>6. ReaderInv(M)'
            BY <3>1, <3>2, <3>3, <3>4, <3>5 DEF ReaderInv, CutInside, output, history
        <3> QED
            BY <3>1, <3>6, EndedStays
    <2> QED
        BY <2>6, <2>7
<1> QED
    BY <1>7, <1>8

-----------------------------------------------------------------------------
(* Every step                                                              *)

LEMMA FreshStep ==
    ASSUME Fresh, Next
    PROVE  \E n : Writing(n)'
<1>1. writer = "new" /\ reader = "none"
    BY DEF Fresh, Unread
<1>2. PICK global \in BOOLEAN : WriteHeader(global)
    BY <1>1 DEF Next, start_sample, add_frame, add_eval_source, end_sample, start_section,
           end_section, write_custom_metadata, WriteLater, flush, close, Kill, MayPut, Open,
           ReadHeader, ReadTrace
<1> QED
    BY <1>2, WriteHeaderStep

LEMMA WritingStep ==
    ASSUME perl \in Perls, NEW last, Writing(last), Next
    PROVE  (\E n : Writing(n)') \/ (\E M, n : Ended(M, n)')
<1>1. writer \in {"body", "sample"} /\ reader = "none"
    BY DEF Writing, Unread
<1>2. perl \in BOOLEAN \X BOOLEAN
    BY TextsAssumption
<1>3. ASSUME NEW w \in Weights, start_sample(w)
      PROVE  \E n : Writing(n)'
    BY <1>3, StartSampleStep
<1>4. ASSUME NEW x \in Frames, add_frame(x)
      PROVE  \E n : Writing(n)'
    BY <1>2, <1>4, AddFrameStep
<1>5. ASSUME NEW k \in Evals, add_eval_source(k)
      PROVE  \E n : Writing(n)'
    BY <1>5, EvalSourceStep
<1>6. ASSUME end_sample
      PROVE  \E n : Writing(n)'
    BY <1>2, <1>6, EndSampleStep
<1>7. ASSUME NEW s \in Sections, start_section(s) \/ end_section(s)
      PROVE  \E n : Writing(n)'
    BY <1>7, SectionStep
<1>8. ASSUME NEW k \in MetaKeys, NEW z \in MetaValues, write_custom_metadata(k, z)
      PROVE  \E n : Writing(n)'
    BY <1>8, MetadataStep
<1>9. ASSUME WriteLater(2)
      PROVE  \E n : Writing(n)'
    <2>1. 2 \in Nat /\ IsInt32(2)
        BY DEF IsInt32
    <2> QED
        BY <1>9, <2>1, LaterStep
<1>10. ASSUME flush
       PROVE  \E n : Writing(n)'
    BY <1>10, FlushStep
<1>11. ASSUME NEW tag \in {"FILE_END", "STREAM_END"}, close(tag)
       PROVE  \E M, n : Ended(M, n)'
    BY <1>11, CloseStep
<1>12. ASSUME Kill
       PROVE  \E M, n : Ended(M, n)'
    BY <1>12, KillStep
<1>13. ~(\E global \in BOOLEAN : WriteHeader(global)) /\ ~Open /\ ~ReadHeader /\ ~ReadTrace
    BY <1>1 DEF WriteHeader, Open, ReadHeader, ReadTrace
<1> QED
    BY <1>3, <1>4, <1>5, <1>6, <1>7, <1>8, <1>9, <1>10, <1>11, <1>12, <1>13 DEF Next

LEMMA EndedStep ==
    ASSUME Known = Tags, NEW M, NEW last, Ended(M, last), Next
    PROVE  Ended(M, last)'
<1>1. writer \in {"closed", "killed"}
    BY DEF Ended
<1>2. Open \/ ReadHeader \/ ReadTrace
    BY <1>1 DEF Next, WriteHeader, start_sample, add_frame, add_eval_source, end_sample,
           start_section, end_section, write_custom_metadata, WriteLater, flush, close, Kill,
           MayPut
<1> QED
    BY <1>2, OpenStep, ReadHeaderStep, ReadTraceStep

LEMMA PerlStays ==
    ASSUME Next
    PROVE  perl' = perl
BY DEF Next, WriteHeader, start_sample, add_frame, add_eval_source, end_sample,
       start_section, end_section, write_custom_metadata, WriteLater, flush, close, Kill,
       Open, ReadHeader, ReadTrace, EndOfFile, SkipUnknown, ReadSampleStart, ReadFrame,
       ReadEvalSource, ReadSampleEnd, ReadMetadata, ReadSection, ReadEnd

(* Only a writer that is killed loses bytes.                               *)
LEMMA LostStays ==
    ASSUME writer # "killed" => lost = <<>>, Next
    PROVE  (writer # "killed" => lost = <<>>)'
<1>1. CASE Kill
    BY <1>1 DEF Kill
<1>2. CASE ~Kill
    <2>1. lost' = lost
        BY <1>2 DEF Next, WriteHeader, start_sample, add_frame, add_eval_source, end_sample,
                    start_section, end_section, write_custom_metadata, WriteLater, flush, close,
                    Open, ReadHeader, ReadTrace, EndOfFile, SkipUnknown, ReadSampleStart,
                    ReadFrame, ReadEvalSource, ReadSampleEnd, ReadMetadata, ReadSection, ReadEnd,
                    history
    <2>2. writer = "killed" => writer' = "killed"
        BY <1>2 DEF Next, WriteHeader, start_sample, add_frame, add_eval_source, end_sample,
                    start_section, end_section, write_custom_metadata, WriteLater, flush, close,
                    Open, ReadHeader, ReadTrace, EndOfFile, SkipUnknown, ReadSampleStart,
                    ReadFrame, ReadEvalSource, ReadSampleEnd, ReadMetadata, ReadSection, ReadEnd,
                    MayPut, output
    <2> QED
        BY <2>1, <2>2
<1> QED
    BY <1>1, <1>2

LEMMA Stuttering ==
    ASSUME IInv, UNCHANGED vars
    PROVE  IInv'
<1>1. /\ UNCHANGED <<writer, file, durable, force_empty_frame, records, opened, perl>>
      /\ UNCHANGED <<reader, at, sample, new_metadata, custom_metadata, source_code, sections,
                     file_ended, stream_ended, returned>>
      /\ UNCHANGED <<current, sent, unsent, saved, lost, metadata>>
    BY DEF vars, output, input, history
<1>2. Unread => Unread'
    BY <1>1 DEF Unread, ReaderAt
<1>3. Fresh => Fresh'
    BY <1>1, <1>2 DEF Fresh
<1>4. ASSUME NEW last, Writing(last)
      PROVE  Writing(last)'
    BY <1>1, <1>2, <1>4 DEF Writing, Facts, Counterparts, SampleWritten
<1>5. ASSUME NEW M, NEW last, Ended(M, last)
      PROVE  Ended(M, last)'
    <2>1. ReaderInv(M)'
        BY <1>1, <1>2, <1>5 DEF Ended, ReaderInv, ReaderAt, CutInside
    <2> QED
        BY <1>1, <1>5, <2>1, EndedStays DEF output, history
<1> QED
    BY <1>1, <1>3, <1>4, <1>5 DEF IInv

LEMMA NextIInv ==
    ASSUME Known = Tags, IInv, [Next]_vars
    PROVE  IInv'
<1>1. CASE Next
    <2>1. perl' \in Perls /\ (writer # "killed" => lost = <<>>)'
        BY <1>1, PerlStays, LostStays DEF IInv
    <2>2. CASE Fresh
        BY <1>1, <2>1, <2>2, FreshStep DEF IInv
    <2>3. CASE \E last : Writing(last)
        BY <1>1, <2>1, <2>3, WritingStep DEF IInv
    <2>4. CASE \E M, last : Ended(M, last)
        BY <1>1, <2>1, <2>4, EndedStep DEF IInv
    <2> QED
        BY <2>2, <2>3, <2>4 DEF IInv
<1>2. CASE UNCHANGED vars
    BY <1>2, Stuttering
<1> QED
    BY <1>1, <1>2

-----------------------------------------------------------------------------
(* What the invariant implies                                              *)

(* Before reading and while the file is written, nothing is returned.      *)
LEMMA UnreadIs ==
    ASSUME Unread
    PROVE  reader = "none" /\ returned = <<>>
BY DEF Unread, ReaderAt, Start

LEMMA RecordsReadHolds ==
    ASSUME IInv
    PROVE  RecordsRead
<1>1. Unread => RecordsRead
    BY DEF Unread, RecordsRead
<1>2. ASSUME NEW M, NEW last, Ended(M, last)
      PROVE  RecordsRead
    <2>1. ReaderInv(M)
        BY <1>2 DEF Ended
    <2> QED
        BY <1>1, <2>1 DEF ReaderInv, RecordsRead
<1> QED
    BY <1>1, <1>2 DEF IInv, Fresh, Writing

(* All of a closed file is read: the reader ends at the last milestone.    *)
LEMMA ReadToTheLast ==
    ASSUME NEW M, NEW last, Ended(M, last), reader = "end", writer = "closed"
    PROVE  returned = last.ret /\ (stream_ended <=> last.sended) /\ last.meta = {}
<1>1. PICK m \in M : /\ m.at = Len(file) /\ returned = m.ret
                     /\ stream_ended <=> m.sended \/ ~m.fended
    BY DEF Ended, ReaderInv, Unread
<1>2. Len(file) = last.at /\ last.fended /\ last.meta = {} /\ Chain(perl, Content, durable, M, last)
    BY DEF Ended, Whole
<1>3. m.at \in Nat
    BY <1>2 DEF Chain
<1>4. ~(m.at < last.at)
    BY <1>1, <1>2, <1>3
<1>5. m = last
    BY <1>2, <1>4 DEF Chain
<1> QED
    BY <1>1, <1>2, <1>5

LEMMA EndReportedHolds ==
    ASSUME IInv
    PROVE  EndReported
<1>1. Unread => EndReported
    BY DEF Unread, EndReported
<1>2. ASSUME NEW M, NEW last, Ended(M, last), reader = "end"
      PROVE  EndReported
    <2>1. PICK m \in M : /\ m.at = Len(file) /\ returned = m.ret
                         /\ stream_ended <=> m.sended \/ ~m.fended
        BY <1>2 DEF Ended, ReaderInv, Unread
    <2>2. file_ended /\ writer \in {"closed", "killed"}
        BY <1>2 DEF Ended, ReaderInv, Unread
    <2>3. writer = "killed" => stream_ended /\ ~CutInside
        BY <1>2, <2>1 DEF Ended, Chain, ReaderInv, Unread
    <2>4. writer = "closed" =>
             (stream_ended <=> \E k \in 1 .. Len(file) : file[k] = Tag("STREAM_END"))
        BY <1>2, ReadToTheLast DEF Ended, Whole
    <2>5. writer = "closed" => ~CutInside
        BY DEF IInv, CutInside
    <2> QED
        BY <1>2, <2>2, <2>3, <2>4, <2>5 DEF EndReported
<1>3. ASSUME NEW M, NEW last, Ended(M, last), reader # "end"
      PROVE  EndReported
    <2>1. ReaderInv(M)
        BY <1>3 DEF Ended
    <2>2. reader = "croak" => CutInside /\ ~file_ended /\ ~stream_ended
        BY <2>1 DEF ReaderInv, Unread
    <2> QED
        BY <1>3, <2>2 DEF EndReported
<1> QED
    BY <1>1, <1>2, <1>3 DEF IInv, Fresh, Writing

LEMMA MetadataReturnedHolds ==
    ASSUME IInv
    PROVE  MetadataReturned
<1>1. Unread => MetadataReturned
    BY DEF Unread, MetadataReturned
<1>2. ASSUME NEW M, NEW last, Ended(M, last), reader = "end", writer = "closed"
      PROVE  MetadataReturned
    <2>1. returned = last.ret /\ last.meta = {}
        BY <1>2, ReadToTheLast
    <2>2. metadata = StoredOver(Latest(last.ret), {})
        BY <1>2, <2>1 DEF Ended, Facts
    <2> QED
        BY <2>1, <2>2, StoredOverNothing DEF MetadataReturned
<1> QED
    BY <1>1, <1>2 DEF IInv, Fresh, Writing, MetadataReturned

LEMMA PrefixIs ==
    ASSUME NEW s, NEW t, IsSequence(s), IsSequence(t), StartOf(s, t)
    PROVE  IsPrefix(s, t)
<1>1. PICK S, T : s \in Seq(S) /\ t \in Seq(T)
    BY DEF IsSequence
<1>2. Len(s) \in Nat /\ Len(t) \in Nat /\ Len(s) <= Len(t) /\ \A i \in 1 .. Len(s) : s[i] = t[i]
    BY <1>1 DEF StartOf
<1>3. /\ SubSeq(s, 1, Len(s)) = [i \in 1 .. Len(s) |-> s[i]]
      /\ SubSeq(t, 1, Len(s)) = [i \in 1 .. Len(s) |-> t[i]]
    BY <1>1, <1>2
<1> QED
    BY <1>2, <1>3 DEF IsPrefix

(* What is sent is a sequence, and reading has returned a part of it.      *)
LEMMA SamplesReturnedHolds ==
    ASSUME <<TRUE, TRUE>> \notin Perls, IInv
    PROVE  SamplesReturned
<1>1. perl # <<TRUE, TRUE>>
    BY DEF IInv
<1>2. ASSUME Unread, IsSequence(sent)
      PROVE  SamplesReturned
    <2>1. IsPrefix(returned, sent)
        <3> DEFINE none == <<>>
        <3>1. returned = none /\ IsSequence(none) /\ Len(none) = 0
            BY <1>2, UnreadIs, EmptyIs
        <3> HIDE DEF none
        <3>2. StartOf(none, sent)
            BY <1>2, <3>1, SeqIs DEF StartOf
        <3> QED
            BY <1>2, <3>1, <3>2, PrefixIs
    <2> QED
        BY <1>2, <2>1 DEF SamplesReturned, Unread
<1>3. CASE Fresh
    BY <1>2, <1>3, EmptyIs DEF Fresh
<1>4. ASSUME NEW last, Writing(last)
      PROVE  SamplesReturned
    <2>1. sent = last.ret /\ Unread
        BY <1>1, <1>4 DEF Writing, Facts
    <2>2. IsSequence(last.ret)
        BY <1>4, LastIs DEF Writing
    <2> QED
        BY <1>2, <2>1, <2>2
<1>5. ASSUME NEW M, NEW last, Ended(M, last)
      PROVE  SamplesReturned
    <2>1. sent = last.ret /\ ReaderInv(M) /\ Chain(perl, Content, durable, M, last)
        BY <1>1, <1>5 DEF Ended, Facts
    <2>2. IsSequence(last.ret)
        BY <2>1 DEF Chain
    <2>3. CASE Unread
        BY <1>2, <2>1, <2>2, <2>3
    <2>4. CASE \E m \in M : returned = m.ret
        <3>1. PICK m \in M : returned = m.ret
            BY <2>4
        <3>2. IsPrefix(returned, sent)
            BY <2>1, <2>2, <3>1, PrefixIs DEF Chain
        <3>3. reader = "end" /\ writer = "closed" => returned = sent
            BY <1>5, <2>1, ReadToTheLast
        <3> QED
            BY <3>2, <3>3 DEF SamplesReturned
    <2>5. Unread \/ \E m \in M : returned = m.ret
        BY <2>1 DEF ReaderInv, ReaderAt
    <2> QED
        BY <2>3, <2>4, <2>5
<1> QED
    BY <1>3, <1>4, <1>5 DEF IInv

-----------------------------------------------------------------------------

LEMMA Invariant ==
    ASSUME Known = Tags
    PROVE  Spec => []IInv
<1>1. IInv /\ [Next]_vars => IInv'
    BY NextIInv
<1> QED
    BY InitIInv, <1>1, PTL DEF Spec

(* RecordsRead: a reader that knows the tags of this release finds every   *)
(* record where it was written, for texts of any sizes, any number of      *)
(* records and a cut at any byte behind the header.                        *)
THEOREM RecordsAreRead ==
    ASSUME Known = Tags
    PROVE  Spec => []RecordsRead
<1>1. IInv => RecordsRead
    BY RecordsReadHolds
<1> QED
    BY <1>1, Invariant, PTL

(* SamplesReturned: the samples are returned as they were written, in      *)
(* order, and all of them if the file was closed.  With evals mapped on a  *)
(* Perl from 5.36 on, try_eval_remap is not in step with the frames, and   *)
(* this does not hold.                                                     *)
THEOREM SamplesAreReturned ==
    ASSUME Known = Tags, <<TRUE, TRUE>> \notin Perls
    PROVE  Spec => []SamplesReturned
<1>1. IInv => SamplesReturned
    BY SamplesReturnedHolds
<1> QED
    BY <1>1, Invariant, PTL

(* MetadataReturned: all metadata of a closed file is returned with some   *)
(* sample, the last value of each key.                                     *)
THEOREM MetadataAreReturned ==
    ASSUME Known = Tags
    PROVE  Spec => []MetadataReturned
<1>1. IInv => MetadataReturned
    BY MetadataReturnedHolds
<1> QED
    BY <1>1, Invariant, PTL

(* EndReported: a file that was closed as the last one of its stream, or   *)
(* cut between two records, ends the stream, and no other does; one that   *)
(* was cut inside a record makes the reader croak, and ends nothing.       *)
THEOREM EndsAreReported ==
    ASSUME Known = Tags
    PROVE  Spec => []EndReported
<1>1. IInv => EndReported
    BY EndReportedHolds
<1> QED
    BY <1>1, Invariant, PTL

=============================================================================
