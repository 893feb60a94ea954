------------------------- MODULE TraceSessionProofs -------------------------
(***************************************************************************)
(* Proofs about TraceSession, for any contexts, sections, bounds and       *)
(* events: types, files with one writer, the genealogy, the fork handlers, *)
(* that the files evolve as TraceStream says, and that readers find the    *)
(* sections of the profiled program.                                       *)
(***************************************************************************)
EXTENDS TraceSession, FiniteSetTheorems, WellFoundedInduction, TLAPS

-----------------------------------------------------------------------------
(* Sequences                                                               *)

LEMMA PrefixByIndex ==
    ASSUME NEW S, NEW s \in Seq(S), NEW t \in Seq(S)
    PROVE  IsPrefix(s, t) <=> Len(s) <= Len(t) /\ \A i \in 1 .. Len(s) : s[i] = t[i]
<1>1. ASSUME Len(s) <= Len(t)
      PROVE  SubSeq(s, 1, Len(s)) = SubSeq(t, 1, Len(s)) <=> \A i \in 1 .. Len(s) : s[i] = t[i]
    <2>1. /\ SubSeq(s, 1, Len(s)) = [i \in 1 .. Len(s) |-> s[i]]
          /\ SubSeq(t, 1, Len(s)) = [i \in 1 .. Len(s) |-> t[i]]
        BY <1>1
    <2> QED
        BY <2>1
<1> QED
    BY <1>1 DEF IsPrefix

LEMMA PrefixFacts ==
    ASSUME NEW S, NEW s \in Seq(S), NEW t \in Seq(S), NEW u \in Seq(S)
    PROVE  /\ IsPrefix(s, s) /\ IsPrefix(s, s \o t)
           /\ IsPrefix(s, t) /\ IsPrefix(t, u) => IsPrefix(s, u)
<1>1. IsPrefix(s, s)
    BY PrefixByIndex
<1>2. IsPrefix(s, s \o t)
    <2>1. s \o t \in Seq(S)
        OBVIOUS
    <2>2. Len(s) <= Len(s \o t) /\ \A i \in 1 .. Len(s) : s[i] = (s \o t)[i]
        OBVIOUS
    <2> QED
        BY <2>1, <2>2, PrefixByIndex
<1>3. ASSUME IsPrefix(s, t), IsPrefix(t, u)
      PROVE  IsPrefix(s, u)
    <2>1. /\ Len(s) <= Len(t) /\ \A i \in 1 .. Len(s) : s[i] = t[i]
          /\ Len(t) <= Len(u) /\ \A i \in 1 .. Len(t) : t[i] = u[i]
        BY <1>3, PrefixByIndex
    <2>2. Len(s) <= Len(u) /\ \A i \in 1 .. Len(s) : s[i] = u[i]
        BY <2>1
    <2> QED
        BY <2>2, PrefixByIndex
<1> QED
    BY <1>1, <1>2, <1>3

LEMMA MarkersAre ==
    ASSUME NEW x
    PROVE  /\ Markers(x) \in Seq(Records)
           /\ \A i, j \in 1 .. Len(Markers(x)) : Markers(x)[i] = Markers(x)[j] => i = j
           /\ \A i \in 1 .. Len(Markers(x)) : \E s \in Sections :
                 Markers(x)[i] = <<"start", s>> /\ x.sections[s] > 0
           /\ \A s \in Sections : x.sections[s] > 0 =>
                 \E i \in 1 .. Len(Markers(x)) : Markers(x)[i] = <<"start", s>>
<1> DEFINE T == {t \in Sections : x.sections[t] > 0}
           f == [s \in T |-> <<"start", s>>]
           S == {f[s] : s \in T}
           n == Cardinality(S)
           q == SetToSeq(S)
<1>1. IsFiniteSet(T)
    BY SetsAssumption, FS_Subset
<1>2. IsFiniteSet(S)
    <2>1. f \in Surjection(T, S)
        BY DEF Surjection
    <2> QED
        BY <1>1, <2>1, FS_Surjection
<1>3. S = {<<"start", s>> : s \in T}
    OBVIOUS
<1>4. S \subseteq Records
    <2>1. \A s \in T : f[s] = <<"start", s>> /\ s \in Sections
        OBVIOUS
    <2>2. \A s \in Sections : <<"start", s>> \in Records
        BY DEF Records
    <2> QED
        BY <2>1, <2>2
<1>5. Markers(x) = q
    BY <1>3 DEF Markers
<1>6. \A s \in Sections : x.sections[s] > 0 => <<"start", s>> \in S
    BY <1>3
<1>7. \A e \in S : \E s \in Sections : e = <<"start", s>> /\ x.sections[s] > 0
    BY <1>3
<1> HIDE DEF S
<1>8. n \in Nat /\ \E g \in [1 .. n -> S] : IsInjective(g)
    BY <1>2, FS_CardinalityType DEF ExistsBijection, Bijection, Injection, IsInjective
<1>9. q \in [1 .. n -> S] /\ IsInjective(q)
    BY <1>8 DEF SetToSeq
<1>10. q \in Surjection(1 .. n, S)
    <2>1. q \in Injection(1 .. n, S)
        BY <1>9 DEF Injection
    <2>2. 1 \in Int /\ n \in Int
        BY <1>8
    <2>3. Cardinality(1 .. n) = n
        BY <1>8, <2>2, FS_Interval
    <2> QED
        BY <1>2, <2>1, <2>3, FS_Injection
<1> HIDE DEF q, n
<1>11. q \in Seq(Records) /\ Len(q) = n
    BY <1>4, <1>8, <1>9
<1>12. \A e \in S : \E i \in 1 .. n : q[i] = e
    BY <1>10 DEF Surjection
<1>13. \A i, j \in 1 .. n : q[i] = q[j] => i = j
    BY <1>9 DEF IsInjective
<1>14. \A i \in 1 .. n : q[i] \in S
    BY <1>9
<1> QED
    BY <1>5, <1>6, <1>7, <1>11, <1>12, <1>13, <1>14

LEMMA RareIsFinite ==
    ASSUME NEW S, S \subseteq Rare
    PROVE  IsFiniteSet(S) /\ Cardinality(S) \in Nat
<1>1. IsFiniteSet(Rare)
    <2>1. Rare = {} \cup {"early"} \cup {"guards"} \cup {"openfail"} \cup {"nothread"}
                 \cup {"evals"} \cup {"always"}
        BY DEF Rare
    <2>2. \A A, e : IsFiniteSet(A) => IsFiniteSet(A \cup {e})
        BY FS_AddElement
    <2>3. IsFiniteSet({})
        BY FS_EmptySet
    <2> QED
        BY <2>1, <2>2, <2>3
<1> QED
    BY <1>1, FS_Subset, FS_CardinalityType

-----------------------------------------------------------------------------
(* How contexts change                                                     *)

(* A context that has an id.                                               *)
Fine(x) ==
    /\ x \in Cxts /\ x.id # 0
    /\ Valid(x) => x.written /\ x.trace.ref = Ref(x)

SameStream(x, y) == y.id = x.id /\ y.parent = x.parent

(* It stays at its file, if it has one.                                    *)
Kept(x, y) ==
    /\ SameStream(x, y) /\ y.ordinal = x.ordinal /\ y.written = x.written
    /\ y.trace.ref = x.trace.ref /\ y.trace.parent = x.trace.parent
    /\ Valid(y) <=> Valid(x)
    /\ y.enabled => x.enabled \/ Valid(x)
    /\ IsPrefix(x.trace.records, y.trace.records)

(* It goes to the next one, or tries to.                                   *)
Opened(x, y) ==
    /\ SameStream(x, y) /\ y.ordinal = x.ordinal + 1 /\ y.written
    /\ Valid(y) /\ y.trace.parent = x.parent
Failed(x, y) ==
    /\ SameStream(x, y) /\ y.ordinal = x.ordinal + 1 /\ y.written = x.written /\ ~Valid(y)

(* It closes its file.                                                     *)
Dropped(x, y) ==
    /\ SameStream(x, y) /\ y.ordinal = x.ordinal /\ y.written = x.written /\ ~Valid(y)
    /\ y.enabled => x.enabled

(* It begins a stream.                                                     *)
Origin(x) == IF x.written THEN Ref(x) ELSE x.parent
Begun(x, y, i) ==
    y.id = i /\ y.ordinal = 0 /\ y.parent = Origin(x) /\ ~y.written /\ ~Valid(y)

LEMMA NoTraceFacts ==
    /\ NoParent \in Refs /\ NoTrace \in Traces /\ NoTrace.ref = NoParent
    /\ NoTrace.records = <<>> /\ NoTrace.buffered = FALSE
BY BoundsAssumption DEF NoParent, Refs, NoTrace, Traces

LEMMA FineRef ==
    ASSUME NEW x, Fine(x)
    PROVE  Ref(x) \in Refs /\ Ref(x) # NoParent /\ Ref(x).id = x.id /\ Ref(x).ordinal = x.ordinal
BY DEF Fine, Ref, Refs, NoParent, Cxts

LEMMA WriteFacts ==
    ASSUME NEW x, Fine(x), Valid(x), NEW recs \in Seq(Records)
    PROVE  /\ Fine(Write(x, recs)) /\ Kept(x, Write(x, recs))
           /\ Write(x, recs).enabled = x.enabled
<1> DEFINE y == Write(x, recs)
<1>1. x \in Cxts /\ x.trace \in Traces /\ x.trace.records \in Seq(Records)
    BY DEF Fine, Cxts, Traces
<1>2. /\ y.trace = [x.trace EXCEPT !.records = x.trace.records \o recs,
                                   !.buffered = x.trace.buffered \/ recs # <<>>]
      /\ y = [x EXCEPT !.trace = y.trace]
    BY <1>1 DEF Write, Cxts, Traces
<1>3. y.trace \in Traces
    <2>1. x.trace.records \o recs \in Seq(Records)
        BY <1>1
    <2> QED
        BY <1>1, <1>2, <2>1 DEF Traces
<1>4. /\ y.trace.ref = x.trace.ref /\ y.trace.parent = x.trace.parent
      /\ y.trace.records = x.trace.records \o recs
    BY <1>1, <1>2 DEF Traces
<1>5. /\ y \in Cxts /\ y.id = x.id /\ y.parent = x.parent /\ y.ordinal = x.ordinal
      /\ y.written = x.written /\ y.enabled = x.enabled
    BY <1>1, <1>2, <1>3 DEF Cxts
<1>6. Valid(y)
    BY <1>4, NoTraceFacts, FineRef DEF Fine, Valid
<1>7. IsPrefix(x.trace.records, y.trace.records)
    BY <1>1, <1>4, PrefixFacts
<1> QED
    BY <1>4, <1>5, <1>6, <1>7 DEF Fine, Kept, SameStream, Ref

(* Flags and depths of sections may change.                                *)
LEMMA KeptFields ==
    ASSUME NEW x, Fine(x), NEW y \in Cxts, y.id = x.id, y.ordinal = x.ordinal,
           y.parent = x.parent, y.written = x.written, y.trace = x.trace,
           y.enabled => x.enabled \/ Valid(x)
    PROVE  Fine(y) /\ Kept(x, y)
<1>1. x.trace.records \in Seq(Records)
    BY DEF Fine, Cxts, Traces
<1>2. IsPrefix(x.trace.records, y.trace.records)
    BY <1>1, PrefixFacts
<1> QED
    BY <1>2 DEF Fine, Kept, SameStream, Valid, Ref

LEMMA KeptKept ==
    ASSUME NEW x, NEW y, NEW z, Fine(x), Fine(y), Fine(z), Kept(y, z)
    PROVE  /\ Kept(x, y) => Kept(x, z)
           /\ Opened(x, y) => Opened(x, z)
           /\ Failed(x, y) => Failed(x, z)
           /\ \A i : Begun(x, y, i) => Begun(x, z, i)
<1>1. /\ x.trace.records \in Seq(Records) /\ y.trace.records \in Seq(Records)
      /\ z.trace.records \in Seq(Records)
    BY DEF Fine, Cxts, Traces
<1>2. Kept(x, y) => IsPrefix(x.trace.records, z.trace.records)
    BY <1>1, PrefixFacts DEF Kept
<1> QED
    BY <1>2 DEF Kept, Opened, Failed, Begun, SameStream

LEMMA KeptThenOpened ==
    ASSUME NEW x, NEW y, NEW z, Kept(x, y)
    PROVE  /\ Opened(y, z) => Opened(x, z)
           /\ Failed(y, z) => Failed(x, z)
BY DEF Kept, Opened, Failed, SameStream

LEMMA RestoreFacts ==
    ASSUME NEW x, Fine(x)
    PROVE  Fine(RestoreSections(x)) /\ Kept(x, RestoreSections(x))
<1>1. CASE Valid(x)
    BY <1>1, MarkersAre, WriteFacts DEF RestoreSections
<1>2. CASE ~Valid(x)
    <2>1. RestoreSections(x) = x /\ x \in Cxts
        BY <1>2 DEF RestoreSections, Fine
    <2> QED
        BY <2>1, KeptFields
<1> QED
    BY <1>1, <1>2

LEMMA ClosedFacts ==
    ASSUME NEW x, Fine(x)
    PROVE  Fine(Closed(x)) /\ Dropped(x, Closed(x)) /\ Closed(x).enabled = x.enabled
<1>1. x \in Cxts /\ Closed(x) = [x EXCEPT !.trace = NoTrace]
    BY DEF Fine, Closed
<1>2. /\ Closed(x) \in Cxts /\ Closed(x).trace = NoTrace /\ Closed(x).id = x.id
      /\ Closed(x).parent = x.parent /\ Closed(x).ordinal = x.ordinal
      /\ Closed(x).written = x.written /\ Closed(x).enabled = x.enabled
    BY <1>1, NoTraceFacts DEF Cxts
<1> QED
    BY <1>2 DEF Fine, Dropped, SameStream, Valid

LEMMA OpenFacts ==
    ASSUME NEW x, Fine(x), ~Valid(x), x.ordinal < MaxOrdinal,
           NEW y \in Open([x EXCEPT !.ordinal = @ + 1])
    PROVE  Fine(y) /\ (Opened(x, y) \/ Failed(x, y))
<1> DEFINE z == [x EXCEPT !.ordinal = @ + 1]
           t == [ref |-> Ref(z), parent |-> z.parent, records |-> <<>>, buffered |-> FALSE]
<1>1. /\ z \in Cxts /\ z.id = x.id /\ z.ordinal = x.ordinal + 1 /\ z.parent = x.parent
      /\ z.written = x.written /\ z.trace = x.trace
    BY BoundsAssumption DEF Fine, Cxts
<1>2. y = z \/ y = [z EXCEPT !.written = TRUE, !.trace = t]
    BY DEF Open
<1>3. CASE y = z
    BY <1>1, <1>3 DEF Fine, Failed, SameStream, Valid
<1>4. CASE y = [z EXCEPT !.written = TRUE, !.trace = t]
    <2>1. Fine(z)
        BY <1>1 DEF Fine, Valid
    <2>2. Ref(z) \in Refs /\ Ref(z) # NoParent
        BY <2>1, FineRef
    <2>3. t \in Traces /\ t # NoTrace /\ t.ref = Ref(z) /\ t.parent = x.parent
        BY <1>1, <2>2, NoTraceFacts DEF Traces, Cxts
    <2> HIDE DEF t
    <2>4. /\ y \in Cxts /\ y.id = x.id /\ y.ordinal = x.ordinal + 1 /\ y.parent = x.parent
          /\ y.written = TRUE /\ y.trace = t
        BY <1>1, <1>4, <2>3 DEF Cxts
    <2>5. Ref(y) = Ref(z)
        BY <1>1, <2>4 DEF Ref
    <2> QED
        BY <1>1, <2>1, <2>3, <2>4, <2>5 DEF Fine, Opened, SameStream, Valid
<1> QED
    BY <1>2, <1>3, <1>4

LEMMA CreateFacts ==
    ASSUME NEW x, Fine(x), Valid(x) \/ x.ordinal < MaxOrdinal, NEW y \in CreateTrace(x)
    PROVE  Fine(y) /\ IF Valid(x) THEN y = x ELSE Opened(x, y) \/ Failed(x, y)
<1>1. CASE Valid(x)
    BY <1>1 DEF CreateTrace
<1>2. CASE ~Valid(x)
    <2>1. PICK z \in Open([x EXCEPT !.ordinal = @ + 1]) :
             y = z \/ y = RestoreSections([z EXCEPT !.restore = FALSE])
        BY <1>2 DEF CreateTrace
    <2>2. Fine(z) /\ (Opened(x, z) \/ Failed(x, z))
        BY <1>2, <2>1, OpenFacts
    <2> DEFINE w == [z EXCEPT !.restore = FALSE]
    <2>3. /\ w \in Cxts /\ w.id = z.id /\ w.ordinal = z.ordinal /\ w.parent = z.parent
          /\ w.written = z.written /\ w.trace = z.trace /\ w.enabled = z.enabled
        BY <2>2 DEF Fine, Cxts
    <2>4. Fine(w) /\ Kept(z, w)
        BY <2>2, <2>3, KeptFields
    <2> HIDE DEF w
    <2>5. Fine(RestoreSections(w)) /\ Kept(w, RestoreSections(w))
        BY <2>4, RestoreFacts
    <2>6. Opened(x, RestoreSections(w)) \/ Failed(x, RestoreSections(w))
        BY <2>2, <2>4, <2>5, KeptKept
    <2> QED
        BY <1>2, <2>1, <2>2, <2>5, <2>6 DEF w
<1> QED
    BY <1>1, <1>2

LEMMA ReopenFacts ==
    ASSUME NEW x, Fine(x), x.ordinal < MaxOrdinal, NEW y \in Reopen(x)
    PROVE  Fine(y) /\ (Opened(x, y) \/ Failed(x, y))
<1>1. Fine(Closed(x)) /\ Dropped(x, Closed(x))
    BY ClosedFacts
<1>2. Fine(y) /\ (Opened(Closed(x), y) \/ Failed(Closed(x), y))
    BY <1>1, OpenFacts DEF Reopen, Dropped
<1> QED
    BY <1>1, <1>2 DEF Opened, Failed, Dropped, SameStream

-----------------------------------------------------------------------------
(* Steps of one context                                                    *)

Same(e) == state'[e] = state[e] /\ cxt'[e] = cxt[e] /\ line'[e] = line[e]

(* It goes on with its file, or is about to fork.                          *)
Keeps(c) ==
    /\ state[c] = "live" /\ state'[c] \in {"live", "parent"}
    /\ Kept(cxt[c], cxt'[c])
    /\ disk' = disk /\ lost' = lost

(* It finishes its file and opens the next one of the stream.              *)
Opens(c) ==
    /\ Owns(c) /\ state'[c] = "live"
    /\ \/ Opened(cxt[c], cxt'[c])
       \/ Failed(cxt[c], cxt'[c]) /\ "openfail" \in happened'
    /\ Valid(cxt[c]) \/ cxt[c].enabled \/ "always" \in happened'
    /\ disk' = disk \cup Finished(cxt[c], FALSE) /\ lost' = lost

(* It leaves its file; the one that ends the stream is its last.           *)
Closes(c) ==
    /\ Owns(c) /\ state'[c] \in {"live", "gone"}
    /\ Dropped(cxt[c], cxt'[c])
    /\ \/ \E last \in BOOLEAN :
             /\ disk' = disk \cup Finished(cxt[c], last) /\ lost' = lost
             /\ last /\ state'[c] = "live" => ~cxt'[c].enabled
       \/ /\ disk' = disk /\ lost' = lost \cup Finished(cxt[c], FALSE)
          /\ state'[c] = "gone"

(* It begins a stream, and perhaps opens its first file.                   *)
Begins(c) ==
    /\ (state[c] = "live" /\ ~Valid(cxt[c])) \/ state[c] = "child"
    /\ state'[c] = "live" /\ nextId' = nextId + 1
    /\ \E z :
          /\ Begun(cxt[c], z, nextId)
          /\ \/ cxt'[c] = z
             \/ Opened(z, cxt'[c])
             \/ Failed(z, cxt'[c]) /\ "openfail" \in happened'
    /\ disk' = disk /\ lost' = lost

(* A forked child ends, or croaks.                                         *)
Leaves(c) ==
    /\ state[c] = "child" /\ state'[c] \in {"live", "gone"}
    /\ state'[c] = "live" => "nothread" \in happened'
    /\ Dropped(cxt[c], cxt'[c])
    /\ disk' = disk /\ lost' = lost

Turn(c) ==
    /\ Keeps(c) \/ Opens(c) \/ Closes(c) \/ Begins(c) \/ Leaves(c)
    /\ line'[c] = Latest(c, cxt'[c]) \/ (Keeps(c) /\ line'[c] = line[c])

(* A step in which c is the only context that acts.                        *)
Step(c) ==
    /\ BaseInv' /\ Turn(c) /\ happened \subseteq happened' /\ nextId <= nextId'
    /\ \A e \in Ctxs \ {c} : Same(e)

(* A step of c in which d is forked, or cloned, from it.                   *)
Forked(c, d) ==
    /\ state[d] = "none" /\ state'[d] = "child" /\ state'[c] = "parent" /\ Keeps(c)
    /\ cxt'[d] = cxt'[c] /\ line'[d] = line[c]
Cloned(c, d) ==
    /\ state[d] = "none" /\ state'[d] = "live" /\ state'[c] = "live"
    /\ IF Valid(cxt[c]) THEN Opens(c) ELSE Keeps(c)
    /\ cxt'[d].id = nextId /\ cxt'[d].ordinal = 0 /\ cxt'[d].parent = Ref(cxt[c])
    /\ ~cxt'[d].written /\ ~Valid(cxt'[d]) /\ line'[d] = line[c]
    /\ nextId' = nextId + 1 /\ (cxt[c].written \/ "early" \in happened')
Pair(c, d) ==
    /\ BaseInv' /\ Turn(c)
    /\ Forked(c, d) \/ Cloned(c, d)
    /\ happened \subseteq happened' /\ nextId <= nextId'
    /\ \A e \in Ctxs \ {c, d} : Same(e)

LEMMA FineOf ==
    ASSUME BaseInv, NEW c \in Ctxs, Alive(c)
    PROVE  Fine(cxt[c]) /\ cxt[c].id < nextId /\ nextId \in 1 .. MaxIds + 1
BY BoundsAssumption DEF BaseInv, TypeOK, CxtInv, Fine

LEMMA FinishedFacts ==
    ASSUME NEW x, Fine(x), NEW last \in BOOLEAN
    PROVE  /\ Finished(x, last) \subseteq TraceFiles
           /\ \A f \in Finished(x, last) :
                 /\ Valid(x) /\ f.ref = Ref(x) /\ f.parent = x.trace.parent
                 /\ f.records = x.trace.records /\ f.last = last
           /\ Valid(x) => \E f \in Finished(x, last) : f.ref = Ref(x)
<1>1. x.trace \in Traces
    BY DEF Fine, Cxts
<1>2. Valid(x) => [ref |-> x.trace.ref, parent |-> x.trace.parent, records |-> x.trace.records,
                   last |-> last] \in TraceFiles
    BY <1>1 DEF Traces, TraceFiles
<1> QED
    BY <1>2 DEF Finished, Fine

LEMMA BecomeFacts ==
    ASSUME BaseInv, NEW c \in Ctxs, NEW y, Fine(y), NEW es, es \subseteq Rare,
           BecomeAfter(c, y, es)
    PROVE  /\ cxt' \in [Ctxs -> Cxts] /\ cxt'[c] = y
           /\ line' \in [Ctxs -> Refs] /\ line'[c] = Latest(c, y)
           /\ \A e \in Ctxs \ {c} : cxt'[e] = cxt[e] /\ line'[e] = line[e]
           /\ happened' \subseteq Rare /\ es \cup happened \cup Unopened(cxt[c], y) \subseteq happened'
<1>1. cxt \in [Ctxs -> Cxts] /\ line \in [Ctxs -> Refs] /\ happened \subseteq Rare
    BY DEF BaseInv, TypeOK
<1>2. /\ cxt' = [cxt EXCEPT ![c] = y] /\ line' = [line EXCEPT ![c] = Latest(c, y)]
      /\ happened' = happened \cup es \cup Unopened(cxt[c], y)
    BY DEF BecomeAfter
<1>3. Unopened(cxt[c], y) \subseteq Rare
    BY DEF Unopened, Rare
<1>4. Latest(c, y) \in Refs
    BY <1>1, FineRef DEF Latest, Fine
<1> QED
    BY <1>1, <1>2, <1>3, <1>4 DEF Fine

(* What is left to show for the step of context c.                         *)
LEMMA TurnBase ==
    ASSUME BaseInv, NEW c \in Ctxs, NEW y, Fine(y), NEW es, es \subseteq Rare,
           BecomeAfter(c, y, es),
           state' \in [Ctxs -> {"none", "live", "parent", "child", "gone"}],
           \A e \in Ctxs \ {c} : state'[e] = state[e],
           state'[c] \in {"live", "gone"}, Valid(y) => state'[c] = "live",
           held' \in [Ctxs -> [Sections -> 0 .. MaxNest]],
           disk' \subseteq TraceFiles, lost' \subseteq TraceFiles,
           nextId' \in 1 .. MaxIds + 1, nextId <= nextId', y.id < nextId', garbled' = {},
           unmarked' \subseteq 1 .. MaxIds
    PROVE  /\ BaseInv' /\ \A e \in Ctxs \ {c} : Same(e)
           /\ cxt'[c] = y /\ line'[c] = Latest(c, cxt'[c])
           /\ es \cup happened \cup Unopened(cxt[c], y) \subseteq happened'
<1>1. /\ cxt' \in [Ctxs -> Cxts] /\ cxt'[c] = y
      /\ line' \in [Ctxs -> Refs] /\ line'[c] = Latest(c, y)
      /\ \A e \in Ctxs \ {c} : cxt'[e] = cxt[e] /\ line'[e] = line[e]
      /\ happened' \subseteq Rare /\ es \cup happened \cup Unopened(cxt[c], y) \subseteq happened'
    BY BecomeFacts
<1>2. TypeOK'
    BY <1>1 DEF TypeOK
<1>3. CxtInv(c)'
    <2>1. y.id \in 1 .. nextId' - 1
        BY BoundsAssumption DEF Fine, Cxts
    <2> QED
        BY <1>1, <2>1 DEF CxtInv, Alive, Owns, Fine, Valid, Ref
<1>4. ASSUME NEW e \in Ctxs \ {c}
      PROVE  CxtInv(e)'
    <2>1. CxtInv(e) /\ nextId \in 1 .. MaxIds + 1
        BY DEF BaseInv, TypeOK
    <2>2. cxt'[e] = cxt[e] /\ state'[e] = state[e]
        BY <1>1
    <2>3. cxt[e].id \in 1 .. nextId - 1 => cxt[e].id \in 1 .. nextId' - 1
        BY <2>1, BoundsAssumption
    <2> QED
        BY <2>1, <2>2, <2>3 DEF CxtInv, Alive, Owns, Valid, Ref
<1> QED
    BY <1>1, <1>2, <1>3, <1>4 DEF BaseInv, ChildShutsQuietly, Same

LEMMA FailedShows ==
    ASSUME NEW x, Fine(x), NEW y, Failed(x, y)
    PROVE  "openfail" \in Unopened(x, y)
<1>1. x.ordinal \in Nat /\ y.ordinal = x.ordinal + 1 /\ ~Valid(y)
    BY DEF Fine, Cxts, Failed
<1> QED
    BY <1>1 DEF Unopened

(* A live context that keeps its state.                                    *)
LEMMA LiveTurn ==
    ASSUME BaseInv, NEW c \in Ctxs, Live(c), NEW y, Fine(y), NEW es, es \subseteq Rare,
           BecomeAfter(c, y, es), UNCHANGED <<state, lost, garbled, unmarked>>,
           held' \in [Ctxs -> [Sections -> 0 .. MaxNest]], disk' \subseteq TraceFiles,
           nextId' \in 1 .. MaxIds + 1, nextId <= nextId', y.id < nextId', Turn(c)
    PROVE  Step(c)
<1>1. /\ state' \in [Ctxs -> {"none", "live", "parent", "child", "gone"}]
      /\ lost' \subseteq TraceFiles /\ garbled' = {} /\ unmarked' \subseteq 1 .. MaxIds
    BY DEF BaseInv, TypeOK, ChildShutsQuietly
<1> QED
    BY <1>1, TurnBase DEF Step, Live

(* create_trace(), before and after which the context keeps its stream.    *)
LEMMA CreateTurn ==
    ASSUME BaseInv, NEW c \in Ctxs, Live(c), NEW x, Fine(x), Kept(cxt[c], x),
           Valid(x) \/ x.ordinal < MaxOrdinal,
           NEW y \in CreateTrace(x), NEW z, Fine(y) => Fine(z) /\ Kept(y, z),
           NEW es, es \subseteq Rare, BecomeAfter(c, z, es), cxt[c].enabled \/ "always" \in es,
           held' \in [Ctxs -> [Sections -> 0 .. MaxNest]],
           UNCHANGED <<state, disk, lost, nextId, garbled, unmarked>>
    PROVE  Step(c)
<1>1. Fine(cxt[c]) /\ cxt[c].id < nextId /\ nextId \in 1 .. MaxIds + 1
    BY FineOf DEF Alive, Owns, Live
<1>2. /\ Fine(z) /\ Fine(y) /\ Kept(y, z)
      /\ IF Valid(x) THEN y = x ELSE Opened(x, y) \/ Failed(x, y)
    BY CreateFacts
<1>3. IF Valid(x) THEN Kept(cxt[c], z)
      ELSE ~Valid(cxt[c]) /\ (Opened(cxt[c], z) \/ Failed(cxt[c], z))
    <2>1. CASE Valid(x)
        BY <1>1, <1>2, <2>1, KeptKept
    <2>2. CASE ~Valid(x)
        <3>1. Opened(cxt[c], y) \/ Failed(cxt[c], y)
            BY <1>2, <2>2, KeptThenOpened
        <3>2. Opened(cxt[c], z) \/ Failed(cxt[c], z)
            BY <1>1, <1>2, <3>1, KeptKept
        <3> QED
            BY <2>2, <3>2 DEF Kept
    <2> QED
        BY <2>1, <2>2
<1>4. /\ cxt'[c] = z /\ line'[c] = Latest(c, z)
      /\ es \cup happened \cup Unopened(cxt[c], z) \subseteq happened'
    BY <1>2, BecomeFacts
<1>5. Turn(c)
    <2>1. CASE Valid(x)
        BY <2>1, <1>3, <1>4 DEF Turn, Keeps, Live
    <2>2. CASE ~Valid(x)
        <3>1. Finished(cxt[c], FALSE) = {}
            BY <2>2, <1>3 DEF Finished
        <3>2. Failed(cxt[c], z) => "openfail" \in happened'
            BY <1>1, <1>4, FailedShows
        <3> QED
            BY <2>2, <3>1, <3>2, <1>3, <1>4 DEF Turn, Opens, Owns, Live
    <2> QED
        BY <2>1, <2>2
<1>6. z.id = cxt[c].id
    BY <1>3 DEF Kept, Opened, Failed, SameStream
<1>7. disk' \subseteq TraceFiles
    BY DEF BaseInv, TypeOK
<1> QED
    BY <1>1, <1>2, <1>5, <1>6, <1>7, LiveTurn

LEMMA EnterLoopTurn ==
    ASSUME BaseInv, NEW c \in Ctxs, EnterLoop(c)
    PROVE  Step(c)
<1> DEFINE x == [cxt[c] EXCEPT !.running = TRUE]
<1>1. Live(c) /\ Fine(cxt[c])
    BY FineOf DEF EnterLoop, Alive, Owns, Live
<1>2. /\ x \in Cxts /\ x.id = cxt[c].id /\ x.ordinal = cxt[c].ordinal /\ x.trace = cxt[c].trace
      /\ x.parent = cxt[c].parent /\ x.written = cxt[c].written /\ x.enabled = cxt[c].enabled
    BY <1>1 DEF Fine, Cxts
<1>3. /\ \E y \in CreateTrace(x) : Become(c, y)
      /\ cxt[c].enabled /\ (Valid(x) \/ x.ordinal < MaxOrdinal)
      /\ UNCHANGED <<state, held, disk, lost, nextId, garbled, unmarked>>
    BY <1>2 DEF EnterLoop, MayOpen, MayFollow, Valid
<1> HIDE DEF x
<1>4. PICK y \in CreateTrace(x) : BecomeAfter(c, y, {})
    BY <1>3 DEF Become
<1>5. Fine(x) /\ Kept(cxt[c], x)
    BY <1>1, <1>2, KeptFields
<1>6. Fine(y) => Fine(y) /\ Kept(y, y)
    BY KeptFields DEF Fine
<1>7. held' \in [Ctxs -> [Sections -> 0 .. MaxNest]]
    BY <1>3 DEF BaseInv, TypeOK
<1> QED
    BY <1>1, <1>3, <1>4, <1>5, <1>6, <1>7, CreateTurn

(* Flags of a context are set, after the events es.                        *)
LEMMA FlagsTurn ==
    ASSUME BaseInv, NEW c \in Ctxs, Live(c), NEW y \in Cxts, y.id = cxt[c].id,
           y.ordinal = cxt[c].ordinal, y.parent = cxt[c].parent, y.written = cxt[c].written,
           y.trace = cxt[c].trace, y.enabled => cxt[c].enabled \/ Valid(cxt[c]),
           NEW es, es \subseteq Rare, BecomeAfter(c, y, es),
           UNCHANGED <<state, held, disk, lost, nextId, garbled, unmarked>>
    PROVE  Step(c)
<1>1. Fine(cxt[c]) /\ cxt[c].id < nextId /\ nextId \in 1 .. MaxIds + 1
    BY FineOf DEF Alive, Owns, Live
<1>2. Fine(y) /\ Kept(cxt[c], y)
    BY <1>1, KeptFields
<1>3. cxt'[c] = y /\ line'[c] = Latest(c, y)
    BY <1>2, BecomeFacts
<1>4. Turn(c)
    BY <1>2, <1>3 DEF Turn, Keeps, Live
<1>5. held' \in [Ctxs -> [Sections -> 0 .. MaxNest]] /\ disk' \subseteq TraceFiles
    BY DEF BaseInv, TypeOK
<1> QED
    BY <1>1, <1>2, <1>4, <1>5, LiveTurn

LEMMA GuardedIsRare ==
    ASSUME NEW c
    PROVE  Guarded(c) \subseteq Rare
BY DEF Guarded, Rare

LEMMA LeaveLoopTurn ==
    ASSUME BaseInv, NEW c \in Ctxs, LeaveLoop(c)
    PROVE  Step(c)
<1> DEFINE y == [cxt[c] EXCEPT !.running = FALSE]
<1>1. Live(c) /\ Fine(cxt[c])
    BY FineOf DEF LeaveLoop, Alive, Owns, Live
<1>2. /\ y \in Cxts /\ y.id = cxt[c].id /\ y.ordinal = cxt[c].ordinal /\ y.trace = cxt[c].trace
      /\ y.parent = cxt[c].parent /\ y.written = cxt[c].written /\ y.enabled = cxt[c].enabled
    BY <1>1 DEF Fine, Cxts
<1>3. BecomeAfter(c, y, {}) /\ UNCHANGED <<state, held, disk, lost, nextId, garbled, unmarked>>
    BY DEF LeaveLoop, Become
<1> HIDE DEF y
<1> QED
    BY <1>1, <1>2, <1>3, FlagsTurn

LEMMA DisableTurn ==
    ASSUME BaseInv, NEW c \in Ctxs, Disable(c)
    PROVE  Step(c)
<1> DEFINE y == [cxt[c] EXCEPT !.enabled = FALSE, !.running = FALSE]
<1>1. Live(c) /\ Fine(cxt[c])
    BY FineOf DEF Disable, Alive, Owns, Live
<1>2. /\ y \in Cxts /\ y.id = cxt[c].id /\ y.ordinal = cxt[c].ordinal /\ y.trace = cxt[c].trace
      /\ y.parent = cxt[c].parent /\ y.written = cxt[c].written /\ y.enabled = FALSE
    BY <1>1 DEF Fine, Cxts
<1>3. BecomeAfter(c, y, Guarded(c)) /\ UNCHANGED <<state, held, disk, lost, nextId, garbled, unmarked>>
    BY DEF Disable
<1> HIDE DEF y
<1> QED
    BY <1>1, <1>2, <1>3, GuardedIsRare, FlagsTurn

(* A stream of its own begins.                                             *)
LEMMA MayBeginFacts ==
    ASSUME BaseInv, MayBegin
    PROVE  nextId \in 1 .. MaxIds
<1>1. Cardinality(happened) \in Nat
    BY RareIsFinite DEF BaseInv, TypeOK
<1> QED
    BY <1>1, BoundsAssumption DEF BaseInv, TypeOK, MayBegin

LEMMA BeginFacts ==
    ASSUME NEW x, Fine(x), NEW i \in 1 .. MaxIds, NEW y,
           y = [Descend(x) EXCEPT !.id = i, !.ordinal = 0]
    PROVE  /\ y \in Cxts /\ y.id = i /\ y.ordinal = 0 /\ y.parent = Origin(x)
           /\ ~y.written /\ y.trace = x.trace
           /\ ~Valid(x) => Fine(y) /\ Begun(x, y, i)
<1> DEFINE z == Descend(x)
<1>1. /\ z \in Cxts /\ z.parent = Origin(x) /\ z.written = FALSE /\ z.trace = x.trace
    <2>1. x \in Cxts /\ Ref(x) \in Refs
        BY FineRef DEF Fine
    <2> QED
        BY <2>1 DEF Descend, Origin, Cxts
<1> HIDE DEF z
<1>2. y = [z EXCEPT !.id = i, !.ordinal = 0]
    BY DEF z
<1>3. /\ y \in Cxts /\ y.id = i /\ y.ordinal = 0 /\ y.parent = Origin(x)
      /\ y.written = FALSE /\ y.trace = x.trace
    <2>1. i \in 0 .. MaxIds /\ 0 \in 0 .. MaxOrdinal
        BY BoundsAssumption
    <2> QED
        BY <1>1, <1>2, <2>1 DEF Cxts
<1> QED
    BY <1>3, BoundsAssumption DEF Fine, Begun, Valid

LEMMA EnableTurn ==
    ASSUME BaseInv, NEW c \in Ctxs, Enable(c)
    PROVE  Step(c)
<1>1. Live(c) /\ Fine(cxt[c]) /\ cxt[c].id < nextId
    BY FineOf DEF Enable, Alive, Owns, Live
<1>2. UNCHANGED <<state, held, disk, lost, garbled, unmarked>>
    BY DEF Enable
<1>3. CASE Valid(cxt[c])
    <2> DEFINE y == [cxt[c] EXCEPT !.enabled = TRUE]
    <2>1. /\ y \in Cxts /\ y.id = cxt[c].id /\ y.ordinal = cxt[c].ordinal
          /\ y.trace = cxt[c].trace /\ y.parent = cxt[c].parent /\ y.written = cxt[c].written
        BY <1>1 DEF Fine, Cxts
    <2>2. BecomeAfter(c, y, Guarded(c)) /\ nextId' = nextId
        BY <1>3 DEF Enable
    <2> HIDE DEF y
    <2> QED
        BY <1>1, <1>2, <1>3, <2>1, <2>2, GuardedIsRare, FlagsTurn
<1>4. CASE ~Valid(cxt[c])
    <2> DEFINE z == Restart(cxt[c], nextId)
               y == [z EXCEPT !.enabled = TRUE]
    <2>1. BecomeAfter(c, y, Guarded(c)) /\ MayBegin /\ nextId' = nextId + 1
        BY <1>4 DEF Enable
    <2>2. nextId \in 1 .. MaxIds
        BY <2>1, MayBeginFacts
    <2>3. Fine(z) /\ Begun(cxt[c], z, nextId)
        BY <1>1, <1>4, <2>2, BeginFacts DEF Restart
    <2> HIDE DEF z
    <2>4. /\ y \in Cxts /\ y.id = z.id /\ y.ordinal = z.ordinal /\ y.parent = z.parent
          /\ y.written = z.written /\ y.trace = z.trace
        BY <2>3 DEF Fine, Cxts
    <2> HIDE DEF y
    <2>5. Fine(y) /\ Begun(cxt[c], y, nextId)
        BY <2>3, <2>4 DEF Fine, Begun, Valid, Ref
    <2>6. cxt'[c] = y /\ line'[c] = Latest(c, y)
        BY <2>1, <2>5, GuardedIsRare, BecomeFacts
    <2>7. Turn(c)
        BY <1>1, <1>2, <1>4, <2>1, <2>5, <2>6 DEF Turn, Begins, Live
    <2>8. /\ held' \in [Ctxs -> [Sections -> 0 .. MaxNest]] /\ disk' \subseteq TraceFiles
          /\ nextId' \in 1 .. MaxIds + 1 /\ nextId <= nextId' /\ y.id < nextId'
        BY <1>2, <2>1, <2>2, <2>5, BoundsAssumption DEF BaseInv, TypeOK, Begun
    <2> QED
        BY <1>1, <1>2, <2>1, <2>5, <2>7, <2>8, GuardedIsRare, LiveTurn
<1> QED
    BY <1>3, <1>4

LEMMA StopTurn ==
    ASSUME BaseInv, NEW c \in Ctxs, Stop(c)
    PROVE  Step(c)
<1> DEFINE z == Closed(cxt[c])
           y == [z EXCEPT !.enabled = FALSE, !.running = FALSE, !.sections = Nothing]
<1>1. Live(c) /\ Fine(cxt[c]) /\ cxt[c].id < nextId /\ nextId \in 1 .. MaxIds + 1
    BY FineOf DEF Stop, Alive, Owns, Live
<1>2. /\ BecomeAfter(c, y, Guarded(c)) /\ disk' = disk \cup Finished(cxt[c], TRUE)
      /\ UNCHANGED <<state, held, lost, nextId, garbled, unmarked>>
    BY DEF Stop, Save
<1>3. Fine(z) /\ Dropped(cxt[c], z)
    BY <1>1, ClosedFacts
<1> HIDE DEF z
<1>4. /\ y \in Cxts /\ y.id = z.id /\ y.ordinal = z.ordinal /\ y.parent = z.parent
      /\ y.written = z.written /\ y.trace = z.trace /\ y.enabled = FALSE
    BY <1>3 DEF Fine, Cxts, Nothing
<1> HIDE DEF y
<1>5. Fine(y) /\ Dropped(cxt[c], y)
    BY <1>3, <1>4 DEF Fine, Dropped, SameStream, Valid
<1>6. cxt'[c] = y /\ line'[c] = Latest(c, y)
    BY <1>2, <1>5, GuardedIsRare, BecomeFacts
<1>7. Turn(c)
    BY <1>1, <1>2, <1>4, <1>5, <1>6 DEF Turn, Closes, Owns, Live
<1>8. /\ held' \in [Ctxs -> [Sections -> 0 .. MaxNest]] /\ disk' \subseteq TraceFiles
    BY <1>1, <1>2, FinishedFacts DEF BaseInv, TypeOK
<1>9. y.id < nextId' /\ nextId' \in 1 .. MaxIds + 1 /\ nextId <= nextId'
    BY <1>1, <1>2, <1>5, BoundsAssumption DEF Dropped, SameStream
<1> QED
    BY <1>1, <1>2, <1>5, <1>7, <1>8, <1>9, GuardedIsRare, LiveTurn

LEMMA RotateTurn ==
    ASSUME BaseInv, NEW c \in Ctxs, Rotate(c)
    PROVE  Step(c)
<1>1. Live(c) /\ Fine(cxt[c]) /\ cxt[c].id < nextId /\ nextId \in 1 .. MaxIds + 1
    BY FineOf DEF Rotate, Alive, Owns, Live
<1>2. PICK y \in Reopen(cxt[c]), es \in SUBSET Rare : BecomeAfter(c, y, es)
    <2>1. {} \in SUBSET Rare
        OBVIOUS
    <2> QED
        BY <2>1 DEF Rotate, Become
<1>3. /\ disk' = disk \cup Finished(cxt[c], FALSE) /\ cxt[c].ordinal < MaxOrdinal
      /\ Valid(cxt[c]) /\ UNCHANGED <<state, held, lost, nextId, garbled, unmarked>>
    BY DEF Rotate, Save, MayFollow
<1>4. Fine(y) /\ (Opened(cxt[c], y) \/ Failed(cxt[c], y))
    BY <1>1, <1>3, ReopenFacts
<1>5. cxt'[c] = y /\ line'[c] = Latest(c, y) /\ Unopened(cxt[c], y) \subseteq happened'
    BY <1>2, <1>4, BecomeFacts
<1>6. Turn(c)
    BY <1>1, <1>3, <1>4, <1>5, FailedShows DEF Turn, Opens, Owns, Live
<1>7. /\ held' \in [Ctxs -> [Sections -> 0 .. MaxNest]] /\ disk' \subseteq TraceFiles
    BY <1>1, <1>3, FinishedFacts DEF BaseInv, TypeOK
<1>8. y.id < nextId' /\ nextId' \in 1 .. MaxIds + 1 /\ nextId <= nextId'
    BY <1>1, <1>3, <1>4, BoundsAssumption DEF Opened, Failed, SameStream
<1> QED
    BY <1>1, <1>2, <1>3, <1>4, <1>6, <1>7, <1>8, LiveTurn

(* A marker is written, if it can be.                                      *)
LEMMA RecordTurn ==
    ASSUME BaseInv, NEW c \in Ctxs, Live(c), NEW s \in Sections, NEW k \in {"start", "end"},
           NEW depth \in Nat, Record(c, <<k, s>>, depth), cxt[c].enabled,
           held' \in [Ctxs -> [Sections -> 0 .. MaxNest]],
           UNCHANGED <<state, disk, lost, nextId, garbled, unmarked>>
    PROVE  Step(c)
<1> DEFINE x == cxt[c]
           w(y) == IF Valid(y) THEN Write(y, <<<<k, s>>>>) ELSE y
           z(y) == [w(y) EXCEPT !.sections[s] = depth]
<1>1. Fine(x) /\ (Valid(x) \/ x.ordinal < MaxOrdinal)
    BY FineOf DEF Alive, Owns, Live, Record, MayOpen, MayFollow
<1>2. PICK y \in CreateTrace(x) : BecomeAfter(c, z(y), {})
    BY DEF Record, Become
<1>3. <<<<k, s>>>> \in Seq(Records)
    BY DEF Records
<1>4. ASSUME Fine(y)
      PROVE  Fine(z(y)) /\ Kept(y, z(y))
    <2>1. Fine(w(y)) /\ Kept(y, w(y))
        <3>1. CASE Valid(y)
            BY <1>3, <1>4, <3>1, WriteFacts
        <3>2. CASE ~Valid(y)
            BY <1>4, <3>2, KeptFields DEF Fine
        <3> QED
            BY <3>1, <3>2
    <2> DEFINE v == w(y)
    <2> HIDE DEF v
    <2>2. z(y) = [v EXCEPT !.sections[s] = depth] /\ Fine(v) /\ Kept(y, v)
        BY <2>1 DEF v
    <2> HIDE DEF z
    <2>3. /\ z(y) \in Cxts /\ z(y).id = v.id /\ z(y).ordinal = v.ordinal
          /\ z(y).trace = v.trace /\ z(y).parent = v.parent /\ z(y).written = v.written
          /\ z(y).enabled = v.enabled
        BY <2>2 DEF Fine, Cxts
    <2>4. Fine(z(y)) /\ Kept(v, z(y))
        BY <2>2, <2>3, KeptFields
    <2> QED
        BY <1>4, <2>2, <2>4, KeptKept
<1>5. Kept(x, x)
    BY <1>1, KeptFields DEF Fine
<1> HIDE DEF z
<1>6. PICK v, es :
         BecomeAfter(c, v, es) /\ es \subseteq Rare /\ (Fine(y) => Fine(v) /\ Kept(y, v))
    <2>1. {} \subseteq Rare /\ (Fine(y) => Fine(z(y)) /\ Kept(y, z(y)))
        BY <1>4
    <2> QED
        BY <1>2, <2>1
<1> QED
    BY <1>1, <1>5, <1>6, CreateTurn

LEMMA SaveEvalTurn ==
    ASSUME BaseInv, NEW c \in Ctxs, SaveEval(c)
    PROVE  Step(c)
<1> DEFINE x == cxt[c]
           z(y) == IF Valid(y) THEN Write(y, <<<<"eval">>>>) ELSE y
           es == IF x.enabled THEN {"evals"} ELSE {"always"}
<1>1. Live(c) /\ Fine(x) /\ (Valid(x) \/ x.ordinal < MaxOrdinal)
    BY FineOf DEF Alive, Owns, Live, SaveEval, MayOpen, MayFollow
<1>2. PICK y \in CreateTrace(x) : BecomeAfter(c, z(y), es)
    BY DEF SaveEval
<1>3. <<<<"eval">>>> \in Seq(Records)
    BY DEF Records
<1>4. Fine(y) => Fine(z(y)) /\ Kept(y, z(y))
    BY <1>3, WriteFacts, KeptFields DEF Fine
<1>5. Kept(x, x)
    BY <1>1, KeptFields DEF Fine
<1>6. /\ UNCHANGED <<state, held, disk, lost, nextId, garbled, unmarked>>
      /\ held' \in [Ctxs -> [Sections -> 0 .. MaxNest]]
      /\ es \subseteq Rare /\ (x.enabled \/ "always" \in es)
    BY DEF SaveEval, BaseInv, TypeOK, Rare
<1> HIDE DEF z, es
<1> QED
    BY <1>1, <1>2, <1>4, <1>5, <1>6, CreateTurn

(* Sections while profiling is off: only the program remembers them.       *)
Idle == UNCHANGED <<state, cxt, disk, lost, nextId, line, happened, garbled, unmarked>>

LEMMA IdleBase ==
    ASSUME BaseInv, Idle, held' \in [Ctxs -> [Sections -> 0 .. MaxNest]]
    PROVE  BaseInv'
BY DEF BaseInv, Idle, TypeOK, ChildShutsQuietly, CxtInv, Alive, Owns, Valid, Ref

LEMMA SectionTurn ==
    ASSUME BaseInv, NEW c \in Ctxs, NEW s \in Sections, StartSection(c, s) \/ EndSection(c, s)
    PROVE  IF cxt[c].enabled THEN Step(c) ELSE Idle /\ BaseInv'
<1>1. /\ Live(c) /\ Fine(cxt[c]) /\ UNCHANGED <<state, disk, lost, nextId, garbled, unmarked>>
      /\ held \in [Ctxs -> [Sections -> 0 .. MaxNest]] /\ cxt[c].sections[s] \in Nat
    <2>1. Live(c) /\ UNCHANGED <<state, disk, lost, nextId, garbled, unmarked>>
        BY DEF StartSection, EndSection
    <2>2. Fine(cxt[c]) /\ held \in [Ctxs -> [Sections -> 0 .. MaxNest]]
        BY <2>1, FineOf DEF Alive, Owns, Live, BaseInv, TypeOK
    <2> QED
        BY <2>1, <2>2 DEF Fine, Cxts
<1>2. PICK k \in {"start", "end"}, depth \in Nat : Record(c, <<k, s>>, depth)
    <2>1. CASE StartSection(c, s)
        <3>1. Record(c, <<"start", s>>, cxt[c].sections[s] + 1)
            BY <2>1 DEF StartSection
        <3> QED
            BY <1>1, <3>1
    <2>2. CASE EndSection(c, s)
        <3> DEFINE n == cxt[c].sections[s]
                   m == IF n = 0 THEN 0 ELSE n - 1
        <3>1. Record(c, <<"end", s>>, m)
            BY <2>2 DEF EndSection
        <3>2. m \in Nat
            BY <1>1
        <3> QED
            BY <3>1, <3>2
    <2> QED
        BY <2>1, <2>2
<1>3. held' \in [Ctxs -> [Sections -> 0 .. MaxNest]]
    <2>1. CASE StartSection(c, s)
        <3>1. held' = [held EXCEPT ![c][s] = @ + 1] /\ held[c][s] < MaxNest
            BY <2>1 DEF StartSection
        <3>2. held[c][s] + 1 \in 0 .. MaxNest
            BY <1>1, <3>1, BoundsAssumption
        <3> QED
            BY <1>1, <3>1, <3>2
    <2>2. CASE EndSection(c, s)
        <3>1. held' = [held EXCEPT ![c][s] = @ - 1] /\ held[c][s] > 0
            BY <2>2 DEF EndSection
        <3>2. held[c][s] - 1 \in 0 .. MaxNest
            BY <1>1, <3>1, BoundsAssumption
        <3> QED
            BY <1>1, <3>1, <3>2
    <2> QED
        BY <2>1, <2>2
<1>4. CASE cxt[c].enabled
    BY <1>1, <1>2, <1>3, <1>4, RecordTurn
<1>5. CASE ~cxt[c].enabled
    <2>1. Idle
        BY <1>1, <1>2, <1>5 DEF Record, Idle
    <2> QED
        BY <1>3, <1>5, <2>1, IdleBase
<1> QED
    BY <1>4, <1>5

(* The file the child depends on is finished.                              *)
LEMMA ForkParentTurn ==
    ASSUME BaseInv, NEW c \in Ctxs, ForkParent(c)
    PROVE  Step(c)
<1>1. /\ state[c] = "parent" /\ state' = [state EXCEPT ![c] = "live"]
      /\ disk' = disk \cup Finished(cxt[c], FALSE) /\ UNCHANGED <<held, lost, nextId, garbled, unmarked>>
    BY DEF ForkParent, Save
<1>2. Fine(cxt[c]) /\ cxt[c].id < nextId /\ nextId \in 1 .. MaxIds + 1 /\ cxt[c].ordinal < MaxOrdinal
    BY <1>1, FineOf DEF Alive, Owns, BaseInv, CxtInv
<1>3. PICK y :
         /\ Fine(y) /\ BecomeAfter(c, y, {})
         /\ \/ Valid(cxt[c]) /\ (Opened(cxt[c], y) \/ Failed(cxt[c], y))
            \/ Dropped(cxt[c], y)
    <2>1. CASE Valid(cxt[c]) /\ cxt[c].running
        <3>1. PICK y \in Reopen(cxt[c]) : BecomeAfter(c, y, {})
            BY <2>1 DEF ForkParent, Become
        <3>2. Fine(y) /\ (Opened(cxt[c], y) \/ Failed(cxt[c], y))
            BY <1>2, ReopenFacts
        <3> QED
            BY <2>1, <3>1, <3>2
    <2>2. CASE ~(Valid(cxt[c]) /\ cxt[c].running)
        <3>1. BecomeAfter(c, Closed(cxt[c]), {})
            BY <2>2 DEF ForkParent, Become
        <3> QED
            BY <1>2, <3>1, ClosedFacts
    <2> QED
        BY <2>1, <2>2
<1> PICK es \in SUBSET Rare : BecomeAfter(c, y, es)
    <2>1. {} \in SUBSET Rare
        OBVIOUS
    <2> QED
        BY <1>3, <2>1
<1>4. cxt'[c] = y /\ line'[c] = Latest(c, y) /\ Unopened(cxt[c], y) \subseteq happened'
    BY <1>3, BecomeFacts
<1>5. /\ state' \in [Ctxs -> {"none", "live", "parent", "child", "gone"}]
      /\ state'[c] = "live" /\ \A e \in Ctxs \ {c} : state'[e] = state[e]
    BY <1>1 DEF BaseInv, TypeOK
<1>6. Turn(c)
    <2>1. CASE Dropped(cxt[c], y)
        BY <2>1, <1>1, <1>4, <1>5 DEF Turn, Closes, Owns
    <2>2. CASE Valid(cxt[c]) /\ (Opened(cxt[c], y) \/ Failed(cxt[c], y))
        BY <2>2, <1>1, <1>2, <1>4, <1>5, FailedShows DEF Turn, Opens, Owns
    <2> QED
        BY <1>3, <2>1, <2>2
<1>7. /\ held' \in [Ctxs -> [Sections -> 0 .. MaxNest]]
      /\ disk' \subseteq TraceFiles /\ lost' \subseteq TraceFiles /\ garbled' = {}
      /\ unmarked' \subseteq 1 .. MaxIds
    BY <1>1, <1>2, FinishedFacts DEF BaseInv, TypeOK, ChildShutsQuietly
<1>8. y.id < nextId' /\ nextId' \in 1 .. MaxIds + 1 /\ nextId <= nextId'
    BY <1>1, <1>2, <1>3, BoundsAssumption DEF Opened, Failed, Dropped, SameStream
<1> QED
    BY <1>3, <1>5, <1>6, <1>7, <1>8, TurnBase DEF Step

(* What a forked child closes has nothing in its buffer.                   *)
LEMMA ShutQuietly ==
    ASSUME BaseInv, NEW d \in Ctxs, state[d] = "child", Shut(d)
    PROVE  garbled' = {} /\ cxt[d].ordinal < MaxOrdinal
BY DEF BaseInv, CxtInv, ChildShutsQuietly, Shut

LEMMA UnmarkedFacts ==
    ASSUME BaseInv, NEW d \in Ctxs, Fine(cxt'[d]), unmarked' = unmarked \cup Unmarked(cxt'[d])
    PROVE  unmarked' \subseteq 1 .. MaxIds
<1>1. cxt'[d].id \in 1 .. MaxIds
    BY BoundsAssumption DEF Fine, Cxts
<1>2. Unmarked(cxt'[d]) \subseteq {cxt'[d].id}
    BY DEF Unmarked
<1> QED
    BY <1>1, <1>2 DEF BaseInv, TypeOK

LEMMA ForkChildTurn ==
    ASSUME BaseInv, NEW d \in Ctxs, ForkChild(d)
    PROVE  Step(d)
<1> DEFINE x == PidChanged(Closed(cxt[d]), nextId)
<1>1. /\ state[d] = "child" /\ MayBegin /\ state' = [state EXCEPT ![d] = "live"]
      /\ nextId' = nextId + 1 /\ Shut(d) /\ UNCHANGED <<held, disk, lost>>
      /\ IF IsRunning(cxt[d]) THEN \E y \in Reopen(x) : BecomeAfter(d, RestoreSections(y), {})
         ELSE BecomeAfter(d, x, {})
    BY DEF ForkChild, Become
<1>2. Fine(cxt[d]) /\ nextId \in 1 .. MaxIds /\ garbled' = {} /\ cxt[d].ordinal < MaxOrdinal
    BY <1>1, FineOf, MayBeginFacts, ShutQuietly DEF Alive
<1>3. Fine(Closed(cxt[d])) /\ Dropped(cxt[d], Closed(cxt[d]))
    BY <1>2, ClosedFacts
<1>4. Fine(x) /\ Begun(cxt[d], x, nextId) /\ x.ordinal < MaxOrdinal
    <2>1. Fine(x) /\ Begun(Closed(cxt[d]), x, nextId)
        BY <1>2, <1>3, BeginFacts DEF PidChanged, Dropped
    <2>2. cxt[d].ordinal \in Nat
        BY <1>2 DEF Fine, Cxts
    <2> QED
        BY <1>2, <1>3, <2>1, <2>2, BoundsAssumption DEF Begun, Dropped, SameStream, Origin, Ref
<1> HIDE DEF x
<1>5. PICK y :
         Fine(y) /\ BecomeAfter(d, y, {}) /\ (y = x \/ Opened(x, y) \/ Failed(x, y))
    <2>1. CASE IsRunning(cxt[d])
        <3>1. PICK z \in Reopen(x) : BecomeAfter(d, RestoreSections(z), {})
            BY <1>1, <2>1
        <3>2. Fine(z) /\ (Opened(x, z) \/ Failed(x, z))
            BY <1>4, ReopenFacts
        <3>3. Fine(RestoreSections(z)) /\ Kept(z, RestoreSections(z))
            BY <3>2, RestoreFacts
        <3>4. Opened(x, RestoreSections(z)) \/ Failed(x, RestoreSections(z))
            BY <1>4, <3>2, <3>3, KeptKept
        <3> QED
            BY <3>1, <3>3, <3>4
    <2>2. CASE ~IsRunning(cxt[d])
        BY <1>1, <1>4, <2>2
    <2> QED
        BY <2>1, <2>2
<1> PICK es \in SUBSET Rare : BecomeAfter(d, y, es)
    <2>1. {} \in SUBSET Rare
        OBVIOUS
    <2> QED
        BY <1>5, <2>1
<1>6. cxt'[d] = y /\ line'[d] = Latest(d, y) /\ Unopened(cxt[d], y) \subseteq happened'
    BY <1>5, BecomeFacts
<1>7. /\ state' \in [Ctxs -> {"none", "live", "parent", "child", "gone"}]
      /\ state'[d] = "live" /\ \A e \in Ctxs \ {d} : state'[e] = state[e]
    BY <1>1 DEF BaseInv, TypeOK
<1>8. y.id = nextId /\ cxt[d].id < nextId
    BY <1>1, <1>4, <1>5, FineOf DEF Begun, Opened, Failed, SameStream, Alive
<1>9. Failed(x, y) => "openfail" \in happened'
    <2> SUFFICES ASSUME Failed(x, y)
                 PROVE  "openfail" \in happened'
        OBVIOUS
    <2>1. ~Valid(y) /\ y.ordinal = 1
        BY <1>4 DEF Failed, Begun
    <2>2. "openfail" \in Unopened(cxt[d], y)
        BY <1>2, <1>8, <2>1 DEF Unopened
    <2> QED
        BY <1>6, <2>2
<1>10. Turn(d)
    BY <1>1, <1>4, <1>5, <1>6, <1>7, <1>9 DEF Turn, Begins
<1>11. /\ held' \in [Ctxs -> [Sections -> 0 .. MaxNest]]
       /\ disk' \subseteq TraceFiles /\ lost' \subseteq TraceFiles
    BY <1>1 DEF BaseInv, TypeOK
<1>12. unmarked' \subseteq 1 .. MaxIds
    <2>1. unmarked' = unmarked \cup Unmarked(cxt'[d])
        BY DEF ForkChild
    <2> QED
        BY <1>5, <1>6, <2>1, UnmarkedFacts
<1>13. y.id < nextId' /\ nextId' \in 1 .. MaxIds + 1 /\ nextId <= nextId'
    BY <1>1, <1>2, <1>8, BoundsAssumption
<1> QED
    BY <1>2, <1>5, <1>7, <1>10, <1>11, <1>13, <1>12, TurnBase DEF Step

(* It goes on under the id of its parent, or ends.                         *)
LEMMA ForkChildCroaksTurn ==
    ASSUME BaseInv, NEW d \in Ctxs, ForkChildCroaks(d)
    PROVE  Step(d)
<1> DEFINE y == Closed(cxt[d])
           es == {"nothread"}
<1>1. /\ state[d] = "child" /\ state' = [state EXCEPT ![d] = "live"] /\ Shut(d)
      /\ BecomeAfter(d, y, es) /\ UNCHANGED <<held, disk, lost, nextId, unmarked>>
    BY DEF ForkChildCroaks
<1>2. /\ Fine(cxt[d]) /\ cxt[d].id < nextId /\ nextId \in 1 .. MaxIds + 1 /\ garbled' = {}
      /\ es \subseteq Rare
    BY <1>1, FineOf, ShutQuietly DEF Alive, Rare
<1>3. Fine(y) /\ Dropped(cxt[d], y)
    BY <1>2, ClosedFacts
<1>4. "nothread" \in es
    OBVIOUS
<1> HIDE DEF y, es
<1>5. cxt'[d] = y /\ line'[d] = Latest(d, y) /\ es \subseteq happened'
    BY <1>1, <1>2, <1>3, BecomeFacts
<1>6. /\ state' \in [Ctxs -> {"none", "live", "parent", "child", "gone"}]
      /\ state'[d] = "live" /\ \A e \in Ctxs \ {d} : state'[e] = state[e]
    BY <1>1 DEF BaseInv, TypeOK
<1>7. Turn(d)
    BY <1>1, <1>3, <1>4, <1>5, <1>6 DEF Turn, Leaves
<1>8. /\ held' \in [Ctxs -> [Sections -> 0 .. MaxNest]]
      /\ disk' \subseteq TraceFiles /\ lost' \subseteq TraceFiles /\ unmarked' \subseteq 1 .. MaxIds
    BY <1>1 DEF BaseInv, TypeOK
<1>9. y.id < nextId' /\ nextId' \in 1 .. MaxIds + 1 /\ nextId <= nextId'
    BY <1>1, <1>2, <1>3, BoundsAssumption DEF Dropped, SameStream
<1> QED
    BY <1>1, <1>2, <1>3, <1>6, <1>7, <1>8, <1>9, TurnBase DEF Step

(* A context is gone.                                                      *)
LEMMA GoneTurn ==
    ASSUME BaseInv, NEW c \in Ctxs, Exit(c) \/ Crash(c)
    PROVE  Step(c)
<1> DEFINE y == Closed(cxt[c])
<1>1. /\ Alive(c) /\ state' = [state EXCEPT ![c] = "gone"]
      /\ BecomeAfter(c, y, {}) /\ UNCHANGED <<held, nextId, garbled, unmarked>>
    BY DEF Exit, Crash, Become, Alive, Owns, Live
<1>2. Fine(cxt[c]) /\ cxt[c].id < nextId /\ nextId \in 1 .. MaxIds + 1
    BY <1>1, FineOf
<1>3. Fine(y) /\ Dropped(cxt[c], y)
    BY <1>2, ClosedFacts
<1> HIDE DEF y
<1> PICK es \in SUBSET Rare : BecomeAfter(c, y, es)
    <2>1. {} \in SUBSET Rare
        OBVIOUS
    <2> QED
        BY <1>1, <2>1
<1>4. cxt'[c] = y /\ line'[c] = Latest(c, y) /\ ~Valid(y)
    BY <1>3, BecomeFacts DEF Dropped
<1>5. /\ state' \in [Ctxs -> {"none", "live", "parent", "child", "gone"}]
      /\ state'[c] = "gone" /\ \A e \in Ctxs \ {c} : state'[e] = state[e]
    BY <1>1 DEF BaseInv, TypeOK
<1>6. \/ /\ Owns(c) /\ lost' = lost
         /\ disk' = disk \cup Finished(cxt[c], TRUE)
      \/ /\ Owns(c) /\ disk' = disk
         /\ lost' = lost \cup Finished(cxt[c], FALSE)
      \/ state[c] = "child" /\ disk' = disk /\ lost' = lost
    BY DEF Exit, Crash, Save, Owns, Live
<1>7. Turn(c)
    <2>1. CASE Owns(c)
        BY <2>1, <1>3, <1>4, <1>5, <1>6 DEF Turn, Closes, Owns
    <2>2. CASE ~Owns(c)
        BY <2>2, <1>3, <1>4, <1>5, <1>6 DEF Turn, Leaves
    <2> QED
        BY <2>1, <2>2
<1>8. /\ held' \in [Ctxs -> [Sections -> 0 .. MaxNest]] /\ garbled' = {} /\ unmarked' \subseteq 1 .. MaxIds
      /\ disk' \subseteq TraceFiles /\ lost' \subseteq TraceFiles
    BY <1>1, <1>2, <1>6, FinishedFacts DEF BaseInv, TypeOK, ChildShutsQuietly
<1>9. y.id < nextId' /\ nextId' \in 1 .. MaxIds + 1 /\ nextId <= nextId'
    BY <1>1, <1>2, <1>3, BoundsAssumption DEF Dropped, SameStream
<1> QED
    BY <1>3, <1>4, <1>5, <1>7, <1>8, <1>9, TurnBase DEF Step

-----------------------------------------------------------------------------
(* Steps with two contexts                                                 *)

(* The types of what they leave.                                           *)
LEMMA PairBase ==
    ASSUME BaseInv, NEW c \in Ctxs, NEW d \in Ctxs \ {c}, NEW y, Fine(y), NEW z, Fine(z),
           cxt' = [cxt EXCEPT ![c] = y, ![d] = z],
           NEW s \in {"live", "parent"}, NEW t \in {"live", "child"},
           \A e \in Ctxs \ {c, d} : state'[e] = state[e] /\ line'[e] = line[e],
           state' \in [Ctxs -> {"none", "live", "parent", "child", "gone"}],
           state'[c] = s, state'[d] = t,
           s = "parent" => y.ordinal < MaxOrdinal /\ ~y.trace.buffered,
           t = "child" => z.ordinal < MaxOrdinal /\ ~z.trace.buffered,
           held' \in [Ctxs -> [Sections -> 0 .. MaxNest]], line' \in [Ctxs -> Refs],
           disk' \subseteq TraceFiles, lost' = lost, garbled' = garbled, happened' \subseteq Rare,
           unmarked' \subseteq 1 .. MaxIds,
           nextId' \in 1 .. MaxIds + 1, nextId <= nextId', y.id < nextId', z.id < nextId'
    PROVE  /\ BaseInv' /\ cxt'[c] = y /\ cxt'[d] = z
           /\ \A e \in Ctxs \ {c, d} : Same(e)
<1>1. /\ cxt' \in [Ctxs -> Cxts] /\ cxt'[c] = y /\ cxt'[d] = z
      /\ \A e \in Ctxs \ {c, d} : cxt'[e] = cxt[e]
    BY DEF BaseInv, TypeOK, Fine
<1>2. TypeOK'
    BY <1>1 DEF BaseInv, TypeOK
<1>3. y.id \in 1 .. nextId' - 1 /\ z.id \in 1 .. nextId' - 1
    BY BoundsAssumption DEF Fine, Cxts
<1>4. CxtInv(c)' /\ CxtInv(d)'
    BY <1>1, <1>3 DEF CxtInv, Alive, Owns, Fine, Valid, Ref
<1>5. ASSUME NEW e \in Ctxs \ {c, d}
      PROVE  CxtInv(e)'
    <2>1. CxtInv(e) /\ nextId \in 1 .. MaxIds + 1
        BY DEF BaseInv, TypeOK
    <2>2. cxt'[e] = cxt[e] /\ state'[e] = state[e]
        BY <1>1
    <2>3. cxt[e].id \in 1 .. nextId - 1 => cxt[e].id \in 1 .. nextId' - 1
        BY <2>1, BoundsAssumption
    <2> QED
        BY <2>1, <2>2, <2>3 DEF CxtInv, Alive, Owns, Valid, Ref
<1> QED
    BY <1>1, <1>2, <1>4, <1>5 DEF BaseInv, ChildShutsQuietly, Same

LEMMA ForkPair ==
    ASSUME BaseInv, NEW c \in Ctxs, NEW d \in Ctxs \ {c}, Fork(c, d)
    PROVE  Pair(c, d)
<1> DEFINE y == Flushed(cxt[c])
<1>1. /\ Live(c) /\ state[d] = "none" /\ cxt[c].ordinal < MaxOrdinal
      /\ state' = [state EXCEPT ![c] = "parent", ![d] = "child"]
      /\ cxt' = [cxt EXCEPT ![c] = y, ![d] = y]
      /\ held' = [held EXCEPT ![d] = held[c]] /\ line' = [line EXCEPT ![d] = line[c]]
      /\ UNCHANGED <<disk, lost, nextId, happened, garbled, unmarked>>
    BY DEF Fork, MayFollow
<1>2. Fine(cxt[c]) /\ cxt[c].id < nextId /\ nextId \in 1 .. MaxIds + 1
    BY <1>1, FineOf DEF Live, Alive, Owns
<1>3. Fine(y) /\ Kept(cxt[c], y) /\ ~y.trace.buffered
    <2> DEFINE x == cxt[c]
               t == [x.trace EXCEPT !.buffered = FALSE]
    <2>1. x \in Cxts /\ x.trace \in Traces /\ x.trace.records \in Seq(Records)
        BY <1>2 DEF Fine, Cxts, Traces
    <2>2. /\ t \in Traces /\ t.buffered = FALSE /\ t.ref = x.trace.ref
          /\ t.parent = x.trace.parent /\ t.records = x.trace.records
        BY <2>1 DEF Traces
    <2>3. y = [x EXCEPT !.trace = t]
        BY <2>1 DEF Flushed, Cxts, Traces
    <2> HIDE DEF t
    <2>4. /\ y \in Cxts /\ y.id = x.id /\ y.ordinal = x.ordinal /\ y.parent = x.parent
          /\ y.written = x.written /\ y.enabled = x.enabled /\ y.trace = t
        BY <2>1, <2>2, <2>3 DEF Cxts
    <2>5. Valid(y) <=> Valid(x)
        <3>1. CASE Valid(x)
            <4>1. t.ref # NoParent
                BY <1>2, <2>2, <3>1, FineRef DEF Fine
            <4> QED
                BY <2>4, <3>1, <4>1, NoTraceFacts DEF Valid
        <3>2. CASE ~Valid(x)
            <4>1. x.trace = NoTrace
                BY <3>2 DEF Valid
            <4>2. /\ t.ref = NoTrace.ref /\ t.parent = NoTrace.parent
                  /\ t.records = NoTrace.records /\ t.buffered = NoTrace.buffered
                BY <2>2, <4>1, NoTraceFacts
            <4>3. t = NoTrace
                BY <2>2, <4>2, NoTraceFacts DEF Traces
            <4> QED
                BY <2>4, <3>2, <4>3 DEF Valid
        <3> QED
            BY <3>1, <3>2
    <2>6. IsPrefix(x.trace.records, y.trace.records)
        BY <2>1, <2>2, <2>4, PrefixFacts
    <2> QED
        BY <1>2, <2>2, <2>4, <2>5, <2>6 DEF Fine, Kept, SameStream, Ref
<1> HIDE DEF y
<1>4. /\ state' \in [Ctxs -> {"none", "live", "parent", "child", "gone"}]
      /\ state'[c] = "parent" /\ state'[d] = "child"
      /\ \A e \in Ctxs \ {c, d} : state'[e] = state[e] /\ line'[e] = line[e]
      /\ line' \in [Ctxs -> Refs] /\ line'[d] = line[c] /\ line'[c] = line[c]
      /\ held' \in [Ctxs -> [Sections -> 0 .. MaxNest]]
      /\ disk' \subseteq TraceFiles /\ happened' \subseteq Rare /\ unmarked' \subseteq 1 .. MaxIds
    BY <1>1 DEF BaseInv, TypeOK
<1>5. y.ordinal < MaxOrdinal /\ y.id < nextId'
    BY <1>1, <1>2, <1>3 DEF Kept, SameStream
<1>6. nextId' \in 1 .. MaxIds + 1 /\ nextId <= nextId'
    BY <1>1, <1>2, BoundsAssumption
<1>7. BaseInv' /\ cxt'[c] = y /\ cxt'[d] = y /\ \A e \in Ctxs \ {c, d} : Same(e)
    BY <1>1, <1>3, <1>4, <1>5, <1>6, PairBase
<1>8. Keeps(c)
    BY <1>1, <1>3, <1>4, <1>7 DEF Keeps, Live
<1> QED
    BY <1>1, <1>4, <1>6, <1>7, <1>8 DEF Pair, Forked, Turn

LEMMA ClonePair ==
    ASSUME BaseInv, NEW c \in Ctxs, NEW d \in Ctxs \ {c}, CloneThread(c, d)
    PROVE  Pair(c, d)
<1> DEFINE x == cxt[c]
           z == Clone(x, nextId)
<1>1. /\ Live(c) /\ state[d] = "none" /\ MayBegin /\ (Valid(x) => x.ordinal < MaxOrdinal)
      /\ state' = [state EXCEPT ![d] = "live"] /\ nextId' = nextId + 1
      /\ held' = [held EXCEPT ![d] = held[c]] /\ disk' = disk \cup Finished(x, FALSE)
      /\ UNCHANGED <<lost, garbled>>
    BY DEF CloneThread, Save, MayFollow
<1>2. PICK y \in (IF Valid(x) THEN Reopen(x) ELSE {x}), es \in SUBSET Rare :
         /\ x.written \/ "early" \in es
         /\ cxt' = [cxt EXCEPT ![c] = y, ![d] = z]
         /\ line' = [line EXCEPT ![c] = Latest(c, y), ![d] = line[c]]
         /\ happened' = happened \cup es \cup Unopened(x, y)
    <2> DEFINE es == IF x.written THEN {} ELSE {"early"}
    <2>1. es \in SUBSET Rare /\ (x.written \/ "early" \in es)
        BY DEF Rare
    <2>2. \E y \in IF Valid(x) THEN Reopen(x) ELSE {x} :
             /\ cxt' = [cxt EXCEPT ![c] = y, ![d] = z]
             /\ line' = [line EXCEPT ![c] = Latest(c, y), ![d] = line[c]]
             /\ happened' = happened \cup es \cup Unopened(x, y)
        BY DEF CloneThread
    <2> HIDE DEF es, z
    <2> QED
        BY <2>1, <2>2
<1>3. Fine(x) /\ x.id < nextId /\ nextId \in 1 .. MaxIds
    BY <1>1, FineOf, MayBeginFacts DEF Live, Alive, Owns
<1>4. /\ Fine(z) /\ z.id = nextId /\ z.ordinal = 0 /\ z.parent = Ref(x)
      /\ ~z.written /\ ~Valid(z)
    <2>1. /\ x.sections \in [Sections -> Nat] /\ Ref(x) \in Refs /\ x.enabled \in BOOLEAN
          /\ nextId \in 0 .. MaxIds /\ 0 \in 0 .. MaxOrdinal /\ nextId # 0
        BY <1>3, FineRef, BoundsAssumption DEF Fine, Cxts
    <2>2. /\ z.id = nextId /\ z.ordinal = 0 /\ z.parent = Ref(x) /\ z.written = FALSE
          /\ z.trace = NoTrace /\ z \in Cxts
        BY <2>1, NoTraceFacts DEF Clone, NewCxt, Cxts
    <2> QED
        BY <2>1, <2>2 DEF Fine, Valid
<1> HIDE DEF z
<1>5. Fine(y) /\ IF Valid(x) THEN Opened(x, y) \/ Failed(x, y) ELSE y = x
    BY <1>1, <1>2, <1>3, ReopenFacts
<1>6. /\ state' \in [Ctxs -> {"none", "live", "parent", "child", "gone"}]
      /\ state'[c] = "live" /\ state'[d] = "live"
      /\ \A e \in Ctxs \ {c, d} : state'[e] = state[e]
      /\ held' \in [Ctxs -> [Sections -> 0 .. MaxNest]]
    BY <1>1 DEF BaseInv, TypeOK, Live
<1>7. /\ line' \in [Ctxs -> Refs] /\ line'[c] = Latest(c, y) /\ line'[d] = line[c]
      /\ \A e \in Ctxs \ {c, d} : line'[e] = line[e]
    <2>1. line \in [Ctxs -> Refs] /\ Latest(c, y) \in Refs
        BY <1>5, FineRef DEF BaseInv, TypeOK, Latest, Fine
    <2> QED
        BY <1>2, <2>1
<1>8. happened' \subseteq Rare /\ disk' \subseteq TraceFiles
    BY <1>1, <1>2, <1>3, FinishedFacts DEF BaseInv, TypeOK, Unopened, Rare
<1>9. /\ nextId' \in 1 .. MaxIds + 1 /\ nextId <= nextId' /\ z.id < nextId' /\ y.id < nextId'
    <2>1. y.id = x.id /\ x.id \in Nat
        BY <1>3, <1>5 DEF Opened, Failed, SameStream, Fine, Cxts
    <2> QED
        BY <2>1, <1>1, <1>3, <1>4, BoundsAssumption
<1>10. unmarked' \subseteq 1 .. MaxIds
    <2>1. cxt'[d] = z
        BY <1>2 DEF BaseInv, TypeOK
    <2> QED
        BY <1>4, <2>1, UnmarkedFacts DEF CloneThread
<1>11. BaseInv' /\ cxt'[c] = y /\ cxt'[d] = z /\ \A e \in Ctxs \ {c, d} : Same(e)
    BY <1>1, <1>2, <1>4, <1>5, <1>6, <1>7, <1>8, <1>9, <1>10, PairBase
<1>12. IF Valid(x) THEN Opens(c) ELSE Keeps(c)
    <2>1. CASE Valid(x)
        BY <2>1, <1>1, <1>2, <1>3, <1>5, <1>6, <1>11, FailedShows DEF Opens, Owns, Live
    <2>2. CASE ~Valid(x)
        <3>1. Kept(x, x)
            BY <1>3, KeptFields DEF Fine
        <3> QED
            BY <2>2, <3>1, <1>1, <1>5, <1>6, <1>11 DEF Keeps, Live, Finished
    <2> QED
        BY <2>1, <2>2
<1> QED
    BY <1>1, <1>2, <1>4, <1>6, <1>7, <1>9, <1>11, <1>12 DEF Pair, Cloned, Turn

-----------------------------------------------------------------------------
(* Types, and the handlers of forks                                        *)

LEMMA NextTurns ==
    ASSUME BaseInv, Next
    PROVE  \/ \E c \in Ctxs : Step(c)
           \/ \E c \in Ctxs : \E d \in Ctxs \ {c} : Pair(c, d)
           \/ Idle /\ BaseInv'
BY EnterLoopTurn, LeaveLoopTurn, EnableTurn, DisableTurn, StopTurn, RotateTurn, SaveEvalTurn,
   SectionTurn, ForkParentTurn, ForkChildTurn, ForkChildCroaksTurn, GoneTurn, ForkPair, ClonePair
   DEF Next

LEMMA InitBase == Init => BaseInv
<1> SUFFICES ASSUME Init
             PROVE  BaseInv
    OBVIOUS
<1>1. PICK c \in Ctxs, on \in BOOLEAN :
         /\ state = [d \in Ctxs |-> IF d = c THEN "live" ELSE "none"]
         /\ cxt = [d \in Ctxs |-> IF d = c THEN [NewCxt(1) EXCEPT !.enabled = on] ELSE NewCxt(0)]
         /\ held = [d \in Ctxs |-> Nothing]
         /\ disk = {} /\ lost = {} /\ nextId = 2 /\ happened = {} /\ garbled = {} /\ unmarked = {}
         /\ line = [d \in Ctxs |-> NoParent]
    BY DEF Init
<1>2. 0 \in 0 .. MaxIds /\ 1 \in 0 .. MaxIds /\ 0 \in 0 .. MaxOrdinal /\ 0 \in 0 .. MaxNest
      /\ 2 \in 1 .. MaxIds + 1 /\ 1 \in 1 .. 2 - 1
    BY BoundsAssumption
<1>3. ASSUME NEW i \in {0, 1}
      PROVE  /\ NewCxt(i) \in Cxts /\ NewCxt(i).id = i /\ NewCxt(i).trace = NoTrace
             /\ NewCxt(i).ordinal = 0 /\ ~NewCxt(i).written /\ NewCxt(i).parent = NoParent
    BY <1>2, <1>3, NoTraceFacts DEF NewCxt, Cxts
<1> DEFINE x == [NewCxt(1) EXCEPT !.enabled = on]
<1>4. x \in Cxts /\ x.id = 1 /\ x.trace = NoTrace /\ x.ordinal = 0 /\ x.parent = NoParent
    BY <1>3 DEF Cxts
<1> HIDE DEF x
<1>5. cxt \in [Ctxs -> Cxts]
    BY <1>1, <1>3, <1>4 DEF x
<1>6. TypeOK
    BY <1>1, <1>2, <1>5, NoTraceFacts DEF TypeOK, Nothing
<1>7. \A d \in Ctxs : CxtInv(d)
    BY <1>1, <1>2, <1>3, <1>4 DEF CxtInv, Alive, Owns, Valid, x
<1> QED
    BY <1>1, <1>6, <1>7 DEF BaseInv, ChildShutsQuietly

LEMMA NextBase ==
    ASSUME BaseInv, [Next]_vars
    PROVE  BaseInv'
<1>1. CASE Next
    BY <1>1, NextTurns DEF Step, Pair
<1>2. CASE UNCHANGED vars
    <2>1. held' \in [Ctxs -> [Sections -> 0 .. MaxNest]]
        BY <1>2 DEF vars, BaseInv, TypeOK
    <2> QED
        BY <1>2, <2>1, IdleBase DEF vars, Idle
<1> QED
    BY <1>1, <1>2

LEMMA BaseInvariant == Spec => []BaseInv
<1>1. BaseInv /\ [Next]_vars => BaseInv'
    BY NextBase
<1> QED
    BY <1>1, InitBase, PTL DEF Spec

-----------------------------------------------------------------------------
(* Every file has one writer                                               *)

LEMMA OwnersStep ==
    ASSUME BaseInv, BaseInv', OwnersInv, NEW c \in Ctxs, NEW d \in Ctxs, Turn(c),
           d = c \/ Forked(c, d) \/ Cloned(c, d),
           \A e \in Ctxs \ {c, d} : Same(e), happened \subseteq happened', nextId <= nextId'
    PROVE  OwnersInv'
<1> SUFFICES ASSUME "nothread" \notin happened'
             PROVE  OwnersInv'
    BY DEF OwnersInv
<1> DEFINE saved == disk \cup lost
           mine(f) == Owns(c) /\ Valid(cxt[c]) /\ f.ref = Ref(cxt[c])
           old(e) == Owns(e) /\ cxt'[e].id = cxt[e].id
           new(e) == cxt'[e].id = nextId /\ nextId' = nextId + 1
<1>1. /\ \A e, g \in Ctxs : Owns(e) /\ Owns(g) /\ cxt[e].id = cxt[g].id => e = g
      /\ \A f, g \in saved : f.ref = g.ref => f = g
      /\ \A f \in saved :
            /\ f.ref.id < nextId
            /\ \A e \in Ctxs : Owns(e) /\ cxt[e].id = f.ref.id =>
                  f.ref.ordinal <= cxt[e].ordinal /\ (Valid(cxt[e]) => f.ref # Ref(cxt[e]))
    BY DEF OwnersInv
<1>2. /\ \A e \in Ctxs : cxt[e] \in Cxts /\ (Owns(e) => Fine(cxt[e]) /\ cxt[e].id < nextId)
      /\ \A f \in saved \cup (saved)' : f.ref \in Refs
      /\ nextId \in Nat /\ nextId' \in Nat
    <2>1. \A e \in Ctxs : Owns(e) => Fine(cxt[e]) /\ cxt[e].id < nextId
        BY FineOf DEF Alive
    <2> QED
        BY <2>1, BoundsAssumption DEF BaseInv, TypeOK, TraceFiles
<1>3. \A f \in (saved)' : f \in saved \/ mine(f)
    <2>1. \A last \in BOOLEAN : Owns(c) => \A f \in Finished(cxt[c], last) : mine(f)
        BY <1>2, FinishedFacts
    <2> QED
        BY <2>1 DEF Turn, Keeps, Opens, Closes, Begins, Leaves
<1>4. \A f, g \in (saved)' : mine(f) /\ mine(g) => f = g
    <2>1. \A f \in saved : ~mine(f)
        BY <1>1 DEF Ref
    <2>2. \A last \in BOOLEAN : Owns(c) => \A f, g \in Finished(cxt[c], last) : f = g
        BY DEF Finished
    <2> QED
        BY <2>1, <2>2 DEF Turn, Keeps, Opens, Closes, Begins, Leaves
<1>5. Owns(c)' =>
         \/ /\ old(c) /\ cxt'[c].ordinal >= cxt[c].ordinal
            /\ \/ ~Valid(cxt'[c]) \/ cxt'[c].ordinal > cxt[c].ordinal
               \/ Valid(cxt[c]) /\ Ref(cxt'[c]) = Ref(cxt[c]) /\ (saved)' = saved
         \/ new(c) /\ d = c /\ (saved)' = saved
    <2>1. cxt[c].ordinal \in Nat
        BY <1>2 DEF Cxts
    <2>2. CASE Keeps(c)
        BY <2>1, <2>2 DEF Keeps, Kept, SameStream, Owns, Ref
    <2>3. CASE Opens(c)
        <3>1. Owns(c) /\ cxt'[c].id = cxt[c].id /\ cxt'[c].ordinal = cxt[c].ordinal + 1
            BY <2>3 DEF Opens, Opened, Failed, SameStream
        <3> QED
            BY <2>1, <3>1
    <2>4. CASE Closes(c)
        BY <2>1, <2>4 DEF Closes, Dropped, SameStream, Owns
    <2>5. CASE Begins(c)
        <3>1. new(c) /\ (saved)' = saved
            BY <2>5 DEF Begins, Begun, Opened, Failed, SameStream
        <3>2. Keeps(c) \/ Opens(c) => Owns(c) /\ cxt'[c].id = cxt[c].id
            BY DEF Keeps, Opens, Kept, Opened, Failed, SameStream, Owns
        <3>3. d = c
            BY <1>2, <3>1, <3>2 DEF Forked, Cloned
        <3> QED
            BY <3>1, <3>3
    <2>6. CASE Leaves(c)
        BY <2>6 DEF Leaves, Owns
    <2> QED
        BY <2>2, <2>3, <2>4, <2>5, <2>6 DEF Turn
<1>6. \A e \in Ctxs : Owns(e)' => old(e) \/ new(e)
    <2> SUFFICES ASSUME NEW e \in Ctxs, Owns(e)'
                 PROVE  old(e) \/ new(e)
        OBVIOUS
    <2>1. CASE e = c
        BY <2>1, <1>5
    <2>2. CASE e = d /\ d # c
        BY <2>2 DEF Forked, Cloned, Owns
    <2>3. CASE e \notin {c, d}
        BY <2>3 DEF Same, Owns
    <2> QED
        BY <2>1, <2>2, <2>3
<1>7. \A e, g \in Ctxs : Owns(e)' /\ Owns(g)' /\ new(e) /\ new(g) => e = g
    <2>1. \A e \in Ctxs \ {c, d} : Owns(e)' => ~new(e)
        BY <1>2 DEF Same, Owns
    <2>2. d # c /\ Owns(c)' => ~new(c)
        BY <1>2, <1>5
    <2> QED
        BY <2>1, <2>2
<1>8. \A e, g \in Ctxs : Owns(e)' /\ Owns(g)' /\ cxt'[e].id = cxt'[g].id => e = g
    BY <1>1, <1>2, <1>6, <1>7
<1>9. \A f, g \in (saved)' : f.ref = g.ref => f = g
    <2>1. \A f \in saved, g \in (saved)' : f.ref = g.ref => g \in saved
        BY <1>1, <1>3 DEF Ref
    <2> QED
        BY <1>1, <1>3, <1>4, <2>1
<1>10. \A f \in (saved)' : f.ref.id < nextId
    BY <1>1, <1>2, <1>3 DEF Ref
<1>11. ASSUME NEW f \in (saved)', NEW e \in Ctxs, Owns(e)', cxt'[e].id = f.ref.id
       PROVE  f.ref.ordinal <= cxt'[e].ordinal /\ (Valid(cxt'[e]) => f.ref # Ref(cxt'[e]))
    <2>1. old(e)
        BY <1>2, <1>6, <1>10, <1>11
    <2>2. f.ref \in Refs /\ cxt[e].ordinal \in Nat /\ cxt'[e].ordinal \in Nat
        BY <1>2 DEF BaseInv, TypeOK, Cxts
    <2>3. CASE e = c
        <3>1. f \in saved =>
                 f.ref.ordinal <= cxt[c].ordinal /\ (Valid(cxt[c]) => f.ref # Ref(cxt[c]))
            BY <1>1, <1>11, <2>1, <2>3
        <3>2. mine(f) => f.ref.ordinal <= cxt[c].ordinal
            BY <2>2, <2>3 DEF Ref
        <3>3. f \in saved \/ mine(f)
            BY <1>3
        <3>4. ~new(c)
            BY <1>2, <2>1, <2>3
        <3> QED
            BY <1>5, <1>11, <2>2, <2>3, <3>1, <3>4, <3>2, <3>3 DEF Ref, Refs
    <2>4. CASE e # c
        <3>1. e # d /\ cxt'[e] = cxt[e]
            BY <2>1, <2>4 DEF Forked, Cloned, Same, Owns
        <3>2. f \in saved
            <4>1. mine(f) => cxt[e].id = cxt[c].id
                <5>1. Ref(cxt[c]).id = cxt[c].id
                    BY DEF Ref
                <5> QED
                    BY <1>11, <2>1, <5>1
            <4>2. ~mine(f)
                BY <1>1, <2>1, <2>4, <4>1
            <4> QED
                BY <1>3, <4>2
        <3> QED
            BY <1>1, <1>11, <2>1, <3>1, <3>2
    <2> QED
        BY <2>3, <2>4
<1>12. \A f \in (saved)' : f.ref.id < nextId'
    BY <1>2, <1>10 DEF Refs
<1> QED
    BY <1>8, <1>9, <1>11, <1>12 DEF OwnersInv

LEMMA IdleOwners ==
    ASSUME OwnersInv, UNCHANGED <<state, cxt, disk, lost, nextId, happened>>
    PROVE  OwnersInv'
BY DEF OwnersInv, Owns, Valid, Ref

LEMMA InitOwners == Init => OwnersInv
BY DEF Init, OwnersInv, Owns

LEMMA NextOwners ==
    ASSUME BaseInv, BaseInv', OwnersInv, [Next]_vars
    PROVE  OwnersInv'
<1>1. CASE \E c \in Ctxs : Step(c)
    BY <1>1, OwnersStep DEF Step
<1>2. CASE \E c \in Ctxs : \E d \in Ctxs \ {c} : Pair(c, d)
    BY <1>2, OwnersStep DEF Pair
<1>3. CASE Idle \/ UNCHANGED vars
    BY <1>3, IdleOwners DEF Idle, vars
<1> QED
    BY <1>1, <1>2, <1>3, NextTurns

LEMMA OwnersInvariant == Spec => []OwnersInv
<1>1. BaseInv /\ BaseInv' /\ OwnersInv /\ [Next]_vars => OwnersInv'
    BY NextOwners
<1> QED
    BY <1>1, InitOwners, BaseInvariant, PTL DEF Spec

LEMMA OpenFilesFacts ==
    ASSUME BaseInv, NEW f \in OpenFiles
    PROVE  \E c \in Ctxs : Owns(c) /\ Fine(cxt[c]) /\ f \in Finished(cxt[c], FALSE)
BY FineOf DEF OpenFiles, Owns, Alive

LEMMA OwnersSuffice == BaseInv /\ OwnersInv => OneWriter
<1> SUFFICES ASSUME BaseInv, OwnersInv, "nothread" \notin happened
             PROVE  OneWriter
    BY DEF OneWriter
<1>1. /\ \A c, d \in Ctxs : Owns(c) /\ Owns(d) /\ cxt[c].id = cxt[d].id => c = d
      /\ \A f, g \in disk \cup lost : f.ref = g.ref => f = g
      /\ \A f \in disk \cup lost : \A c \in Ctxs :
            Owns(c) /\ cxt[c].id = f.ref.id => (Valid(cxt[c]) => f.ref # Ref(cxt[c]))
    BY DEF OwnersInv
<1>2. \A f \in OpenFiles : \E c \in Ctxs :
         Owns(c) /\ Valid(cxt[c]) /\ f.ref = Ref(cxt[c]) /\ f \in Finished(cxt[c], FALSE)
    BY OpenFilesFacts, FinishedFacts
<1>3. \A c, d \in Ctxs : Owns(c) /\ Owns(d) /\ Ref(cxt[c]) = Ref(cxt[d]) => c = d
    BY <1>1 DEF Ref
<1>4. \A f \in disk \cup lost, g \in OpenFiles : f.ref # g.ref
    <2> SUFFICES ASSUME NEW f \in disk \cup lost, NEW g \in OpenFiles, f.ref = g.ref
                 PROVE  FALSE
        OBVIOUS
    <2>1. PICK c \in Ctxs : Owns(c) /\ Valid(cxt[c]) /\ g.ref = Ref(cxt[c])
        BY <1>2
    <2>2. Ref(cxt[c]).id = cxt[c].id
        BY DEF Ref
    <2> QED
        BY <1>1, <2>1, <2>2
<1>5. \A f, g \in OpenFiles : f.ref = g.ref => f = g
    <2>1. \A c \in Ctxs : \A f, g \in Finished(cxt[c], FALSE) : f = g
        BY DEF Finished
    <2> QED
        BY <1>2, <1>3, <2>1
<1>6. \A f, g \in Files : f.ref = g.ref => f = g
    BY <1>1, <1>4, <1>5 DEF Files
<1>7. \A c \in Ctxs : Owns(c) /\ Valid(cxt[c]) => cxt[c].trace.ref = Ref(cxt[c])
    BY DEF BaseInv, CxtInv
<1> QED
    BY <1>3, <1>6, <1>7 DEF OneWriter, Owns

-----------------------------------------------------------------------------
(* The genealogy                                                           *)

LEMMA LineStep ==
    ASSUME BaseInv, BaseInv', LineInv, NEW c \in Ctxs, NEW d \in Ctxs, Turn(c),
           d = c \/ Forked(c, d) \/ Cloned(c, d),
           \A e \in Ctxs \ {c, d} : Same(e), happened \subseteq happened'
    PROVE  LineInv'
<1> SUFFICES ASSUME "early" \notin happened', "openfail" \notin happened'
             PROVE  \A e \in Ctxs : Alive(e)' =>
                       line'[e] = IF cxt'[e].written THEN Ref(cxt'[e]) ELSE cxt'[e].parent
    BY DEF LineInv
<1>1. \A e \in Ctxs : Alive(e) => line[e] = Origin(cxt[e])
    BY DEF LineInv, Origin
<1>2. /\ Valid(cxt[c]) => Alive(c) /\ cxt[c].written /\ cxt[c].trace.ref = Ref(cxt[c])
      /\ Valid(cxt'[c]) => Alive(c)' /\ cxt'[c].written /\ cxt'[c].trace.ref = Ref(cxt'[c])
    BY DEF BaseInv, CxtInv, Valid, Ref
<1>3. Alive(c)' => line'[c] = Origin(cxt'[c])
    <2>1. CASE Valid(cxt'[c]) /\ line'[c] = Latest(c, cxt'[c])
        BY <1>2, <2>1 DEF Origin, Latest
    <2>2. CASE ~(Valid(cxt'[c]) /\ line'[c] = Latest(c, cxt'[c]))
        <3>1. line'[c] = line[c]
            BY <2>2 DEF Turn, Latest
        <3>2. Alive(c)
            BY DEF Turn, Keeps, Opens, Closes, Begins, Leaves, Alive, Owns
        <3>3. CASE Keeps(c) \/ Closes(c) \/ Leaves(c)
            <4>1. /\ cxt'[c].written = cxt[c].written /\ Ref(cxt'[c]) = Ref(cxt[c])
                  /\ cxt'[c].parent = cxt[c].parent
                BY <3>3 DEF Keeps, Closes, Leaves, Kept, Dropped, SameStream, Ref
            <4> QED
                BY <1>1, <3>1, <3>2, <4>1 DEF Origin
        <3>4. CASE Opens(c) /\ ~Keeps(c)
            BY <2>2, <3>4 DEF Opens, Opened, Turn
        <3>5. CASE Begins(c) /\ ~Keeps(c)
            <4>1. PICK z : Begun(cxt[c], z, nextId) /\ (cxt'[c] = z \/ Opened(z, cxt'[c]))
                BY <3>5 DEF Begins
            <4>2. CASE cxt'[c] = z
                BY <1>1, <3>1, <3>2, <4>1, <4>2 DEF Begun, Origin
            <4>3. CASE Opened(z, cxt'[c])
                BY <2>2, <3>5, <4>3 DEF Opened, Turn
            <4> QED
                BY <4>1, <4>2, <4>3
        <3> QED
            BY <3>3, <3>4, <3>5 DEF Turn
    <2> QED
        BY <2>1, <2>2 DEF Turn
<1>4. d # c => line'[d] = Origin(cxt'[d])
    <2>1. CASE Forked(c, d)
        <3>1. line'[d] = line[c] /\ cxt'[d] = cxt'[c] /\ Keeps(c)
            BY <2>1 DEF Forked
        <3>2. Origin(cxt'[c]) = Origin(cxt[c]) /\ Alive(c)
            BY <3>1 DEF Keeps, Kept, SameStream, Origin, Ref, Alive, Owns
        <3> QED
            BY <1>1, <3>1, <3>2
    <2>2. CASE Cloned(c, d)
        BY <1>1, <2>2 DEF Cloned, Origin, Keeps, Opens, Alive, Owns
    <2> QED
        BY <2>1, <2>2
<1>5. \A e \in Ctxs \ {c, d} : Alive(e)' => line'[e] = Origin(cxt'[e])
    BY <1>1 DEF Same, Alive, Owns
<1> QED
    BY <1>3, <1>4, <1>5 DEF Origin

LEMMA IdleLine ==
    ASSUME LineInv, UNCHANGED <<state, cxt, line, happened>>
    PROVE  LineInv'
BY DEF LineInv, Alive, Owns, Ref

LEMMA InitLine == Init => LineInv
<1> SUFFICES ASSUME Init
             PROVE  LineInv
    OBVIOUS
<1>1. PICK c \in Ctxs, on \in BOOLEAN :
         /\ state = [d \in Ctxs |-> IF d = c THEN "live" ELSE "none"]
         /\ cxt = [d \in Ctxs |-> IF d = c THEN [NewCxt(1) EXCEPT !.enabled = on] ELSE NewCxt(0)]
         /\ line = [d \in Ctxs |-> NoParent]
    BY DEF Init
<1> DEFINE x == [NewCxt(1) EXCEPT !.enabled = on]
<1>2. ~x.written /\ x.parent = NoParent
    BY DEF NewCxt
<1> HIDE DEF x
<1>3. cxt[c] = x /\ line[c] = NoParent /\ \A e \in Ctxs : Alive(e) => e = c
    BY <1>1 DEF Alive, Owns, x
<1> QED
    BY <1>2, <1>3 DEF LineInv

LEMMA NextLine ==
    ASSUME BaseInv, BaseInv', LineInv, [Next]_vars
    PROVE  LineInv'
<1>1. CASE \E c \in Ctxs : Step(c)
    BY <1>1, LineStep DEF Step
<1>2. CASE \E c \in Ctxs : \E d \in Ctxs \ {c} : Pair(c, d)
    BY <1>2, LineStep DEF Pair
<1>3. CASE Idle \/ UNCHANGED vars
    BY <1>3, IdleLine DEF Idle, vars
<1> QED
    BY <1>1, <1>2, <1>3, NextTurns

LEMMA LineInvariant == Spec => []LineInv
<1>1. BaseInv /\ BaseInv' /\ LineInv /\ [Next]_vars => LineInv'
    BY NextLine
<1> QED
    BY <1>1, InitLine, BaseInvariant, PTL DEF Spec

-----------------------------------------------------------------------------
(* Files settle in order                                                   *)

SettledAfter(r) ==
    \/ \E f \in disk' \cup lost' : f.ref = r
    \/ \E c \in Ctxs : state'[c] = "parent" /\ Valid(cxt'[c]) /\ cxt'[c].trace.ref = r

(* What a step leaves settled.                                             *)
LEMMA SettledStays ==
    ASSUME BaseInv, NEW c \in Ctxs, NEW d \in Ctxs, Turn(c),
           d = c \/ Forked(c, d) \/ Cloned(c, d),
           \A e \in Ctxs \ {c, d} : Same(e)
    PROVE  /\ disk \subseteq disk' /\ lost \subseteq lost'
           /\ Opens(c) \/ Closes(c) =>
                 ~Valid(cxt[c]) \/ \E f \in disk' \cup lost' : f.ref = Ref(cxt[c])
           /\ \A r : Settled(r) => SettledAfter(r)
<1>1. disk \subseteq disk' /\ lost \subseteq lost'
    BY DEF Turn, Keeps, Opens, Closes, Begins, Leaves
<1>2. ASSUME Opens(c) \/ Closes(c), Valid(cxt[c])
      PROVE  \E f \in disk' \cup lost' : f.ref = Ref(cxt[c])
    <2>1. Fine(cxt[c])
        BY <1>2, FineOf DEF Opens, Closes, Alive
    <2>2. \A last \in BOOLEAN : \E f \in Finished(cxt[c], last) : f.ref = Ref(cxt[c])
        BY <1>2, <2>1, FinishedFacts
    <2> QED
        BY <1>2, <2>2 DEF Opens, Closes
<1>3. ASSUME NEW r, Settled(r)
      PROVE  SettledAfter(r)
    <2>1. CASE \E f \in disk \cup lost : f.ref = r
        BY <1>1, <2>1 DEF SettledAfter
    <2>2. CASE \E e \in Ctxs : state[e] = "parent" /\ Valid(cxt[e]) /\ cxt[e].trace.ref = r
        <3>1. PICK e \in Ctxs : state[e] = "parent" /\ Valid(cxt[e]) /\ cxt[e].trace.ref = r
            BY <2>2
        <3>2. CASE e = c
            <4>1. Opens(c) \/ Closes(c)
                BY <3>1, <3>2 DEF Turn, Keeps, Begins, Leaves
            <4>2. r = Ref(cxt[c])
                BY <3>1, <3>2 DEF BaseInv, CxtInv
            <4> QED
                BY <1>2, <3>1, <3>2, <4>1, <4>2 DEF SettledAfter
        <3>3. CASE e # c
            <4>1. Same(e)
                BY <3>1, <3>3 DEF Forked, Cloned
            <4> QED
                BY <3>1, <4>1 DEF SettledAfter, Same, Valid
        <3> QED
            BY <3>2, <3>3
    <2> QED
        BY <1>3, <2>1, <2>2 DEF Settled
<1> QED
    BY <1>1, <1>2, <1>3

(* What ChainInv says of one context.                                      *)
Chained(c) ==
    /\ Alive(c) => cxt[c].parent = NoParent \/ Settled(cxt[c].parent)
    /\ Alive(c) /\ cxt[c].written /\ (state[c] = "child" \/ ~Valid(cxt[c])) =>
          Settled(Ref(cxt[c]))
    /\ Owns(c) /\ ~Valid(cxt[c]) /\ cxt[c].enabled /\ cxt[c].ordinal > 0 => Continued(c)
    /\ Owns(c) /\ Valid(cxt[c]) => cxt[c].trace.parent = cxt[c].parent

LEMMA ChainedTurn ==
    ASSUME BaseInv, BaseInv', NEW c \in Ctxs, Turn(c), Chained(c),
           \A r : Settled(r) => SettledAfter(r), disk \subseteq disk',
           Opens(c) \/ Closes(c) =>
               ~Valid(cxt[c]) \/ \E f \in disk' \cup lost' : f.ref = Ref(cxt[c]),
           happened' \subseteq {"guards", "evals"}
    PROVE  Chained(c)'
<1>1. /\ Alive(c) => cxt[c].parent = NoParent \/ Settled(cxt[c].parent)
      /\ Alive(c) /\ cxt[c].written /\ (state[c] = "child" \/ ~Valid(cxt[c])) =>
            Settled(Ref(cxt[c]))
      /\ Owns(c) /\ ~Valid(cxt[c]) /\ cxt[c].enabled /\ cxt[c].ordinal > 0 => Continued(c)
      /\ Owns(c) /\ Valid(cxt[c]) => cxt[c].trace.parent = cxt[c].parent
    BY DEF Chained
<1>2. /\ \A r : (\E f \in disk' \cup lost' : f.ref = r) => SettledAfter(r)
      /\ SettledAfter(Ref(cxt'[c])) => Settled(Ref(cxt[c]))'
      /\ SettledAfter(cxt'[c].parent) => Settled(cxt[c].parent)'
    BY DEF Settled, SettledAfter
<1>3. Alive(c) => Fine(cxt[c])
    BY FineOf
<1>4. ASSUME cxt'[c].parent = cxt[c].parent, Ref(cxt'[c]) = Ref(cxt[c]), Continued(c)
      PROVE  Continued(c)'
    BY <1>4 DEF Continued
<1>5. CASE Keeps(c)
    <2>1. /\ Owns(c) /\ Ref(cxt'[c]) = Ref(cxt[c]) /\ cxt'[c].parent = cxt[c].parent
          /\ cxt'[c].written = cxt[c].written /\ (Valid(cxt'[c]) <=> Valid(cxt[c]))
          /\ cxt'[c].ordinal = cxt[c].ordinal /\ cxt'[c].trace.parent = cxt[c].trace.parent
          /\ cxt'[c].enabled => cxt[c].enabled \/ Valid(cxt[c])
          /\ state'[c] # "child"
        BY <1>5 DEF Keeps, Kept, SameStream, Ref, Owns
    <2>2. cxt'[c].ordinal > 0 /\ ~Valid(cxt'[c]) /\ cxt'[c].enabled => Continued(c)'
        BY <1>1, <1>4, <2>1
    <2>3. cxt'[c].parent = NoParent \/ Settled(cxt[c].parent)'
        BY <1>1, <1>2, <2>1 DEF Alive
    <2>4. cxt'[c].written /\ ~Valid(cxt'[c]) => Settled(Ref(cxt[c]))'
        BY <1>1, <1>2, <2>1 DEF Alive
    <2> QED
        BY <1>1, <2>1, <2>2, <2>3, <2>4 DEF Chained
<1>6. CASE Opens(c)
    <2>1. /\ Owns(c) /\ Valid(cxt'[c]) /\ cxt'[c].parent = cxt[c].parent
          /\ cxt'[c].trace.parent = cxt[c].parent /\ state'[c] = "live"
        BY <1>6 DEF Opens, Opened, SameStream
    <2> QED
        BY <1>1, <1>2, <2>1 DEF Chained, Alive
<1>7. CASE Closes(c)
    <2>1. /\ Owns(c) /\ state'[c] \in {"live", "gone"}
          /\ Ref(cxt'[c]) = Ref(cxt[c]) /\ cxt'[c].parent = cxt[c].parent
          /\ cxt'[c].written = cxt[c].written /\ ~Valid(cxt'[c])
          /\ cxt'[c].ordinal = cxt[c].ordinal /\ (cxt'[c].enabled => cxt[c].enabled)
        BY <1>7 DEF Closes, Dropped, SameStream, Ref
    <2>2. ASSUME state'[c] = "live", cxt'[c].enabled, cxt'[c].ordinal > 0
          PROVE  Continued(c)'
        <3>1. CASE Valid(cxt[c])
            <4>1. disk' = disk \cup Finished(cxt[c], FALSE)
                BY <1>7, <2>2 DEF Closes
            <4>2. \E f \in Finished(cxt[c], FALSE) :
                     f.ref = Ref(cxt[c]) /\ ~f.last /\ f.parent = cxt[c].trace.parent
                BY <1>3, <2>1, <3>1, FinishedFacts, ZenonT(60) DEF Alive
            <4> QED
                BY <1>1, <2>1, <3>1, <4>1, <4>2 DEF Continued
        <3>2. CASE ~Valid(cxt[c])
            BY <1>1, <1>4, <2>1, <2>2, <3>2
        <3> QED
            BY <3>1, <3>2
    <2>3. state'[c] = "live" /\ cxt'[c].written => SettledAfter(Ref(cxt'[c]))
        <3>1. CASE Valid(cxt[c])
            BY <1>2, <1>7, <2>1, <3>1
        <3>2. CASE ~Valid(cxt[c])
            BY <1>1, <2>1, <3>2 DEF Alive
        <3> QED
            BY <3>1, <3>2
    <2> QED
        BY <1>1, <1>2, <2>1, <2>2, <2>3 DEF Chained, Alive, Owns
<1>8. CASE Begins(c)
    <2>1. PICK z : Begun(cxt[c], z, nextId) /\ (cxt'[c] = z \/ Opened(z, cxt'[c]))
        BY <1>8 DEF Begins
    <2>2. Origin(cxt[c]) = NoParent \/ Settled(Origin(cxt[c]))
        BY <1>1, <1>8 DEF Begins, Origin, Alive, Owns
    <2>3. /\ cxt'[c].parent = Origin(cxt[c]) /\ state'[c] = "live"
          /\ \/ ~cxt'[c].written /\ ~Valid(cxt'[c]) /\ cxt'[c].ordinal = 0
             \/ Valid(cxt'[c]) /\ cxt'[c].trace.parent = cxt'[c].parent
        BY <1>8, <2>1 DEF Begins, Begun, Opened, SameStream
    <2> QED
        BY <1>2, <2>2, <2>3 DEF Chained
<1>9. CASE Leaves(c)
    BY <1>9 DEF Leaves, Chained, Alive, Owns
<1> QED
    BY <1>5, <1>6, <1>7, <1>8, <1>9 DEF Turn

LEMMA ChainStep ==
    ASSUME BaseInv, BaseInv', ChainInv, NEW c \in Ctxs, NEW d \in Ctxs, Turn(c),
           d = c \/ Forked(c, d) \/ Cloned(c, d),
           \A e \in Ctxs \ {c, d} : Same(e), happened \subseteq happened'
    PROVE  ChainInv'
<1> SUFFICES ASSUME happened' \subseteq {"guards", "evals"}
             PROVE  (\A f \in lost : ~f.last)' /\ \A e \in Ctxs : Chained(e)'
    BY DEF ChainInv, Chained
<1>1. (\A f \in lost : ~f.last) /\ \A e \in Ctxs : Chained(e)
    BY DEF ChainInv, Chained
<1>2. /\ disk \subseteq disk'
      /\ Opens(c) \/ Closes(c) =>
            ~Valid(cxt[c]) \/ \E f \in disk' \cup lost' : f.ref = Ref(cxt[c])
      /\ \A r : Settled(r) => SettledAfter(r)
    BY SettledStays
<1>3. (\A f \in lost : ~f.last)'
    <2>1. Owns(c) => \A f \in Finished(cxt[c], FALSE) : ~f.last
        BY FineOf, FinishedFacts DEF Alive
    <2> QED
        BY <1>1, <2>1 DEF Turn, Keeps, Opens, Closes, Begins, Leaves
<1>4. Chained(c)'
    BY <1>1, <1>2, ChainedTurn
<1>5. ASSUME Forked(c, d), d # c
      PROVE  Chained(d)'
    <2>1. /\ cxt'[d] = cxt'[c] /\ state'[d] = "child" /\ state'[c] = "parent"
        BY <1>5 DEF Forked
    <2>2. /\ cxt'[c].parent = NoParent \/ SettledAfter(cxt'[c].parent)
          /\ cxt'[c].written /\ ~Valid(cxt'[c]) => SettledAfter(Ref(cxt'[c]))
        <3>1. /\ Settled(Ref(cxt[c]))' => SettledAfter(Ref(cxt'[c]))
              /\ Settled(cxt[c].parent)' => SettledAfter(cxt'[c].parent)
            BY DEF Settled, SettledAfter
        <3> QED
            BY <1>4, <2>1, <3>1 DEF Chained, Alive, Owns
    <2>3. Valid(cxt'[c]) => SettledAfter(Ref(cxt'[c]))
        BY <2>1 DEF BaseInv, CxtInv, SettledAfter, Valid, Ref
    <2>4. /\ SettledAfter(Ref(cxt'[d])) => Settled(Ref(cxt[d]))'
          /\ SettledAfter(cxt'[d].parent) => Settled(cxt[d].parent)'
        BY DEF Settled, SettledAfter
    <2> QED
        BY <2>1, <2>2, <2>3, <2>4 DEF Chained, Owns
<1>6. ASSUME Cloned(c, d), d # c
      PROVE  Chained(d)'
    <2>1. /\ cxt'[d].parent = Ref(cxt[c]) /\ ~cxt'[d].written /\ ~Valid(cxt'[d])
          /\ cxt'[d].ordinal = 0 /\ state'[d] = "live" /\ cxt[c].written
          /\ IF Valid(cxt[c]) THEN Opens(c) ELSE Alive(c)
        BY <1>6 DEF Cloned, Keeps, Alive, Owns
    <2>2. SettledAfter(Ref(cxt[c]))
        BY <1>1, <1>2, <2>1 DEF Chained, SettledAfter
    <2>3. /\ SettledAfter(Ref(cxt'[d])) => Settled(Ref(cxt[d]))'
          /\ SettledAfter(cxt'[d].parent) => Settled(cxt[d].parent)'
        BY DEF Settled, SettledAfter
    <2> QED
        BY <2>1, <2>2, <2>3 DEF Chained
<1>7. ASSUME NEW e \in Ctxs \ {c, d}
      PROVE  Chained(e)'
    <2>1. state'[e] = state[e] /\ cxt'[e] = cxt[e]
        BY DEF Same
    <2>2. Continued(e) => Continued(e)'
        BY <1>2, <2>1 DEF Continued
    <2>3. /\ SettledAfter(Ref(cxt'[e])) => Settled(Ref(cxt[e]))'
          /\ SettledAfter(cxt'[e].parent) => Settled(cxt[e].parent)'
        BY DEF Settled, SettledAfter
    <2> QED
        BY <1>1, <1>2, <2>1, <2>2, <2>3 DEF Chained, Alive, Owns
<1> QED
    BY <1>3, <1>4, <1>5, <1>6, <1>7

LEMMA IdleChain ==
    ASSUME ChainInv, UNCHANGED <<state, cxt, disk, lost, happened>>
    PROVE  ChainInv'
BY DEF ChainInv, Alive, Owns, Valid, Ref, Settled, Continued

LEMMA InitChain == Init => ChainInv
<1> SUFFICES ASSUME Init
             PROVE  ChainInv
    OBVIOUS
<1>1. PICK c \in Ctxs, on \in BOOLEAN :
         /\ state = [d \in Ctxs |-> IF d = c THEN "live" ELSE "none"]
         /\ cxt = [d \in Ctxs |-> IF d = c THEN [NewCxt(1) EXCEPT !.enabled = on] ELSE NewCxt(0)]
         /\ lost = {}
    BY DEF Init
<1> DEFINE x == [NewCxt(1) EXCEPT !.enabled = on]
<1>2. ~x.written /\ x.parent = NoParent /\ x.ordinal = 0 /\ ~Valid(x)
    BY DEF NewCxt, Valid
<1> HIDE DEF x
<1>3. cxt[c] = x /\ state[c] = "live" /\ \A e \in Ctxs : Alive(e) => e = c
    BY <1>1 DEF Alive, Owns, x
<1>4. \A e \in Ctxs : Owns(e) => Alive(e)
    BY DEF Alive
<1>5. \A e \in Ctxs : Alive(e) =>
         /\ cxt[e].parent = NoParent /\ ~cxt[e].written /\ cxt[e].ordinal = 0
         /\ ~Valid(cxt[e])
    BY <1>2, <1>3
<1> QED
    BY <1>1, <1>4, <1>5 DEF ChainInv

LEMMA NextChain ==
    ASSUME BaseInv, BaseInv', ChainInv, [Next]_vars
    PROVE  ChainInv'
<1>1. CASE \E c \in Ctxs : Step(c)
    BY <1>1, ChainStep DEF Step
<1>2. CASE \E c \in Ctxs : \E d \in Ctxs \ {c} : Pair(c, d)
    BY <1>2, ChainStep DEF Pair
<1>3. CASE Idle \/ UNCHANGED vars
    BY <1>3, IdleChain DEF Idle, vars
<1> QED
    BY <1>1, <1>2, <1>3, NextTurns

LEMMA ChainInvariant == Spec => []ChainInv
<1>1. BaseInv /\ BaseInv' /\ ChainInv /\ [Next]_vars => ChainInv'
    BY NextChain
<1> QED
    BY <1>1, InitChain, BaseInvariant, PTL DEF Spec

-----------------------------------------------------------------------------
(* The files readers see                                                   *)

View(f, s) == [parent |-> f.parent, records |-> f.records, last |-> f.last, status |-> s]

LEMMA ViewFields ==
    ASSUME NEW f, NEW s
    PROVE  /\ View(f, s).parent = f.parent /\ View(f, s).records = f.records
           /\ View(f, s).last = f.last /\ View(f, s).status = s
BY DEF View

LEMMA ViewEvolves ==
    ASSUME NEW f \in TraceFiles, NEW g \in TraceFiles, NEW s, NEW t, g.parent = f.parent,
           \/ f = g /\ s = t
           \/ s = "open" /\ IsPrefix(f.records, g.records)
           \/ s = "frozen" /\ t # "open" /\ f.records = g.records
    PROVE  Stream!Evolve(View(f, s), View(g, t))
<1>1. f.records \in Seq(Records) /\ g.records \in Seq(Records)
    BY DEF TraceFiles
<1>2. IsPrefix(f.records, f.records)
    BY <1>1, PrefixFacts
<1>3. /\ View(f, s).parent = f.parent /\ View(g, t).parent = g.parent
      /\ View(f, s).records = f.records /\ View(g, t).records = g.records
      /\ View(f, s).status = s /\ View(g, t).status = t
    BY DEF View
<1>4. \A u, v : IsPrefix(u, v) => Stream!IsPrefix(u, v)
    BY DEF IsPrefix, Stream!IsPrefix
<1>5. CASE f = g /\ s = t
    BY <1>2, <1>3, <1>5, <1>4 DEF Stream!Evolve
<1>6. CASE s = "open" /\ IsPrefix(f.records, g.records)
    BY <1>3, <1>6, <1>4 DEF Stream!Evolve
<1>7. CASE s = "frozen" /\ t # "open" /\ f.records = g.records
    BY <1>2, <1>3, <1>7, <1>4 DEF Stream!Evolve
<1> QED
    BY <1>5, <1>6, <1>7

(* The files there are.                                                   *)
FilesOK ==
    /\ \A e \in Ctxs : Alive(e) => Fine(cxt[e])
    /\ Files \subseteq TraceFiles
    /\ \A f \in Files : f \in disk \/ f \in lost \ disk
                       \/ \E e \in Ctxs : Owns(e) /\ f \in Finished(cxt[e], FALSE)
    /\ disk \subseteq Files /\ lost \subseteq Files
    /\ \A e \in Ctxs : Owns(e) => Finished(cxt[e], FALSE) \subseteq Files

LEMMA FilesFacts == BaseInv => FilesOK
<1> SUFFICES ASSUME BaseInv
             PROVE  FilesOK
    OBVIOUS
<1>1. \A e \in Ctxs : Alive(e) => Fine(cxt[e])
    BY FineOf
<1>2. OpenFiles = UNION {Finished(cxt[e], FALSE) : e \in {d \in Ctxs : Owns(d)}}
    BY DEF OpenFiles, Owns
<1>3. \A f : f \in OpenFiles <=> \E e \in Ctxs : Owns(e) /\ f \in Finished(cxt[e], FALSE)
    BY <1>2
<1>4. \A f \in OpenFiles : f \in TraceFiles
    BY <1>1, <1>3, FinishedFacts DEF Alive
<1>5. disk \subseteq TraceFiles /\ lost \subseteq TraceFiles
    BY DEF BaseInv, TypeOK
<1> QED
    BY <1>1, <1>3, <1>4, <1>5 DEF Files, FilesOK

LEMMA StatusFacts ==
    ASSUME BaseInv, OwnersInv, "nothread" \notin happened
    PROVE  /\ \A f \in disk : FileStatus(f) = "finished"
           /\ \A f \in lost \ disk : FileStatus(f) = "lost"
           /\ \A c \in Ctxs : Owns(c) => \A f \in Finished(cxt[c], FALSE) :
                 FileStatus(f) = IF state[c] = "parent" THEN "frozen" ELSE "open"
<1>1. \A f \in disk : FileStatus(f) = "finished"
    BY DEF FileStatus
<1>2. \A f \in lost \ disk : FileStatus(f) = "lost"
    BY DEF FileStatus
<1>3. ASSUME NEW c \in Ctxs, Owns(c), NEW f \in Finished(cxt[c], FALSE)
      PROVE  FileStatus(f) = IF state[c] = "parent" THEN "frozen" ELSE "open"
    <2>1. Fine(cxt[c]) /\ Valid(cxt[c]) /\ f.ref = Ref(cxt[c])
        BY <1>3, FineOf, FinishedFacts DEF Alive
    <2>2. f.ref.id = cxt[c].id /\ f.ref.id # 0
        BY <2>1 DEF Ref, Fine
    <2>3. f \notin disk \cup lost
        BY <1>3, <2>1, <2>2 DEF OwnersInv
    <2>4. ASSUME NEW e \in Ctxs, state[e] = "parent", cxt[e].trace.ref = f.ref
          PROVE  e = c
        <3>1. Valid(cxt[e])
            BY <2>2, <2>4 DEF Valid, NoTrace, NoParent
        <3>2. cxt[e].id = f.ref.id
            <4>1. f.ref = Ref(cxt[e])
                BY <2>4, <3>1 DEF BaseInv, CxtInv
            <4> QED
                BY <4>1 DEF Ref
        <3> QED
            BY <1>3, <2>2, <2>4, <3>2 DEF OwnersInv, Owns
    <2>5. cxt[c].trace.ref = f.ref
        BY <2>1 DEF Fine
    <2> QED
        BY <2>3, <2>4, <2>5 DEF FileStatus
<1> QED
    BY <1>1, <1>2, <1>3

(* How readers see them.                                                   *)
ShownOK ==
    /\ DOMAIN StreamFiles = {f.ref : f \in Files}
    /\ \A f \in disk : StreamFiles[f.ref] = View(f, "finished")
    /\ \A f \in lost \ disk : StreamFiles[f.ref] = View(f, "lost")
    /\ \A e \in Ctxs : Owns(e) => \A f \in Finished(cxt[e], FALSE) :
          StreamFiles[f.ref] = View(f, IF state[e] = "parent" THEN "frozen" ELSE "open")

LEMMA Shown == BaseInv /\ OwnersInv /\ "nothread" \notin happened => ShownOK
<1> SUFFICES ASSUME BaseInv, OwnersInv, "nothread" \notin happened
             PROVE  ShownOK
    OBVIOUS
<1>1. \A f, g \in Files : f.ref = g.ref => f = g
    BY OwnersSuffice DEF OneWriter
<1>2. DOMAIN StreamFiles = {f.ref : f \in Files}
    BY DEF StreamFiles
<1>3. ASSUME NEW f \in Files
      PROVE  StreamFiles[f.ref] = View(f, FileStatus(f))
    <2>1. (CHOOSE g \in Files : g.ref = f.ref) = f
        BY <1>1
    <2>2. StreamFiles[f.ref] = View(CHOOSE g \in Files : g.ref = f.ref,
                                    FileStatus(CHOOSE g \in Files : g.ref = f.ref))
        BY DEF StreamFiles, View
    <2> QED
        BY <2>1, <2>2
<1> QED
    BY <1>2, <1>3, FilesFacts, StatusFacts DEF FilesOK, ShownOK

(* Nothing is written any more to the files that contexts come from.       *)
ParentsOK ==
    \A c \in Ctxs : Alive(c) =>
        \/ cxt[c].parent = NoParent
        \/ /\ cxt[c].parent \in DOMAIN StreamFiles
           /\ StreamFiles[cxt[c].parent].status # "open"

LEMMA ParentsShown ==
    BaseInv /\ OwnersInv /\ ChainInv /\ happened \subseteq {"guards", "evals"} => ParentsOK
<1> SUFFICES ASSUME BaseInv, OwnersInv, ChainInv, happened \subseteq {"guards", "evals"},
                    NEW c \in Ctxs, Alive(c), cxt[c].parent # NoParent
             PROVE  /\ cxt[c].parent \in DOMAIN StreamFiles
                    /\ StreamFiles[cxt[c].parent].status # "open"
    BY DEF ParentsOK
<1>1. /\ DOMAIN StreamFiles = {f.ref : f \in Files}
      /\ \A f \in disk : StreamFiles[f.ref] = View(f, "finished")
      /\ \A f \in lost \ disk : StreamFiles[f.ref] = View(f, "lost")
      /\ \A e \in Ctxs : Owns(e) => \A f \in Finished(cxt[e], FALSE) :
            StreamFiles[f.ref] = View(f, IF state[e] = "parent" THEN "frozen" ELSE "open")
    BY Shown DEF ShownOK
<1>2. /\ disk \subseteq Files /\ lost \subseteq Files
      /\ \A e \in Ctxs : Owns(e) => Finished(cxt[e], FALSE) \subseteq Files
    BY FilesFacts DEF FilesOK
<1>3. Settled(cxt[c].parent)
    BY DEF ChainInv
<1>4. CASE \E f \in disk \cup lost : f.ref = cxt[c].parent
    <2>1. PICK f \in disk \cup lost : f.ref = cxt[c].parent
        BY <1>4
    <2>2. \E s \in {"finished", "lost"} : StreamFiles[f.ref] = View(f, s)
        BY <1>1
    <2> QED
        BY <1>1, <1>2, <2>1, <2>2, ViewFields
<1>5. CASE \E e \in Ctxs :
              state[e] = "parent" /\ Valid(cxt[e]) /\ cxt[e].trace.ref = cxt[c].parent
    <2>1. PICK e \in Ctxs :
             state[e] = "parent" /\ Valid(cxt[e]) /\ cxt[e].trace.ref = cxt[c].parent
        BY <1>5
    <2>2. Owns(e) /\ Fine(cxt[e])
        BY <2>1, FineOf DEF Owns, Alive
    <2>3. cxt[c].parent = Ref(cxt[e])
        BY <2>1, <2>2 DEF Fine
    <2>4. PICK f \in Finished(cxt[e], FALSE) : f.ref = Ref(cxt[e])
        BY <2>1, <2>2, FinishedFacts
    <2>5. StreamFiles[f.ref] = View(f, "frozen") /\ f \in Files
        BY <1>1, <1>2, <2>1, <2>2, <2>4
    <2> QED
        BY <1>1, <2>3, <2>4, <2>5, ViewFields
<1> QED
    BY <1>3, <1>4, <1>5 DEF Settled

LEMMA StreamStep ==
    ASSUME OwnersInv, ChainInv, ChainInv', FilesOK, FilesOK', ShownOK, ShownOK', ParentsOK',
           NEW c \in Ctxs, NEW d \in Ctxs, Turn(c), d = c \/ Forked(c, d) \/ Cloned(c, d),
           \A e \in Ctxs \ {c, d} : Same(e), happened \subseteq happened',
           happened' \subseteq {"guards", "evals"}
    PROVE  Stream!Next
<1>1. /\ DOMAIN StreamFiles = {f.ref : f \in Files}
      /\ \A f \in disk : StreamFiles[f.ref] = View(f, "finished")
      /\ \A f \in lost \ disk : StreamFiles[f.ref] = View(f, "lost")
      /\ \A e \in Ctxs : Owns(e) => \A f \in Finished(cxt[e], FALSE) :
            StreamFiles[f.ref] = View(f, IF state[e] = "parent" THEN "frozen" ELSE "open")
    BY DEF ShownOK
<1>2. /\ DOMAIN StreamFiles' = {f.ref : f \in Files'}
      /\ \A f \in disk' : StreamFiles'[f.ref] = View(f, "finished")
      /\ \A f \in lost' \ disk' : StreamFiles'[f.ref] = View(f, "lost")
      /\ \A e \in Ctxs : Owns(e)' => \A f \in Finished(cxt'[e], FALSE) :
            StreamFiles'[f.ref] = View(f, IF state'[e] = "parent" THEN "frozen" ELSE "open")
    BY DEF ShownOK
<1>3. /\ \A e \in Ctxs : Alive(e) => Fine(cxt[e])
      /\ Files \subseteq TraceFiles
      /\ \A f \in Files : f \in disk \/ f \in lost \ disk
                         \/ \E e \in Ctxs : Owns(e) /\ f \in Finished(cxt[e], FALSE)
    BY DEF FilesOK
<1>4. /\ \A e \in Ctxs : Alive(e)' => Fine(cxt'[e])
      /\ Files' \subseteq TraceFiles
      /\ \A f \in Files' : f \in disk' \/ f \in lost' \ disk'
                         \/ \E e \in Ctxs : Owns(e)' /\ f \in Finished(cxt'[e], FALSE)
      /\ disk' \subseteq Files' /\ lost' \subseteq Files'
      /\ \A e \in Ctxs : Owns(e)' => Finished(cxt'[e], FALSE) \subseteq Files'
    BY DEF FilesOK
<1>5. /\ disk \subseteq disk' /\ lost \subseteq lost'
      /\ \A f \in disk' : f \in disk \/ (Owns(c) /\ Valid(cxt[c]) /\ f.ref = Ref(cxt[c]))
      /\ \A f \in lost' : f \in lost \/ (Owns(c) /\ Valid(cxt[c]) /\ f.ref = Ref(cxt[c]))
    <2>1. \A last \in BOOLEAN : Owns(c) => \A f \in Finished(cxt[c], last) :
             Valid(cxt[c]) /\ f.ref = Ref(cxt[c])
        BY <1>3, FinishedFacts DEF Alive
    <2> QED
        BY <2>1 DEF Turn, Keeps, Opens, Closes, Begins, Leaves
<1>6. /\ \A f \in disk \cup lost : Owns(c) /\ Valid(cxt[c]) => f.ref # Ref(cxt[c])
      /\ Owns(c) /\ Valid(cxt[c]) => cxt[c].trace.parent = cxt[c].parent
      /\ Owns(c) /\ ~Valid(cxt[c]) /\ cxt[c].enabled /\ cxt[c].ordinal > 0 => Continued(c)
      /\ (\A f \in lost : ~f.last)'
    <2>1. \A f \in disk \cup lost : Owns(c) /\ Valid(cxt[c]) => f.ref # Ref(cxt[c])
        <3> SUFFICES ASSUME NEW f \in disk \cup lost, Owns(c), Valid(cxt[c]), f.ref = Ref(cxt[c])
                     PROVE  FALSE
            OBVIOUS
        <3>1. f.ref.id = cxt[c].id
            BY DEF Ref
        <3> QED
            BY <3>1 DEF OwnersInv
    <2> QED
        BY <2>1 DEF ChainInv
<1>7. ASSUME NEW f \in Files
      PROVE  /\ f.ref \in DOMAIN StreamFiles'
             /\ Stream!Evolve(StreamFiles[f.ref], StreamFiles'[f.ref])
    <2>1. CASE f \in disk
        <3>1. StreamFiles[f.ref] = View(f, "finished") /\ StreamFiles'[f.ref] = View(f, "finished")
            BY <1>1, <1>2, <1>5, <2>1
        <3>2. f \in Files'
            BY <1>4, <1>5, <2>1
        <3> QED
            BY <1>2, <1>3, <3>1, <3>2, ViewEvolves
    <2>2. CASE f \in lost \ disk
        <3>1. f \in lost' \ disk'
            BY <1>5, <1>6, <2>2
        <3>2. StreamFiles[f.ref] = View(f, "lost") /\ StreamFiles'[f.ref] = View(f, "lost")
            BY <1>1, <1>2, <2>2, <3>1
        <3>3. f \in Files'
            BY <1>4, <3>1
        <3> QED
            BY <1>2, <1>3, <3>2, <3>3, ViewEvolves
    <2>3. ASSUME NEW e \in Ctxs, Owns(e), f \in Finished(cxt[e], FALSE)
          PROVE  /\ f.ref \in DOMAIN StreamFiles'
                 /\ Stream!Evolve(StreamFiles[f.ref], StreamFiles'[f.ref])
        <3>1. /\ StreamFiles[f.ref] = View(f, IF state[e] = "parent" THEN "frozen" ELSE "open")
              /\ f \in TraceFiles /\ f.records \in Seq(Records)
            BY <1>1, <1>3, <2>3 DEF TraceFiles
        <3>2. /\ Valid(cxt[e]) /\ f.ref = Ref(cxt[e]) /\ f.parent = cxt[e].trace.parent
              /\ f.records = cxt[e].trace.records
            BY <1>3, <2>3, FinishedFacts DEF Alive
        <3>3. CASE e \notin {c, d}
            <4>1. Owns(e)' /\ state'[e] = state[e] /\ f \in Finished(cxt'[e], FALSE)
                BY <2>3, <3>3 DEF Same, Owns
            <4>2. \E s : StreamFiles[f.ref] = View(f, s) /\ StreamFiles'[f.ref] = View(f, s)
                BY <1>2, <3>1, <4>1
            <4>3. f \in Files'
                BY <1>4, <4>1
            <4> QED
                BY <1>2, <3>1, <4>2, <4>3, ViewEvolves
        <3>4. CASE e = c /\ Keeps(c)
            <4>1. /\ state[c] = "live" /\ Owns(c)' /\ Valid(cxt'[c]) /\ Ref(cxt'[c]) = Ref(cxt[c])
                  /\ cxt'[c].trace.parent = cxt[c].trace.parent
                  /\ IsPrefix(cxt[c].trace.records, cxt'[c].trace.records)
                BY <3>2, <3>4 DEF Keeps, Kept, SameStream, Owns, Ref
            <4>2. Alive(c)'
                BY <4>1 DEF Alive
            <4>3. Fine(cxt'[c])
                BY <1>4, <4>2
            <4>4. /\ \A g \in Finished(cxt'[c], FALSE) :
                        /\ g.ref = Ref(cxt'[c]) /\ g.parent = cxt'[c].trace.parent
                        /\ g.records = cxt'[c].trace.records
                  /\ \E g \in Finished(cxt'[c], FALSE) : g.ref = Ref(cxt'[c])
                BY <4>1, <4>3, FinishedFacts
            <4>5. PICK g \in Finished(cxt'[c], FALSE) :
                     /\ g.ref = f.ref /\ g.parent = f.parent /\ IsPrefix(f.records, g.records)
                BY <3>2, <3>4, <4>1, <4>4
            <4>6. g \in Files' /\ g \in TraceFiles
                BY <1>4, <4>1
            <4>7. \E s : StreamFiles'[f.ref] = View(g, s)
                BY ZenonT(60), <1>2, <4>1, <4>5
            <4>8. StreamFiles[f.ref] = View(f, "open")
                BY <3>1, <3>4, <4>1
            <4> QED
                BY <1>2, <3>1, <4>5, <4>6, <4>7, <4>8, ViewEvolves
        <3>5. CASE e = c /\ (Opens(c) \/ Closes(c))
            <4>1. \A last \in BOOLEAN : \E g \in Finished(cxt[c], last) :
                     g.ref = f.ref /\ g.parent = f.parent /\ g.records = f.records
                BY <1>3, <2>3, <3>2, <3>5, FinishedFacts DEF Alive
            <4>2. PICK g \in disk' \cup lost' :
                     g.ref = f.ref /\ g.parent = f.parent /\ g.records = f.records
                BY <3>5, <4>1 DEF Opens, Closes
            <4>3. g \in Files' /\ g \in TraceFiles
                BY <1>4
            <4>4. \E s \in {"finished", "lost"} : StreamFiles'[f.ref] = View(g, s)
                BY <1>2, <4>2
            <4>5. IsPrefix(f.records, g.records)
                BY <3>1, <4>2, PrefixFacts
            <4> QED
                BY <1>2, <3>1, <4>2, <4>3, <4>4, <4>5, ViewEvolves
        <3>6. CASE e = c /\ (Begins(c) \/ Leaves(c))
            BY <2>3, <3>2, <3>6 DEF Begins, Leaves, Owns
        <3>7. CASE e = d /\ d # c
            BY <2>3, <3>7 DEF Forked, Cloned, Owns
        <3> QED
            BY <3>3, <3>4, <3>5, <3>6, <3>7 DEF Turn
    <2> QED
        BY <1>3, <2>1, <2>2, <2>3
<1>8. ASSUME NEW g \in Files', g.ref \notin DOMAIN StreamFiles
      PROVE  g.ref.ordinal >= 1 /\ Stream!Begin(StreamFiles', g.ref, StreamFiles'[g.ref])
    <2>1. g \notin disk' \cup lost'
        <3>1. Owns(c) /\ Valid(cxt[c]) => \E f \in Files : f.ref = Ref(cxt[c])
            BY <1>3, FinishedFacts DEF Alive, FilesOK
        <3>2. \A f \in disk \cup lost : f.ref \in DOMAIN StreamFiles
            BY <1>1 DEF FilesOK
        <3> QED
            BY <1>1, <1>5, <1>8, <3>1, <3>2
    <2>2. PICK e \in Ctxs : Owns(e)' /\ g \in Finished(cxt'[e], FALSE)
        BY <1>4, <2>1
    <2>3. Alive(e)' /\ Fine(cxt'[e])
        BY <1>4, <2>2 DEF Alive
    <2>4. /\ Valid(cxt'[e]) /\ g.ref = Ref(cxt'[e]) /\ g.parent = cxt'[e].trace.parent
        BY <2>2, <2>3, FinishedFacts
    <2>5. ASSUME NEW x \in Ctxs, Owns(x), Valid(cxt[x])
          PROVE  Ref(cxt[x]) \in DOMAIN StreamFiles
        <3>1. \E f \in Finished(cxt[x], FALSE) : f.ref = Ref(cxt[x])
            BY <1>3, <2>5, FinishedFacts DEF Alive
        <3> QED
            BY <1>1, <2>5, <3>1 DEF FilesOK
    <2>6. e = c
        <3>1. e \notin {c, d} => Owns(e) /\ cxt'[e] = cxt[e]
            BY <2>2 DEF Same, Owns
        <3>2. e \notin {c, d} => FALSE
            BY <1>8, <2>4, <2>5, <3>1
        <3>3. e = d /\ d # c => FALSE
            BY <2>2, <2>4 DEF Forked, Cloned, Owns
        <3> QED
            BY <3>2, <3>3
    <2>7. ~Keeps(c)
        <3>1. Keeps(c) => Owns(c) /\ Valid(cxt[c]) /\ Ref(cxt'[c]) = Ref(cxt[c])
            BY <2>4, <2>6 DEF Keeps, Kept, SameStream, Owns, Ref
        <3> QED
            BY <1>8, <2>4, <2>5, <2>6, <3>1
    <2>8. /\ g.ref.ordinal = cxt'[c].ordinal /\ g.ref \in Refs
          /\ [g.ref EXCEPT !.ordinal = @ - 1] = [id |-> cxt'[c].id, ordinal |-> cxt'[c].ordinal - 1]
        BY <1>4, <2>4, <2>6 DEF Ref, TraceFiles
    <2>9. StreamFiles'[g.ref].parent = g.parent /\ g.parent = cxt'[c].parent
        <3>1. \E s : StreamFiles'[g.ref] = View(g, s)
            BY <1>2, <2>2
        <3>2. cxt'[c].trace.parent = cxt'[c].parent
            BY <2>2, <2>4, <2>6 DEF ChainInv, Valid
        <3> QED
            BY <2>4, <2>6, <3>1, <3>2, ViewFields
    <2>10. cxt'[c].parent # NoParent =>
              /\ cxt'[c].parent \in DOMAIN StreamFiles'
              /\ StreamFiles'[cxt'[c].parent].status # "open"
        BY <2>3, <2>6 DEF ParentsOK
    <2>11. CASE Opens(c)
        <3>1. /\ Owns(c) /\ Opened(cxt[c], cxt'[c]) /\ (Valid(cxt[c]) \/ cxt[c].enabled)
              /\ disk' = disk \cup Finished(cxt[c], FALSE)
            BY <2>11 DEF Opens
        <3>2. /\ cxt'[c].id = cxt[c].id /\ cxt'[c].parent = cxt[c].parent
              /\ cxt'[c].ordinal = cxt[c].ordinal + 1 /\ cxt[c].ordinal \in Nat
            BY <1>3, <3>1 DEF Opened, SameStream, Alive, Fine, Cxts
        <3>3. ASSUME cxt[c].ordinal > 0
              PROVE  \E f \in disk' : f.ref = Ref(cxt[c]) /\ ~f.last /\ f.parent = cxt[c].parent
            <4>1. CASE Valid(cxt[c])
                <5>1. \E f \in Finished(cxt[c], FALSE) :
                         f.ref = Ref(cxt[c]) /\ ~f.last /\ f.parent = cxt[c].trace.parent
                    BY <1>3, <3>1, <4>1, FinishedFacts DEF Alive
                <5> QED
                    BY <1>6, <3>1, <4>1, <5>1
            <4>2. CASE ~Valid(cxt[c])
                BY <1>5, <1>6, <3>1, <3>3, <4>2 DEF Continued
            <4> QED
                BY <4>1, <4>2
        <3>4. ASSUME cxt[c].ordinal > 0
              PROVE  /\ Ref(cxt[c]) \in DOMAIN StreamFiles'
                     /\ StreamFiles'[Ref(cxt[c])].status = "finished"
                     /\ ~StreamFiles'[Ref(cxt[c])].last
                     /\ StreamFiles'[Ref(cxt[c])].parent = cxt[c].parent
            BY <1>2, <1>4, <3>3, <3>4, ViewFields
        <3>5. [g.ref EXCEPT !.ordinal = @ - 1] = Ref(cxt[c])
            BY <2>8, <3>2 DEF Ref
        <3> QED
            BY <2>8, <2>9, <2>10, <3>2, <3>4, <3>5 DEF Stream!Begin
    <2>12. CASE Begins(c)
        <3>1. cxt'[c].ordinal = 1
            BY <2>4, <2>6, <2>12 DEF Begins, Begun, Opened, Failed
        <3> QED
            BY <2>8, <2>9, <2>10, <3>1 DEF Stream!Begin
    <2>13. CASE Closes(c) \/ Leaves(c)
        BY <2>4, <2>6, <2>13 DEF Closes, Leaves, Dropped
    <2> QED
        BY <2>7, <2>11, <2>12, <2>13 DEF Turn
<1>9. ASSUME NEW g \in Files'
      PROVE  StreamFiles'[g.ref].last => StreamFiles'[g.ref].status = "finished"
    <2>1. CASE g \in disk'
        BY <1>2, <2>1, ViewFields
    <2>2. CASE g \in lost' \ disk'
        <3>1. ~g.last /\ StreamFiles'[g.ref] = View(g, "lost")
            BY <1>2, <1>6, <2>2
        <3> QED
            BY <3>1, ViewFields
    <2>3. ASSUME NEW e \in Ctxs, Owns(e)', g \in Finished(cxt'[e], FALSE)
          PROVE  ~StreamFiles'[g.ref].last
        <3>1. ~g.last /\ \E s : StreamFiles'[g.ref] = View(g, s)
            BY <1>2, <2>3 DEF Finished
        <3> QED
            BY <3>1, ViewFields
    <2> QED
        BY <1>4, <2>1, <2>2, <2>3
<1> QED
    BY <1>1, <1>2, <1>7, <1>8, <1>9 DEF Stream!Next, Stream!Grow

LEMMA NextStream ==
    ASSUME BaseInv, BaseInv', OwnersInv, OwnersInv', ChainInv, ChainInv', FilesOK, FilesOK',
           "nothread" \notin happened => ShownOK, ("nothread" \notin happened => ShownOK)',
           (happened \subseteq {"guards", "evals"} => ParentsOK)', [Next]_vars
    PROVE  [happened' \subseteq {"guards", "evals"} => Stream!Next]_StreamFiles
<1> SUFFICES ASSUME happened' \subseteq {"guards", "evals"}, StreamFiles' # StreamFiles
             PROVE  Stream!Next
    OBVIOUS
<1>1. ASSUME happened \subseteq happened'
      PROVE  ShownOK /\ ShownOK' /\ ParentsOK'
    BY <1>1
<1>2. CASE \E c \in Ctxs : Step(c)
    BY <1>1, <1>2, StreamStep DEF Step
<1>3. CASE \E c \in Ctxs : \E d \in Ctxs \ {c} : Pair(c, d)
    BY <1>1, <1>3, StreamStep DEF Pair
<1>4. CASE Idle \/ UNCHANGED vars
    <2>1. UNCHANGED <<state, cxt, disk, lost>>
        BY <1>4 DEF Idle, vars
    <2> QED
        BY <2>1 DEF StreamFiles, Files, OpenFiles, FileStatus
<1> QED
    BY <1>2, <1>3, <1>4, NextTurns

LEMMA InitStream == Init => Stream!Init
<1> SUFFICES ASSUME Init
             PROVE  StreamFiles = <<>>
    BY DEF Stream!Init
<1>1. disk = {} /\ lost = {} /\ \A c \in Ctxs : Finished(cxt[c], FALSE) = {}
    <2>1. PICK c \in Ctxs, on \in BOOLEAN :
             cxt = [d \in Ctxs |-> IF d = c THEN [NewCxt(1) EXCEPT !.enabled = on] ELSE NewCxt(0)]
        BY DEF Init
    <2>2. /\ ~Valid(NewCxt(0)) /\ ~Valid([NewCxt(1) EXCEPT !.enabled = on])
        BY DEF NewCxt, Valid
    <2> QED
        BY <2>1, <2>2 DEF Init, Finished
<1>2. Files = {}
    BY <1>1 DEF Files, OpenFiles
<1> QED
    BY <1>2 DEF StreamFiles

-----------------------------------------------------------------------------
(* What readers make of streams                                            *)

ReaderStates == [open : [Sections -> Nat], dead : BOOLEAN]

LEMMA LeastExists ==
    ASSUME NEW T \in SUBSET Nat, T # {}
    PROVE  \E m \in T : \A i \in T : m <= i
<1>1. PICK m \in T : \A i \in T : <<i, m>> \notin OpToRel(<, Nat)
    BY NatLessThanWellFounded, WFMin, Zenon
<1>2. \A i \in T : ~(i < m)
    BY <1>1 DEF OpToRel
<1> QED
    BY <1>2

(* Two runs that take the same steps.                                      *)
Agree(g, h, k) == \A n \in 0 .. k : g[n] = h[n]
StepAlike(g, h, k) == \A n \in 1 .. k : g[n - 1] = h[n - 1] => g[n] = h[n]

LEMMA RunsAgree ==
    ASSUME NEW k \in Nat, NEW g, NEW h, g[0] = h[0], StepAlike(g, h, k)
    PROVE  Agree(g, h, k)
<1> USE DEF Agree, StepAlike
<1> DEFINE T == {n \in 0 .. k : g[n] # h[n]}
<1> SUFFICES ASSUME T # {}
             PROVE  FALSE
    OBVIOUS
<1>1. T \in SUBSET Nat
    OBVIOUS
<1>2. PICK m \in T : \A i \in T : m <= i
    BY <1>1, LeastExists
<1> HIDE DEF T
<1>3. m \in 0 .. k /\ g[m] # h[m]
    BY DEF T
<1>4. m # 0
    BY <1>3
<1>5. m - 1 \in 0 .. k /\ m \in 1 .. k /\ ~(m <= m - 1)
    BY <1>3, <1>4
<1>6. g[m - 1] = h[m - 1]
    BY <1>2, <1>5 DEF T
<1> QED
    BY <1>3, <1>5, <1>6

(* A run of k steps, each one as G says.                                   *)
Runs(S, k, st, G) ==
    {g \in [0 .. k -> S] : g[0] = st /\ \A n \in 1 .. k : g[n] = G[<<g[n - 1], n>>]}

LEMMA RunExists ==
    ASSUME NEW S, NEW k \in Nat, NEW st \in S, NEW G \in [S \X (1 .. k) -> S]
    PROVE  Runs(S, k, st, G) # {}
<1> DEFINE Run(g, j) ==
               g \in [0 .. j -> S] /\ g[0] = st /\ \A n \in 1 .. j : g[n] = G[<<g[n - 1], n>>]
           T == {j \in 0 .. k : ~\E g : Run(g, j)}
<1>1. ASSUME T # {}
      PROVE  FALSE
    <2>1. T \in SUBSET Nat
        OBVIOUS
    <2>2. PICK m \in T : \A i \in T : m <= i
        BY <1>1, <2>1, LeastExists
    <2>3. m \in 0 .. k /\ ~\E g : Run(g, m)
        OBVIOUS
    <2>4. m # 0
        <3>1. Run([n \in 0 .. 0 |-> st], 0)
            OBVIOUS
        <3> QED
            BY <2>3, <3>1
    <2>5. m - 1 \in 0 .. k /\ m \in 1 .. k /\ ~(m <= m - 1)
        BY <2>3, <2>4
    <2>6. PICK g : Run(g, m - 1)
        BY <2>2, <2>5
    <2> DEFINE h == [n \in 0 .. m |-> IF n = m THEN G[<<g[m - 1], m>>] ELSE g[n]]
    <2>7. g[m - 1] \in S
        BY <2>5, <2>6
    <2>8. G[<<g[m - 1], m>>] \in S
        BY <2>5, <2>7
    <2>9. h \in [0 .. m -> S] /\ h[0] = st
        BY <2>4, <2>5, <2>6, <2>8
    <2>10. ASSUME NEW n \in 1 .. m
           PROVE  h[n] = G[<<h[n - 1], n>>]
        <3>1. n - 1 \in 0 .. m - 1 /\ n - 1 # m
            BY <2>5
        <3>2. h[n - 1] = g[n - 1]
            BY <2>5, <3>1
        <3>3. CASE n = m
            <4>1. h[m] = G[<<g[m - 1], m>>]
                BY <2>5
            <4> QED
                BY <3>2, <3>3, <4>1
        <3>4. CASE n # m
            <4>1. n \in 1 .. m - 1 /\ n \in 0 .. m
                BY <2>5, <3>4
            <4> QED
                BY <2>6, <3>2, <3>4, <4>1
        <3> QED
            BY <3>3, <3>4
    <2> HIDE DEF h
    <2> QED
        BY <2>3, <2>9, <2>10
<1> HIDE DEF Run
<1>2. k \in 0 .. k
    OBVIOUS
<1>3. \E g : Run(g, k)
    BY <1>1, <1>2
<1> QED
    BY <1>3 DEF Run, Runs

LEMMA RecordStates ==
    ASSUME NEW st \in ReaderStates, NEW rec \in Records
    PROVE  ReadRecord(st, rec) \in ReaderStates
<1>1. rec = <<"eval">> \/ (rec[1] \in {"start", "end"} /\ rec[2] \in Sections)
    BY DEF Records
<1>2. st.open \in [Sections -> Nat]
    BY DEF ReaderStates
<1>3. CASE rec = <<"eval">>
    BY <1>3 DEF ReadRecord
<1>4. CASE rec[1] = "start" /\ rec[2] \in Sections
    BY <1>2, <1>4 DEF ReadRecord, ReaderStates
<1>5. CASE rec[1] = "end" /\ rec[2] \in Sections
    <2>1. ReadRecord(st, rec) = IF st.open[rec[2]] = 0 THEN [st EXCEPT !.dead = TRUE]
                                ELSE [st EXCEPT !.open[rec[2]] = st.open[rec[2]] - 1]
        BY <1>5 DEF ReadRecord
    <2>2. st.open[rec[2]] # 0 => st.open[rec[2]] - 1 \in Nat
        BY <1>2, <1>5
    <2>3. CASE st.open[rec[2]] = 0
        BY <2>1, <2>3 DEF ReaderStates
    <2>4. CASE st.open[rec[2]] # 0
        <3>1. [st.open EXCEPT ![rec[2]] = st.open[rec[2]] - 1] \in [Sections -> Nat]
            BY <1>2, <1>5, <2>2, <2>4
        <3> QED
            BY <2>1, <2>4, <3>1 DEF ReaderStates
    <2> QED
        BY <2>3, <2>4
<1> QED
    BY <1>1, <1>3, <1>4, <1>5

(* Reading records one after the other.                                    *)
LEMMA ReadRecordsRun ==
    ASSUME NEW st \in ReaderStates, NEW recs \in Seq(Records)
    PROVE  \E g \in [0 .. Len(recs) -> ReaderStates] :
              /\ g[0] = st /\ g[Len(recs)] = ReadRecords(st, recs)
              /\ \A n \in 1 .. Len(recs) : g[n] = ReadRecord(g[n - 1], recs[n])
<1> DEFINE k == Len(recs)
           G == [p \in ReaderStates \X (1 .. k) |-> ReadRecord(p[1], recs[p[2]])]
           Body(g) == [n \in 0 .. k |-> IF n = 0 THEN st ELSE ReadRecord(g[n - 1], recs[n])]
<1>1. k \in Nat /\ G \in [ReaderStates \X (1 .. k) -> ReaderStates]
    <2>1. ASSUME NEW p \in ReaderStates \X (1 .. k)
          PROVE  ReadRecord(p[1], recs[p[2]]) \in ReaderStates
        BY RecordStates
    <2> QED
        BY <2>1
<1>2. \A s \in ReaderStates, n \in 1 .. k : G[<<s, n>>] = ReadRecord(s, recs[n])
    OBVIOUS
<1>3. ReadRecords(st, recs) = (CHOOSE h : h = Body(h))[k]
    BY DEF ReadRecords
<1> HIDE DEF G, k
<1>4. Runs(ReaderStates, k, st, G) # {}
    BY <1>1, RunExists
<1>5. PICK g \in [0 .. k -> ReaderStates] :
         g[0] = st /\ \A n \in 1 .. k : g[n] = G[<<g[n - 1], n>>]
    BY <1>4 DEF Runs
<1>6. \A n \in 1 .. k : g[n] = ReadRecord(g[n - 1], recs[n])
    <2> TAKE n \in 1 .. k
    <2>1. g[n - 1] \in ReaderStates
        BY <1>1, <1>5
    <2> QED
        BY <1>2, <1>5, <2>1
<1>7. g = Body(g)
    BY <1>1, <1>5, <1>6
<1>8. PICK h : h = Body(h) /\ ReadRecords(st, recs) = h[k]
    BY <1>7, <1>3
<1>9. h[0] = st /\ \A n \in 1 .. k : h[n] = ReadRecord(h[n - 1], recs[n])
    BY <1>1, <1>8
<1>10. h[0] = g[0] /\ StepAlike(h, g, k)
    BY <1>5, <1>6, <1>9 DEF StepAlike
<1>11. Agree(h, g, k)
    BY <1>1, <1>10, RunsAgree
<1>12. h[k] = g[k]
    BY <1>1, <1>11 DEF Agree
<1> QED
    BY <1>5, <1>6, <1>8, <1>12 DEF k

(* h has the states after each of the records.                             *)
Reads(h, st, recs) ==
    h[0] = st /\ \A n \in 1 .. Len(recs) : h[n] = ReadRecord(h[n - 1], recs[n])

LEMMA ReadRecordsIs ==
    ASSUME NEW st \in ReaderStates, NEW recs \in Seq(Records), NEW h, Reads(h, st, recs)
    PROVE  h[Len(recs)] = ReadRecords(st, recs) /\ ReadRecords(st, recs) \in ReaderStates
<1> DEFINE k == Len(recs)
<1>1. PICK g \in [0 .. k -> ReaderStates] :
         /\ g[0] = st /\ g[k] = ReadRecords(st, recs)
         /\ \A n \in 1 .. k : g[n] = ReadRecord(g[n - 1], recs[n])
    BY ReadRecordsRun
<1>2. k \in Nat /\ k \in 0 .. k
    OBVIOUS
<1>3. h[0] = g[0] /\ StepAlike(h, g, k)
    BY <1>1 DEF StepAlike, Reads
<1> HIDE DEF k
<1>4. Agree(h, g, k)
    BY <1>1, <1>2, <1>3, RunsAgree
<1>5. h[k] = g[k] /\ g[k] \in ReaderStates
    BY <1>1, <1>2, <1>4 DEF Agree
<1> QED
    BY <1>1, <1>5 DEF k

LEMMA ReadRecordsType ==
    ASSUME NEW st \in ReaderStates, NEW recs \in Seq(Records)
    PROVE  ReadRecords(st, recs) \in ReaderStates
<1>1. Len(recs) \in 0 .. Len(recs)
    OBVIOUS
<1> QED
    BY <1>1, ReadRecordsRun

LEMMA ReadNone ==
    ASSUME NEW st \in ReaderStates
    PROVE  ReadRecords(st, <<>>) = st
<1> DEFINE h == [n \in 0 .. 0 |-> st]
<1>1. <<>> \in Seq(Records) /\ Len(<<>>) = 0 /\ h[0] = st
    OBVIOUS
<1>2. Reads(h, st, <<>>)
    BY DEF Reads
<1> HIDE DEF h
<1> QED
    BY <1>1, <1>2, ReadRecordsIs

LEMMA ReadOne ==
    ASSUME NEW st \in ReaderStates, NEW rec \in Records
    PROVE  ReadRecords(st, <<rec>>) = ReadRecord(st, rec)
<1> DEFINE h == [n \in 0 .. 1 |-> IF n = 0 THEN st ELSE ReadRecord(st, rec)]
<1>1. <<rec>> \in Seq(Records) /\ Len(<<rec>>) = 1 /\ <<rec>>[1] = rec
    OBVIOUS
<1>2. h[0] = st /\ h[1] = ReadRecord(st, rec)
    OBVIOUS
<1> HIDE DEF h
<1>3. Reads(h, st, <<rec>>)
    BY <1>1, <1>2 DEF Reads
<1> QED
    BY <1>1, <1>2, <1>3, ReadRecordsIs

LEMMA ReadTwice ==
    ASSUME NEW st \in ReaderStates, NEW a \in Seq(Records), NEW b \in Seq(Records)
    PROVE  ReadRecords(st, a \o b) = ReadRecords(ReadRecords(st, a), b)
<1> DEFINE i == Len(a)
           k == Len(b)
<1>1. PICK g \in [0 .. i -> ReaderStates] :
         /\ g[0] = st /\ g[i] = ReadRecords(st, a)
         /\ \A n \in 1 .. i : g[n] = ReadRecord(g[n - 1], a[n])
    BY ReadRecordsRun
<1>2. PICK h \in [0 .. k -> ReaderStates] :
         /\ h[0] = ReadRecords(st, a) /\ h[k] = ReadRecords(ReadRecords(st, a), b)
         /\ \A n \in 1 .. k : h[n] = ReadRecord(h[n - 1], b[n])
    BY ReadRecordsRun, ReadRecordsType
<1>3. /\ a \o b \in Seq(Records) /\ Len(a \o b) = i + k /\ i \in Nat /\ k \in Nat
      /\ \A n \in 1 .. i : (a \o b)[n] = a[n]
      /\ \A n \in i + 1 .. i + k : (a \o b)[n] = b[n - i]
    OBVIOUS
<1> DEFINE w == [n \in 0 .. i + k |-> IF n <= i THEN g[n] ELSE h[n - i]]
<1> HIDE DEF i, k
<1>4. w[0] = st /\ w[i + k] = h[k]
    <2>1. PICK j : j = i + k
        OBVIOUS
    <2>2. /\ 0 \in 0 .. i + k /\ j \in 0 .. i + k /\ 0 <= i /\ j - i = k
          /\ j <= i => k = 0 /\ j = i
        BY <1>3, <2>1
    <2>3. w[0] = st
        BY <1>1, <2>2
    <2>4. w[j] = IF j <= i THEN g[j] ELSE h[j - i]
        BY <2>2
    <2>5. w[j] = h[k]
        BY <1>1, <1>2, <2>2, <2>4
    <2> QED
        BY <2>1, <2>3, <2>5, Zenon
<1>5. ASSUME NEW n \in 1 .. i + k
      PROVE  w[n] = ReadRecord(w[n - 1], (a \o b)[n])
    <2>1. n \in 0 .. i + k /\ n - 1 \in 0 .. i + k
        BY <1>3
    <2>2. CASE n <= i
        <3>1. n \in 1 .. i /\ n - 1 <= i
            BY <1>3, <2>2
        <3> QED
            BY <1>1, <1>3, <2>1, <2>2, <3>1
    <2>3. CASE ~(n <= i)
        <3>1. n \in i + 1 .. i + k /\ n - i \in 1 .. k /\ (n - 1 <= i => n - 1 = i)
              /\ n - 1 - i = n - i - 1
            BY <1>3, <2>3
        <3>2. w[n] = h[n - i] /\ (a \o b)[n] = b[n - i]
            BY <1>3, <2>1, <2>3, <3>1
        <3>3. w[n - 1] = h[n - i - 1]
            <4>1. CASE n - 1 <= i
                <5>1. n - i - 1 = 0 /\ n - 1 = i
                    BY <1>3, <3>1, <4>1
                <5> QED
                    BY <1>1, <1>2, <2>1, <4>1, <5>1
            <4>2. CASE ~(n - 1 <= i)
                BY <2>1, <3>1, <4>2
            <4> QED
                BY <4>1, <4>2
        <3> QED
            BY <1>2, <3>1, <3>2, <3>3
    <2> QED
        BY <2>2, <2>3
<1> HIDE DEF w
<1>6. w[Len(a \o b)] = ReadRecords(st, a \o b)
    <2>1. Reads(w, st, a \o b)
        BY <1>3, <1>4, <1>5 DEF Reads
    <2> QED
        BY <1>3, <2>1, ReadRecordsIs
<1> QED
    BY <1>2, <1>3, <1>4, <1>6

(* h has the states after each of the files.                               *)
ReadsFiles(h, files) ==
    /\ h[0] = Unread
    /\ \A n \in 1 .. MaxOrdinal : h[n] = ReadRecords(h[n - 1], files[n])

LEMMA UnreadState == Unread \in ReaderStates
BY DEF Unread, ReaderStates, Nothing

LEMMA ReadFilesRun ==
    ASSUME NEW files \in [1 .. MaxOrdinal -> Seq(Records)]
    PROVE  \E g \in [0 .. MaxOrdinal -> ReaderStates] :
              ReadsFiles(g, files) /\ g[MaxOrdinal] = ReadFiles(files)
<1> DEFINE k == MaxOrdinal
           G == [p \in ReaderStates \X (1 .. k) |-> ReadRecords(p[1], files[p[2]])]
           Body(g) == [n \in 0 .. k |-> IF n = 0 THEN Unread
                                        ELSE ReadRecords(g[n - 1], files[n])]
<1>1. k \in Nat /\ G \in [ReaderStates \X (1 .. k) -> ReaderStates]
    <2>1. ASSUME NEW p \in ReaderStates \X (1 .. k)
          PROVE  ReadRecords(p[1], files[p[2]]) \in ReaderStates
        BY ReadRecordsType
    <2> QED
        BY <2>1, BoundsAssumption
<1>2. \A s \in ReaderStates, n \in 1 .. k : G[<<s, n>>] = ReadRecords(s, files[n])
    OBVIOUS
<1>3. ReadFiles(files) = (CHOOSE h : h = Body(h))[k]
    BY DEF ReadFiles
<1> HIDE DEF G, k
<1>4. Runs(ReaderStates, k, Unread, G) # {}
    BY <1>1, RunExists, UnreadState
<1>5. PICK g \in [0 .. k -> ReaderStates] :
         g[0] = Unread /\ \A n \in 1 .. k : g[n] = G[<<g[n - 1], n>>]
    BY <1>4 DEF Runs
<1>6. \A n \in 1 .. k : g[n] = ReadRecords(g[n - 1], files[n])
    <2> TAKE n \in 1 .. k
    <2>1. g[n - 1] \in ReaderStates
        BY <1>1, <1>5
    <2> QED
        BY <1>2, <1>5, <2>1
<1>7. g = Body(g)
    BY <1>1, <1>5, <1>6
<1>8. PICK h : h = Body(h) /\ ReadFiles(files) = h[k]
    BY <1>3, <1>7
<1>9. h[0] = Unread /\ \A n \in 1 .. k : h[n] = ReadRecords(h[n - 1], files[n])
    BY <1>1, <1>8
<1>10. h[0] = g[0] /\ StepAlike(h, g, k)
    BY <1>5, <1>6, <1>9 DEF StepAlike
<1>11. Agree(h, g, k)
    BY <1>1, <1>10, RunsAgree
<1>12. h[k] = g[k]
    BY <1>1, <1>11 DEF Agree
<1> QED
    BY <1>5, <1>6, <1>8, <1>12 DEF k, ReadsFiles

LEMMA ReadFilesIs ==
    ASSUME NEW files \in [1 .. MaxOrdinal -> Seq(Records)], NEW h, ReadsFiles(h, files)
    PROVE  h[MaxOrdinal] = ReadFiles(files) /\ ReadFiles(files) \in ReaderStates
<1>1. PICK g \in [0 .. MaxOrdinal -> ReaderStates] :
         ReadsFiles(g, files) /\ g[MaxOrdinal] = ReadFiles(files)
    BY ReadFilesRun
<1>2. MaxOrdinal \in Nat /\ MaxOrdinal \in 0 .. MaxOrdinal
    BY BoundsAssumption
<1>3. h[0] = g[0] /\ StepAlike(h, g, MaxOrdinal)
    BY <1>1 DEF StepAlike, ReadsFiles
<1>4. Agree(h, g, MaxOrdinal)
    BY <1>2, <1>3, RunsAgree
<1> QED
    BY <1>1, <1>2, <1>4 DEF Agree

LEMMA ReadNoFiles ==
    ASSUME NEW files \in [1 .. MaxOrdinal -> Seq(Records)], \A n \in 1 .. MaxOrdinal : files[n] = <<>>
    PROVE  ReadFiles(files) = Unread
<1> DEFINE h == [n \in 0 .. MaxOrdinal |-> Unread]
<1>1. MaxOrdinal \in Nat
    BY BoundsAssumption
<1>2. h[0] = Unread /\ h[MaxOrdinal] = Unread
    BY <1>1
<1>3. \A n \in 1 .. MaxOrdinal : h[n] = Unread /\ h[n - 1] = Unread
    BY <1>1
<1> HIDE DEF h
<1>4. ReadsFiles(h, files)
    BY <1>2, <1>3, ReadNone, UnreadState DEF ReadsFiles
<1> QED
    BY <1>2, <1>4, ReadFilesIs

(* Files grow at the end of a stream.                                      *)
LEMMA ReadMore ==
    ASSUME NEW files \in [1 .. MaxOrdinal -> Seq(Records)], NEW recs \in Seq(Records),
           NEW more \in [1 .. MaxOrdinal -> Seq(Records)], NEW m \in 1 .. MaxOrdinal,
           more[m] = files[m] \o recs, \A n \in (1 .. MaxOrdinal) \ {m} : more[n] = files[n],
           \A n \in m + 1 .. MaxOrdinal : files[n] = <<>>
    PROVE  ReadFiles(more) = ReadRecords(ReadFiles(files), recs)
<1>1. PICK g \in [0 .. MaxOrdinal -> ReaderStates] :
         ReadsFiles(g, files) /\ g[MaxOrdinal] = ReadFiles(files)
    BY ReadFilesRun
<1> DEFINE h == [n \in 0 .. MaxOrdinal |-> IF n < m THEN g[n] ELSE ReadRecords(g[n], recs)]
<1>2. MaxOrdinal \in Nat
    BY BoundsAssumption
<1>3. h[0] = Unread /\ h[MaxOrdinal] = ReadRecords(g[MaxOrdinal], recs)
    <2>1. 0 \in 0 .. MaxOrdinal /\ MaxOrdinal \in 0 .. MaxOrdinal /\ 0 < m /\ ~(MaxOrdinal < m)
        BY <1>2
    <2> QED
        BY <1>1, <2>1 DEF ReadsFiles
<1>4. ASSUME NEW n \in 1 .. MaxOrdinal
      PROVE  h[n] = ReadRecords(h[n - 1], more[n])
    <2>1. n \in 0 .. MaxOrdinal /\ n - 1 \in 0 .. MaxOrdinal
        BY <1>2
    <2>2. g[n] = ReadRecords(g[n - 1], files[n]) /\ g[n - 1] \in ReaderStates
        BY <1>1, <2>1 DEF ReadsFiles
    <2>3. CASE n < m
        <3>1. n - 1 < m /\ n # m
            BY <1>2, <2>3
        <3> QED
            BY <2>1, <2>2, <2>3, <3>1
    <2>4. CASE n = m
        <3>1. n - 1 < m /\ ~(n < m)
            BY <1>2, <2>4
        <3>2. h[n] = ReadRecords(ReadRecords(g[n - 1], files[n]), recs)
            BY <2>1, <2>2, <3>1
        <3>3. ReadRecords(g[n - 1], files[n] \o recs) = h[n]
            BY <2>2, <3>2, ReadTwice
        <3> QED
            BY <2>1, <2>4, <3>1, <3>3
    <2>5. CASE ~(n < m) /\ n # m
        <3>1. ~(n - 1 < m) /\ n \in m + 1 .. MaxOrdinal
            BY <1>2, <2>5
        <3>2. g[n] = g[n - 1] /\ more[n] = <<>>
            BY <2>2, <2>5, <3>1, ReadNone
        <3>3. h[n] = ReadRecords(g[n - 1], recs) /\ h[n - 1] = ReadRecords(g[n - 1], recs)
            BY <2>1, <2>5, <3>1, <3>2
        <3>4. h[n - 1] \in ReaderStates
            BY <2>2, <3>3, ReadRecordsType
        <3> QED
            BY <3>2, <3>3, <3>4, ReadNone
    <2> QED
        BY <2>3, <2>4, <2>5
<1> HIDE DEF h
<1>5. ReadsFiles(h, more)
    BY <1>3, <1>4 DEF ReadsFiles
<1> QED
    BY <1>1, <1>3, <1>5, ReadFilesIs

(* A reader that finds the sections f open.                                *)
Reading(f) == [open |-> f, dead |-> FALSE]

LEMMA ReadingRecord ==
    ASSUME NEW f \in [Sections -> Nat], NEW s \in Sections
    PROVE  /\ Reading(f) \in ReaderStates
           /\ ReadRecord(Reading(f), <<"start", s>>) = Reading([f EXCEPT ![s] = f[s] + 1])
           /\ f[s] > 0 =>
                 ReadRecord(Reading(f), <<"end", s>>) = Reading([f EXCEPT ![s] = f[s] - 1])
           /\ ReadRecord(Reading(f), <<"eval">>) = Reading(f)
<1>1. Reading(f) \in ReaderStates /\ Reading(f).open = f
    BY DEF Reading, ReaderStates
<1>2. ReadRecord(Reading(f), <<"start", s>>) = Reading([f EXCEPT ![s] = f[s] + 1])
    BY DEF Reading, ReadRecord
<1>3. ASSUME f[s] > 0
      PROVE  ReadRecord(Reading(f), <<"end", s>>) = Reading([f EXCEPT ![s] = f[s] - 1])
    <2>1. f[s] # 0
        BY <1>3
    <2> QED
        BY <2>1 DEF Reading, ReadRecord
<1>4. ReadRecord(Reading(f), <<"eval">>) = Reading(f)
    BY DEF Reading, ReadRecord
<1> QED
    BY <1>1, <1>2, <1>3, <1>4

(* A reader of one marker for each open section finds them open.           *)
LEMMA ReadMarkers ==
    ASSUME NEW x, x.sections \in [Sections -> Nat], \A s \in Sections : x.sections[s] <= 1
    PROVE  ReadRecords(Unread, Markers(x)) = Reading(x.sections)
<1> DEFINE q == Markers(x)
           n == Len(q)
           open(m) == [s \in Sections |-> IF \E i \in 1 .. m : q[i] = <<"start", s>> THEN 1 ELSE 0]
           h == [m \in 0 .. n |-> Reading(open(m))]
<1>1. q \in Seq(Records) /\ n \in Nat
    BY MarkersAre
<1>2. /\ \A i, j \in 1 .. n : q[i] = q[j] => i = j
      /\ \A i \in 1 .. n : \E s \in Sections : q[i] = <<"start", s>> /\ x.sections[s] > 0
      /\ \A s \in Sections : x.sections[s] > 0 => \E i \in 1 .. n : q[i] = <<"start", s>>
    BY MarkersAre
<1> HIDE DEF q, n
<1>3. open(0) = Nothing
    BY DEF Nothing
<1>4. open(n) = x.sections
    <2>1. ASSUME NEW s \in Sections
          PROVE  open(n)[s] = x.sections[s]
        <3>1. x.sections[s] \in {0, 1}
            OBVIOUS
        <3>2. CASE x.sections[s] = 1
            <4>1. \E i \in 1 .. n : q[i] = <<"start", s>>
                BY <1>2, <3>2
            <4> QED
                BY <3>2, <4>1
        <3>3. CASE x.sections[s] = 0
            <4>1. ~\E i \in 1 .. n : q[i] = <<"start", s>>
                BY <1>2, <3>3
            <4> QED
                BY <3>3, <4>1
        <3> QED
            BY <3>1, <3>2, <3>3
    <2> QED
        BY <2>1
<1>5. ASSUME NEW m \in 1 .. n
      PROVE  ReadRecord(Reading(open(m - 1)), q[m]) = Reading(open(m))
    <2>1. PICK s \in Sections : q[m] = <<"start", s>>
        BY <1>2
    <2>2. /\ m - 1 \in Nat /\ m \notin 1 .. m - 1
          /\ \A i \in 1 .. m : i = m \/ i \in 1 .. m - 1
          /\ \A i \in 1 .. m - 1 : i \in 1 .. m /\ i \in 1 .. n /\ i # m
        BY <1>1
    <2>3. ~\E i \in 1 .. m - 1 : q[i] = <<"start", s>>
        BY <1>2, <2>1, <2>2
    <2>4. open(m - 1) \in [Sections -> Nat] /\ open(m - 1)[s] = 0
        BY <2>3
    <2>5. \A t \in Sections : t # s => q[m] # <<"start", t>>
        BY <2>1
    <2>6. ASSUME NEW t \in Sections
          PROVE  open(m)[t] = [open(m - 1) EXCEPT ![s] = 1][t]
        <3>1. CASE t = s
            <4>1. \E i \in 1 .. m : q[i] = <<"start", t>>
                BY <1>1, <2>1, <3>1
            <4> QED
                BY <3>1, <4>1
        <3>2. CASE t # s
            <4>1. (\E i \in 1 .. m : q[i] = <<"start", t>>)
                  <=> (\E i \in 1 .. m - 1 : q[i] = <<"start", t>>)
                BY <2>2, <2>5, <3>2
            <4> QED
                BY <3>2, <4>1
        <3> QED
            BY <3>1, <3>2
    <2>7. open(m) = [open(m - 1) EXCEPT ![s] = 1]
        BY <2>6
    <2> HIDE DEF open
    <2>8. ReadRecord(Reading(open(m - 1)), q[m])
             = Reading([open(m - 1) EXCEPT ![s] = open(m - 1)[s] + 1])
        <3>1. ReadRecord(Reading(open(m - 1)), <<"start", s>>)
                 = Reading([open(m - 1) EXCEPT ![s] = open(m - 1)[s] + 1])
            BY <2>4, ReadingRecord
        <3> QED
            BY <2>1, <3>1
    <2> QED
        BY <2>4, <2>7, <2>8
<1> HIDE DEF open
<1>6. h[0] = Unread /\ h[n] = Reading(x.sections)
    <2>1. h[0] = Reading(open(0)) /\ h[n] = Reading(open(n))
        BY <1>1
    <2> QED
        BY <1>3, <1>4, <2>1 DEF Unread, Reading
<1>7. \A m \in 1 .. n : h[m] = ReadRecord(h[m - 1], q[m])
    <2> TAKE m \in 1 .. n
    <2>1. m \in 0 .. n /\ m - 1 \in 0 .. n
        BY <1>1
    <2> QED
        BY <1>5, <2>1
<1> HIDE DEF h
<1>8. Reads(h, Unread, q)
    BY <1>6, <1>7 DEF Reads, n
<1>9. h[Len(q)] = ReadRecords(Unread, q)
    BY <1>1, <1>8, ReadRecordsIs, UnreadState
<1> QED
    BY <1>6, <1>9 DEF q, n

(* What the files hold.                                                    *)
RecordsOK ==
    /\ \A f \in Files : RecordsOf(f.ref) = f.records
    /\ \A r : (\A f \in Files : f.ref # r) => RecordsOf(r) = <<>>
    /\ \A r : RecordsOf(r) \in Seq(Records)

LEMMA RecordsShown == BaseInv /\ OwnersInv /\ "nothread" \notin happened => RecordsOK
<1> SUFFICES ASSUME BaseInv, OwnersInv, "nothread" \notin happened
             PROVE  RecordsOK
    OBVIOUS
<1>1. \A f, g \in Files : f.ref = g.ref => f = g
    BY OwnersSuffice DEF OneWriter
<1>2. ASSUME NEW f \in Files
      PROVE  RecordsOf(f.ref) = f.records
    <2> DEFINE files == {g \in Files : g.ref = f.ref}
    <2>1. files = {f}
        BY <1>1
    <2>2. files # {} /\ (CHOOSE g \in files : TRUE) = f
        BY <2>1
    <2>3. RecordsOf(f.ref) = IF files = {} THEN <<>> ELSE (CHOOSE g \in files : TRUE).records
        BY DEF RecordsOf
    <2> HIDE DEF files
    <2> QED
        BY <2>2, <2>3
<1>3. ASSUME NEW r, \A f \in Files : f.ref # r
      PROVE  RecordsOf(r) = <<>>
    <2>1. {g \in Files : g.ref = r} = {}
        BY <1>3
    <2> QED
        BY <2>1 DEF RecordsOf
<1>4. ASSUME NEW r
      PROVE  RecordsOf(r) \in Seq(Records)
    <2>1. CASE \E f \in Files : f.ref = r
        <3>1. Files \subseteq TraceFiles
            BY FilesFacts DEF FilesOK
        <3> QED
            BY <1>2, <2>1, <3>1 DEF TraceFiles
    <2>2. CASE \A f \in Files : f.ref # r
        <3>1. RecordsOf(r) = <<>>
            BY <1>3, <2>2
        <3> QED
            BY <3>1
    <2> QED
        BY <2>1, <2>2
<1> QED
    BY <1>2, <1>3, <1>4 DEF RecordsOK

(* The only file that a step of c writes to.                               *)
Writes(c, r) == Owns(c)' /\ Valid(cxt'[c]) /\ r = Ref(cxt'[c])

LEMMA RecordsStep ==
    ASSUME OwnersInv, FilesOK, FilesOK', RecordsOK, RecordsOK', NEW c \in Ctxs, NEW d \in Ctxs,
           Turn(c), d = c \/ Forked(c, d) \/ Cloned(c, d), \A e \in Ctxs \ {c, d} : Same(e), NEW r
    PROVE  RecordsOf(r)' = IF Writes(c, r) THEN cxt'[c].trace.records ELSE RecordsOf(r)
<1>1. /\ \A f \in Files : f.ref = r => RecordsOf(r) = f.records
      /\ (\A f \in Files : f.ref # r) => RecordsOf(r) = <<>>
    BY DEF RecordsOK
<1>2. /\ \A f \in Files' : f.ref = r => RecordsOf(r)' = f.records
      /\ (\A f \in Files' : f.ref # r) => RecordsOf(r)' = <<>>
    BY DEF RecordsOK
<1>3. /\ \A e \in Ctxs : Alive(e) => Fine(cxt[e])
      /\ \A f \in Files : f \in disk \/ f \in lost \ disk
                         \/ \E e \in Ctxs : Owns(e) /\ f \in Finished(cxt[e], FALSE)
      /\ disk \subseteq Files /\ lost \subseteq Files
      /\ \A e \in Ctxs : Owns(e) => Finished(cxt[e], FALSE) \subseteq Files
    BY DEF FilesOK
<1>4. /\ \A e \in Ctxs : Alive(e)' => Fine(cxt'[e])
      /\ \A f \in Files' : f \in disk' \/ f \in lost' \ disk'
                         \/ \E e \in Ctxs : Owns(e)' /\ f \in Finished(cxt'[e], FALSE)
      /\ disk' \subseteq Files' /\ lost' \subseteq Files'
      /\ \A e \in Ctxs : Owns(e)' => Finished(cxt'[e], FALSE) \subseteq Files'
    BY DEF FilesOK
<1>5. CASE Writes(c, r)
    <2>1. Owns(c)' /\ Alive(c)' /\ Valid(cxt'[c]) /\ r = Ref(cxt'[c])
        BY <1>5 DEF Writes, Alive
    <2>2. Fine(cxt'[c])
        BY <1>4, <2>1
    <2>3. \E f \in Finished(cxt'[c], FALSE) : f.ref = r /\ f.records = cxt'[c].trace.records
        BY <2>1, <2>2, FinishedFacts
    <2> QED
        BY <1>2, <1>4, <1>5, <2>1, <2>3
<1>6. ASSUME ~Writes(c, r), NEW f \in Files, f.ref = r
      PROVE  \E g \in Files' : g.ref = r /\ g.records = f.records
    <2>1. CASE f \in disk \cup lost
        <3>1. f \in disk' \cup lost'
            BY <2>1 DEF Turn, Keeps, Opens, Closes, Begins, Leaves
        <3> QED
            BY <1>4, <1>6, <3>1
    <2>2. ASSUME NEW e \in Ctxs, Owns(e), f \in Finished(cxt[e], FALSE)
          PROVE  \E g \in Files' : g.ref = r /\ g.records = f.records
        <3>1. Valid(cxt[e]) /\ r = Ref(cxt[e]) /\ f.records = cxt[e].trace.records
            BY <1>3, <1>6, <2>2, FinishedFacts DEF Alive
        <3>2. CASE e \notin {c, d}
            <4>1. Owns(e)' /\ f \in Finished(cxt'[e], FALSE)
                BY <2>2, <3>2 DEF Same, Owns
            <4> QED
                BY <1>4, <1>6, <4>1
        <3>3. CASE e = c /\ Keeps(c)
            <4>1. Owns(c)' /\ Valid(cxt'[c]) /\ Ref(cxt'[c]) = Ref(cxt[c])
                BY <3>1, <3>3 DEF Keeps, Kept, SameStream, Owns, Ref
            <4> QED
                BY <1>6, <3>1, <3>3, <4>1 DEF Writes
        <3>4. CASE e = c /\ (Opens(c) \/ Closes(c))
            <4>1. \A last \in BOOLEAN : \E g \in Finished(cxt[c], last) :
                     g.ref = r /\ g.records = f.records
                BY <1>3, <2>2, <3>1, <3>4, FinishedFacts DEF Alive
            <4>2. \E g \in disk' \cup lost' : g.ref = r /\ g.records = f.records
                BY <3>4, <4>1 DEF Opens, Closes
            <4> QED
                BY <1>4, <4>2
        <3>5. CASE e = c /\ (Begins(c) \/ Leaves(c))
            BY <2>2, <3>1, <3>5 DEF Begins, Leaves, Owns
        <3>6. CASE e = d /\ d # c
            BY <2>2, <3>6 DEF Forked, Cloned, Owns
        <3> QED
            BY <3>2, <3>3, <3>4, <3>5, <3>6 DEF Turn
    <2> QED
        BY <1>3, <2>1, <2>2
<1>7. ASSUME ~Writes(c, r), NEW g \in Files', g.ref = r
      PROVE  \E f \in Files : f.ref = r
    <2>1. CASE g \in disk' \cup lost'
        <3>1. \A last \in BOOLEAN : Owns(c) => \A f \in Finished(cxt[c], last) :
                 Valid(cxt[c]) /\ f.ref = Ref(cxt[c])
            BY <1>3, FinishedFacts DEF Alive
        <3>2. g \in disk \cup lost \/ (Owns(c) /\ Valid(cxt[c]) /\ g.ref = Ref(cxt[c]))
            BY <2>1, <3>1 DEF Turn, Keeps, Opens, Closes, Begins, Leaves
        <3>3. Owns(c) /\ Valid(cxt[c]) => \E f \in Files : f.ref = Ref(cxt[c])
            BY <1>3, FinishedFacts DEF Alive
        <3> QED
            BY <1>3, <1>7, <3>2, <3>3
    <2>2. ASSUME NEW e \in Ctxs, Owns(e)', g \in Finished(cxt'[e], FALSE)
          PROVE  \E f \in Files : f.ref = r
        <3>1. Valid(cxt'[e]) /\ r = Ref(cxt'[e])
            BY <1>4, <1>7, <2>2, FinishedFacts DEF Alive
        <3>2. CASE e \notin {c, d}
            <4>1. Owns(e) /\ g \in Finished(cxt[e], FALSE)
                BY <2>2, <3>2 DEF Same, Owns
            <4> QED
                BY <1>3, <1>7, <4>1
        <3>3. CASE e = c
            BY <1>7, <2>2, <3>1, <3>3 DEF Writes
        <3>4. CASE e = d /\ d # c
            BY <2>2, <3>1, <3>4 DEF Forked, Cloned, Owns
        <3> QED
            BY <3>2, <3>3, <3>4
    <2> QED
        BY <1>4, <2>1, <2>2
<1>8. CASE ~Writes(c, r)
    <2>1. CASE \E f \in Files : f.ref = r
        BY <1>1, <1>2, <1>6, <1>8, <2>1
    <2>2. CASE \A f \in Files : f.ref # r
        <3>1. \A g \in Files' : g.ref # r
            BY <1>7, <1>8, <2>2
        <3> QED
            BY <1>1, <1>2, <1>8, <2>2, <3>1
    <2> QED
        BY <2>1, <2>2
<1> QED
    BY <1>5, <1>8

Refer(i, n) == [id |-> i, ordinal |-> n]

LEMMA ReferFacts ==
    ASSUME NEW i, NEW n
    PROVE  /\ Refer(i, n).id = i /\ Refer(i, n).ordinal = n
           /\ \A j, m : Refer(i, n) = Refer(j, m) => i = j /\ n = m
BY DEF Refer

(* Only the last file of a stream grows, and only this stream.             *)
LEMMA StreamSame ==
    ASSUME NEW i, \A n \in 1 .. MaxOrdinal : RecordsOf(Refer(i, n))' = RecordsOf(Refer(i, n))
    PROVE  ReadStream(i)' = ReadStream(i)
BY DEF ReadStream, Refer

Grows(i, m, recs) ==
    /\ RecordsOf(Refer(i, m))' = RecordsOf(Refer(i, m)) \o recs
    /\ \A n \in (1 .. MaxOrdinal) \ {m} : RecordsOf(Refer(i, n))' = RecordsOf(Refer(i, n))
    /\ \A n \in m + 1 .. MaxOrdinal : RecordsOf(Refer(i, n)) = <<>>

LEMMA StreamGrows ==
    ASSUME RecordsOK, RecordsOK', NEW i, NEW m \in 1 .. MaxOrdinal, NEW recs \in Seq(Records),
           Grows(i, m, recs)
    PROVE  ReadStream(i)' = ReadRecords(ReadStream(i), recs)
<1> DEFINE w == [n \in 1 .. MaxOrdinal |-> RecordsOf(Refer(i, n))]
           v == [n \in 1 .. MaxOrdinal |-> RecordsOf(Refer(i, n))']
<1>1. ReadStream(i) = ReadFiles(w) /\ ReadStream(i)' = ReadFiles(v)
    BY DEF ReadStream, Refer
<1>2. \A r : RecordsOf(r) \in Seq(Records) /\ RecordsOf(r)' \in Seq(Records)
    BY DEF RecordsOK
<1>3. w \in [1 .. MaxOrdinal -> Seq(Records)] /\ v \in [1 .. MaxOrdinal -> Seq(Records)]
    BY <1>2
<1>4. v[m] = w[m] \o recs /\ \A n \in (1 .. MaxOrdinal) \ {m} : v[n] = w[n]
    BY DEF Grows
<1>5. \A n \in m + 1 .. MaxOrdinal : w[n] = <<>>
    <2> TAKE n \in m + 1 .. MaxOrdinal
    <2>1. n \in 1 .. MaxOrdinal
        BY BoundsAssumption
    <2> QED
        BY <2>1 DEF Grows
<1> HIDE DEF w, v
<1>6. ReadFiles(v) = ReadRecords(ReadFiles(w), recs)
    BY <1>3, <1>4, <1>5, ReadMore
<1> QED
    BY <1>1, <1>6

LEMMA StreamEmpty ==
    ASSUME NEW i, \A n \in 1 .. MaxOrdinal : RecordsOf(Refer(i, n)) = <<>>
    PROVE  ReadStream(i) = Unread
<1> DEFINE w == [n \in 1 .. MaxOrdinal |-> RecordsOf(Refer(i, n))]
<1>1. w \in [1 .. MaxOrdinal -> Seq(Records)] /\ \A n \in 1 .. MaxOrdinal : w[n] = <<>>
    <2>1. <<>> \in Seq(Records)
        OBVIOUS
    <2> QED
        BY <2>1
<1>2. ReadStream(i) = ReadFiles(w)
    BY DEF ReadStream, Refer
<1> HIDE DEF w
<1> QED
    BY <1>1, <1>2, ReadNoFiles

LEMMA StreamStates ==
    ASSUME RecordsOK, NEW i
    PROVE  ReadStream(i) \in ReaderStates
<1> DEFINE w == [n \in 1 .. MaxOrdinal |-> RecordsOf(Refer(i, n))]
<1>1. w \in [1 .. MaxOrdinal -> Seq(Records)]
    BY DEF RecordsOK
<1>2. ReadStream(i) = ReadFiles(w)
    BY DEF ReadStream, Refer
<1> HIDE DEF w
<1>3. \E g \in [0 .. MaxOrdinal -> ReaderStates] : g[MaxOrdinal] = ReadFiles(w)
    BY <1>1, ReadFilesRun
<1>4. MaxOrdinal \in 0 .. MaxOrdinal
    BY BoundsAssumption
<1> QED
    BY <1>2, <1>3, <1>4

(* A stream ends where its context is.                                     *)
LEMMA NothingBehind ==
    ASSUME BaseInv, OwnersInv, "nothread" \notin happened, RecordsOK
    PROVE  /\ \A c \in Ctxs : Owns(c) => \A n \in Nat :
                 n > cxt[c].ordinal => RecordsOf(Refer(cxt[c].id, n)) = <<>>
           /\ \A c \in Ctxs : Owns(c) /\ Valid(cxt[c]) =>
                 RecordsOf(Ref(cxt[c])) = cxt[c].trace.records
           /\ \A n : RecordsOf(Refer(nextId, n)) = <<>>
<1>1. \A f \in Files : RecordsOf(f.ref) = f.records
    BY DEF RecordsOK
<1>2. \A r : (\A f \in Files : f.ref # r) => RecordsOf(r) = <<>>
    BY DEF RecordsOK
<1>3. \A f \in Files : f \in disk \cup lost
                      \/ \E e \in Ctxs : /\ Owns(e) /\ Valid(cxt[e]) /\ Fine(cxt[e])
                                         /\ f.ref = Ref(cxt[e]) /\ cxt[e].id < nextId
    BY FilesFacts, FinishedFacts, FineOf DEF FilesOK, Alive
<1>4. /\ \A c, d \in Ctxs : Owns(c) /\ Owns(d) /\ cxt[c].id = cxt[d].id => c = d
      /\ \A f \in disk \cup lost :
          /\ f.ref.id < nextId
          /\ \A c \in Ctxs : Owns(c) /\ cxt[c].id = f.ref.id => f.ref.ordinal <= cxt[c].ordinal
    BY DEF OwnersInv
<1>5. /\ nextId \in Nat /\ \A f \in disk \cup lost : f.ref.ordinal \in Nat /\ f.ref.id \in Nat
      /\ \A c \in Ctxs : cxt[c].ordinal \in Nat /\ cxt[c].id \in Nat
    BY BoundsAssumption DEF BaseInv, TypeOK, TraceFiles, Refs, Cxts
<1>6. ASSUME NEW c \in Ctxs, Owns(c), NEW n \in Nat, n > cxt[c].ordinal
      PROVE  RecordsOf(Refer(cxt[c].id, n)) = <<>>
    <2> SUFFICES ASSUME NEW f \in Files, f.ref = Refer(cxt[c].id, n)
                 PROVE  FALSE
        BY <1>2
    <2>1. f.ref.id = cxt[c].id /\ f.ref.ordinal = n
        BY ReferFacts
    <2>2. CASE f \in disk \cup lost
        <3>1. n <= cxt[c].ordinal
            BY <1>4, <1>6, <2>1, <2>2
        <3> QED
            BY <1>5, <1>6, <3>1
    <2>3. ASSUME NEW e \in Ctxs, Owns(e), f.ref = Ref(cxt[e])
          PROVE  FALSE
        <3>1. cxt[e].id = cxt[c].id /\ cxt[e].ordinal = n
            BY <2>1, <2>3 DEF Ref
        <3>2. e = c
            BY <1>4, <1>6, <2>3, <3>1
        <3> QED
            BY <1>5, <1>6, <3>1, <3>2
    <2> QED
        BY <1>3, <2>2, <2>3
<1>7. ASSUME NEW c \in Ctxs, Owns(c), Valid(cxt[c])
      PROVE  RecordsOf(Ref(cxt[c])) = cxt[c].trace.records
    <2>1. Fine(cxt[c]) /\ Finished(cxt[c], FALSE) \subseteq Files
        BY <1>7, FilesFacts DEF FilesOK, Alive
    <2>2. \E f \in Files : f.ref = Ref(cxt[c]) /\ f.records = cxt[c].trace.records
        BY <1>7, <2>1, FinishedFacts
    <2> QED
        BY <1>1, <2>2
<1>8. ASSUME NEW n
      PROVE  RecordsOf(Refer(nextId, n)) = <<>>
    <2> SUFFICES ASSUME NEW f \in Files, f.ref = Refer(nextId, n)
                 PROVE  FALSE
        BY <1>2
    <2>1. f.ref.id = nextId
        BY ReferFacts
    <2>2. f.ref.id < nextId
        <3>1. \A e \in Ctxs : Ref(cxt[e]).id = cxt[e].id
            BY DEF Ref
        <3> QED
            BY <1>3, <1>4, <3>1
    <2> QED
        BY <1>5, <2>1, <2>2
<1> QED
    BY <1>6, <1>7, <1>8

-----------------------------------------------------------------------------
(* Sections are matched                                                    *)

Calm == happened' \cap {"guards", "openfail", "nothread"} = {}

(* What a reader of the stream of x finds.                                 *)
Shows(x) == Reading(IF x.restore THEN Nothing ELSE x.sections)
Restorable(x) == x.restore => \A s \in Sections : x.sections[s] <= 1

(* The stream of x continues as that of y, with recs.                      *)
Appends(x, y, recs) ==
    /\ y.id = x.id
    /\ \/ /\ Valid(x) /\ Valid(y) /\ y.ordinal = x.ordinal
          /\ y.trace.records = x.trace.records \o recs
       \/ Valid(y) /\ y.ordinal = x.ordinal + 1 /\ y.trace.records = recs
       \/ ~Valid(y) /\ recs = <<>>

(* Readers of its stream, or of the stream it begins, follow a context.    *)
Follows(x, y) ==
    \E recs \in Seq(Records) :
       /\ Appends(x, y, recs)
       /\ Restorable(x) => ReadRecords(Shows(x), recs) = Shows(y) /\ Restorable(y)
Introduces(c) ==
    /\ cxt'[c].id = nextId
    /\ \E recs \in Seq(Records) :
          /\ \/ Valid(cxt'[c]) /\ cxt'[c].ordinal = 1 /\ cxt'[c].trace.records = recs
             \/ ~Valid(cxt'[c]) /\ recs = <<>>
          /\ nextId \notin unmarked' =>
                ReadRecords(Unread, recs) = Shows(cxt'[c]) /\ Restorable(cxt'[c])
Tallies(c) ==
    /\ Alive(c)' => Counted(c)'
    /\ \/ Owns(c) /\ Follows(cxt[c], cxt'[c])
       \/ Introduces(c)
       \/ ~Owns(c) /\ ~Owns(c)' /\ ~Valid(cxt'[c])

(* Only the file of c is written to.                                       *)
Written(c) ==
    \A r : RecordsOf(r)' = IF Writes(c, r) THEN cxt'[c].trace.records ELSE RecordsOf(r)

(* The states of readers that a step of c leaves alone.                    *)
LEMMA StreamsApart ==
    ASSUME NEW c, Written(c), NEW i, i = cxt'[c].id => ~Owns(c)' \/ ~Valid(cxt'[c])
    PROVE  ReadStream(i)' = ReadStream(i)
<1>1. \A n \in 1 .. MaxOrdinal : ~Writes(c, Refer(i, n))
    BY DEF Writes, Refer, Ref
<1> QED
    BY <1>1, StreamSame DEF Written

(* Stream i ends with file m.                                              *)
EndsAt(i, m) == \A n \in Nat : n > m => RecordsOf(Refer(i, n)) = <<>>

(* It is stream i, at file m, and the step adds recs.                      *)
WritesTo(c, i, m, recs) ==
    /\ Owns(c)' /\ Valid(cxt'[c]) /\ cxt'[c].id = i /\ cxt'[c].ordinal = m
    /\ cxt'[c].trace.records = RecordsOf(Refer(i, m)) \o recs
    /\ EndsAt(i, m)

LEMMA StreamWritten ==
    ASSUME RecordsOK, RecordsOK', NEW c, Written(c), NEW i, NEW m \in 1 .. MaxOrdinal,
           NEW recs \in Seq(Records), WritesTo(c, i, m, recs)
    PROVE  ReadStream(i)' = ReadRecords(ReadStream(i), recs)
<1>1. \A n : Writes(c, Refer(i, n)) <=> n = m
    BY DEF Writes, Ref, Refer, WritesTo
<1>2. /\ RecordsOf(Refer(i, m))' = RecordsOf(Refer(i, m)) \o recs
      /\ \A n \in (1 .. MaxOrdinal) \ {m} : RecordsOf(Refer(i, n))' = RecordsOf(Refer(i, n))
    BY <1>1 DEF Written, WritesTo
<1>3. \A n \in m + 1 .. MaxOrdinal : n \in Nat /\ n > m
    BY BoundsAssumption
<1>4. Grows(i, m, recs)
    BY <1>2, <1>3 DEF Grows, EndsAt, WritesTo
<1> QED
    BY <1>4, StreamGrows

LEMMA SectionsContinue ==
    ASSUME BaseInv, BaseInv', OwnersInv, SectionsInv, RecordsOK, RecordsOK', Calm,
           happened \subseteq happened', unmarked \subseteq unmarked', NEW c \in Ctxs, Turn(c),
           Written(c), Owns(c), Follows(cxt[c], cxt'[c]), NEW i, i = cxt[c].id, i \notin unmarked
    PROVE  /\ ReadStream(i)' = Shows(cxt'[c]) /\ Restorable(cxt'[c])
           /\ cxt'[c].id = i
<1>1. /\ happened \cap {"guards", "openfail", "nothread"} = {} /\ "nothread" \notin happened
      /\ Alive(c)
    BY DEF Calm, Alive
<1>2. PICK recs \in Seq(Records) :
         /\ Appends(cxt[c], cxt'[c], recs)
         /\ ReadRecords(Shows(cxt[c]), recs) = Shows(cxt'[c]) /\ Restorable(cxt'[c])
    <2>1. Restorable(cxt[c])
        BY <1>1 DEF SectionsInv, Marked, Restorable
    <2> QED
        BY <2>1 DEF Follows
<1>3. /\ Counted(c) /\ ReadStream(i) = Shows(cxt[c])
      /\ Shows(cxt[c]) \in ReaderStates
    <2>1. Counted(c) /\ Marked(c)
        BY <1>1 DEF SectionsInv
    <2>2. ReadStream(i) = Shows(cxt[c])
        BY <2>1 DEF Marked, Shows, Reading
    <2> QED
        BY <2>1, <2>2, StreamStates
<1>4. /\ \A n \in Nat : n > cxt[c].ordinal => RecordsOf(Refer(i, n)) = <<>>
      /\ Valid(cxt[c]) => RecordsOf(Refer(i, cxt[c].ordinal)) = cxt[c].trace.records
    BY <1>1, NothingBehind DEF Ref, Refer
<1>5. cxt'[c].id = i
    BY <1>2 DEF Appends
<1>6. CASE Valid(cxt'[c])
    <2>1. Owns(c)'
        <3>1. Alive(c)'
            BY <1>6 DEF BaseInv, CxtInv, Valid, Alive, Owns
        <3> QED
            BY <1>6, <3>1 DEF Turn, Keeps, Opens, Closes, Begins, Leaves, Owns, Alive, Dropped
    <2>2. PICK m : m = cxt'[c].ordinal
        OBVIOUS
    <2>3. m \in 0 .. MaxOrdinal /\ cxt[c].ordinal \in 0 .. MaxOrdinal
        BY <2>2 DEF BaseInv, TypeOK, Cxts
    <2>4. /\ m \in 1 .. MaxOrdinal
          /\ \A n \in Nat : n > m => n > cxt[c].ordinal
        BY <1>2, <1>3, <1>6, <2>2, <2>3, BoundsAssumption, SMTT(60) DEF Appends, Counted
    <2>5. cxt'[c].trace.records = RecordsOf(Refer(i, m)) \o recs
        <3>1. CASE Valid(cxt[c]) /\ m = cxt[c].ordinal
                   /\ cxt'[c].trace.records = cxt[c].trace.records \o recs
            BY <1>4, <3>1
        <3>2. CASE m = cxt[c].ordinal + 1 /\ cxt'[c].trace.records = recs
            <4>1. m \in Nat /\ m > cxt[c].ordinal
                BY <2>3, <3>2
            <4>2. RecordsOf(Refer(i, m)) = <<>>
                BY <1>4, <4>1
            <4> QED
                BY <3>2, <4>2
        <3> QED
            BY <1>2, <1>6, <2>2, <3>1, <3>2 DEF Appends
    <2>6. EndsAt(i, m)
        BY <1>4, <2>4 DEF EndsAt
    <2>7. WritesTo(c, i, m, recs) /\ m \in 1 .. MaxOrdinal
        BY <1>5, <1>6, <2>1, <2>2, <2>4, <2>5, <2>6 DEF WritesTo
    <2>8. ReadStream(i)' = ReadRecords(ReadStream(i), recs)
        BY <2>7, StreamWritten
    <2> QED
        BY <1>2, <1>3, <1>5, <2>8
<1>7. CASE ~Valid(cxt'[c])
    <2>1. ReadStream(i)' = ReadStream(i)
        BY <1>7, StreamsApart
    <2>2. recs = <<>>
        BY <1>2, <1>7 DEF Appends
    <2> QED
        BY <1>2, <1>3, <1>5, <2>1, <2>2, ReadNone
<1> QED
    BY <1>6, <1>7

LEMMA SectionsBegin ==
    ASSUME BaseInv, BaseInv', OwnersInv, RecordsOK, RecordsOK', Calm,
           happened \subseteq happened', NEW c \in Ctxs, Turn(c), Written(c), Introduces(c),
           NEW i, i = nextId, i \notin unmarked'
    PROVE  /\ ReadStream(i)' = Shows(cxt'[c]) /\ Restorable(cxt'[c])
           /\ cxt'[c].id = i
<1>1. PICK recs \in Seq(Records) :
         /\ \/ Valid(cxt'[c]) /\ cxt'[c].ordinal = 1 /\ cxt'[c].trace.records = recs
            \/ ~Valid(cxt'[c]) /\ recs = <<>>
         /\ ReadRecords(Unread, recs) = Shows(cxt'[c]) /\ Restorable(cxt'[c])
    BY DEF Introduces
<1>2. cxt'[c].id = i
    BY DEF Introduces
<1>3. \A n : RecordsOf(Refer(i, n)) = <<>>
    BY NothingBehind DEF Calm
<1>4. ReadStream(i) = Unread
    BY <1>3, StreamEmpty
<1>5. CASE Valid(cxt'[c])
    <2>1. Owns(c)'
        <3>1. Alive(c)'
            BY <1>5 DEF BaseInv, CxtInv, Valid, Alive, Owns
        <3> QED
            BY <1>5, <3>1 DEF Turn, Keeps, Opens, Closes, Begins, Leaves, Owns, Alive, Dropped
    <2>2. 1 \in 1 .. MaxOrdinal
        <3>1. cxt'[c].ordinal \in 0 .. MaxOrdinal
            BY DEF BaseInv, TypeOK, Cxts
        <3> QED
            BY <1>1, <1>5, <3>1, BoundsAssumption
    <2>3. RecordsOf(Refer(i, 1)) \o recs = recs
        <3>1. RecordsOf(Refer(i, 1)) = <<>>
            BY <1>3
        <3>2. <<>> \o recs = recs
            OBVIOUS
        <3> QED
            BY <3>1, <3>2
    <2>4. WritesTo(c, i, 1, recs)
        BY <1>1, <1>2, <1>3, <1>5, <2>1, <2>3 DEF WritesTo, EndsAt
    <2>5. ReadStream(i)' = ReadRecords(ReadStream(i), recs)
        BY <2>2, <2>4, StreamWritten
    <2> QED
        BY <1>1, <1>2, <1>4, <2>5
<1>6. CASE ~Valid(cxt'[c])
    <2>1. ReadStream(i)' = ReadStream(i)
        BY <1>6, StreamsApart
    <2> QED
        BY <1>1, <1>2, <1>4, <1>6, <2>1, ReadNone, UnreadState
<1> QED
    BY <1>5, <1>6

(* A new context takes over sections.                                      *)
Adopts(d) ==
    /\ Counted(d)'
    /\ Owns(d)' => cxt'[d].id = nextId /\ ~Valid(cxt'[d])
    /\ Owns(d)' /\ nextId \notin unmarked' => Shows(cxt'[d]) = Unread /\ Restorable(cxt'[d])

LEMMA MarkedIs ==
    ASSUME NEW e, NEW i, cxt'[e].id = i, ReadStream(i)' = Shows(cxt'[e]), Restorable(cxt'[e])
    PROVE  Marked(e)'
<1>1. ReadStream(cxt[e].id)' = ReadStream(i)'
    OBVIOUS
<1> QED
    BY <1>1 DEF Marked, Shows, Reading, Restorable

LEMMA SectionsStep ==
    ASSUME BaseInv, BaseInv', OwnersInv, OwnersInv', SectionsInv, Calm,
           happened \subseteq happened', unmarked \subseteq unmarked',
           NEW c \in Ctxs, NEW d \in Ctxs, Turn(c), Tallies(c),
           d = c \/ ((Forked(c, d) \/ Cloned(c, d)) /\ Adopts(d)),
           \A e \in Ctxs \ {c, d} : Same(e) /\ held'[e] = held[e]
    PROVE  SectionsInv'
<1>1. /\ happened \cap {"guards", "openfail", "nothread"} = {}
      /\ "nothread" \notin happened /\ "nothread" \notin happened'
    BY DEF Calm
<1>2. RecordsOK /\ FilesOK
    BY <1>1, RecordsShown, FilesFacts
<1>3. RecordsOK' /\ FilesOK'
    <2>1. (BaseInv /\ OwnersInv /\ "nothread" \notin happened => RecordsOK /\ FilesOK)'
        BY RecordsShown, FilesFacts, PTL
    <2> QED
        BY <1>1, <2>1
<1>4. Written(c)
    <2>1. \A e \in Ctxs \ {c, d} : Same(e)
        OBVIOUS
    <2>2. d = c \/ Forked(c, d) \/ Cloned(c, d)
        OBVIOUS
    <2>3. ASSUME NEW r
          PROVE  RecordsOf(r)' = IF Writes(c, r) THEN cxt'[c].trace.records ELSE RecordsOf(r)
        BY <1>2, <1>3, <2>1, <2>2, RecordsStep
    <2> QED
        BY <2>3 DEF Written
<1>5. /\ \A i \in (1 .. MaxIds) \ unmarked : ~ReadStream(i).dead
      /\ \A e \in Ctxs : Alive(e) => Counted(e)
      /\ \A e \in Ctxs : Owns(e) /\ cxt[e].id \notin unmarked => Marked(e)
    BY <1>1 DEF SectionsInv
<1>6. \A e, f \in Ctxs : Owns(e)' /\ Owns(f)' /\ cxt'[e].id = cxt'[f].id => e = f
    BY <1>1 DEF OwnersInv
<1>7. ASSUME NEW e \in Ctxs, Alive(e)'
      PROVE  Counted(e)'
    <2>1. CASE e \notin {c, d}
        BY <1>5, <1>7, <2>1 DEF Same, Alive, Owns, Counted
    <2>2. CASE e = c
        BY <1>7, <2>2 DEF Tallies
    <2>3. CASE e = d /\ d # c
        BY <2>3 DEF Adopts
    <2> QED
        BY <2>1, <2>2, <2>3
<1>8. ASSUME NEW e \in Ctxs, Owns(e)', cxt'[e].id \notin unmarked'
      PROVE  Marked(e)'
    <2>1. PICK i : i = cxt'[e].id
        OBVIOUS
    <2>2. i \notin unmarked' /\ i \notin unmarked
        BY <1>8, <2>1
    <2>3. CASE e \notin {c, d}
        <3>1. Owns(e) /\ cxt'[e] = cxt[e]
            BY <1>8, <2>3 DEF Same, Owns
        <3>2. Marked(e)
            BY <1>5, <2>1, <2>2, <3>1
        <3>3. ReadStream(i) = Shows(cxt'[e]) /\ Restorable(cxt'[e])
            BY <2>1, <3>1, <3>2 DEF Marked, Shows, Reading, Restorable
        <3>4. i = cxt'[c].id => ~Owns(c)'
            BY <1>6, <1>8, <2>1, <2>3
        <3>5. ReadStream(i)' = ReadStream(i)
            BY <1>4, <3>4, StreamsApart
        <3> QED
            BY <2>1, <3>3, <3>5, MarkedIs
    <2>4. CASE e = c
        <3>1. CASE Owns(c) /\ Follows(cxt[c], cxt'[c])
            <4>1. i = cxt[c].id
                BY <2>1, <2>4, <3>1 DEF Follows, Appends
            <4>2. ReadStream(i)' = Shows(cxt'[c]) /\ Restorable(cxt'[c])
                BY <1>2, <1>3, <1>4, <2>2, <3>1, <4>1, SectionsContinue
            <4> QED
                BY <2>1, <2>4, <4>2, MarkedIs
        <3>2. CASE Introduces(c)
            <4>1. i = nextId
                BY <2>1, <2>4, <3>2 DEF Introduces
            <4>2. ReadStream(i)' = Shows(cxt'[c]) /\ Restorable(cxt'[c])
                BY <1>2, <1>3, <1>4, <2>2, <3>2, <4>1, SectionsBegin
            <4> QED
                BY <2>1, <2>4, <4>2, MarkedIs
        <3> QED
            BY <1>8, <2>4, <3>1, <3>2 DEF Tallies
    <2>5. CASE e = d /\ d # c
        <3>1. i = nextId /\ Shows(cxt'[d]) = Unread /\ Restorable(cxt'[d])
            BY <1>8, <2>1, <2>2, <2>5 DEF Adopts
        <3>2. i = cxt'[c].id => ~Owns(c)'
            BY <1>6, <1>8, <2>1, <2>5
        <3>3. ReadStream(i)' = ReadStream(i)
            BY <1>4, <3>2, StreamsApart
        <3>4. \A n : RecordsOf(Refer(i, n)) = <<>>
            BY <1>1, <1>2, <3>1, NothingBehind
        <3>5. ReadStream(i) = Unread
            BY <3>4, StreamEmpty
        <3> QED
            BY <2>1, <2>5, <3>1, <3>3, <3>5, MarkedIs
    <2> QED
        BY <2>3, <2>4, <2>5
<1>9. ASSUME NEW i \in (1 .. MaxIds) \ unmarked'
      PROVE  ~ReadStream(i)'.dead
    <2>1. CASE \E e \in Ctxs : Owns(e)' /\ cxt'[e].id = i
        <3>1. PICK e \in Ctxs : Owns(e)' /\ cxt'[e].id = i
            BY <2>1
        <3>2. Marked(e)'
            BY <1>8, <3>1
        <3>3. ReadStream(cxt[e].id)' = ReadStream(i)'
            BY <3>1
        <3> QED
            BY <3>2, <3>3 DEF Marked
    <2>2. CASE ~\E e \in Ctxs : Owns(e)' /\ cxt'[e].id = i
        <3>1. ReadStream(i)' = ReadStream(i)
            BY <1>4, <2>2, StreamsApart
        <3> QED
            BY <1>5, <3>1
    <2> QED
        BY <2>1, <2>2
<1> QED
    BY <1>7, <1>8, <1>9 DEF SectionsInv

Alike(x, y) ==
    /\ y.enabled = x.enabled /\ y.running = x.running
    /\ y.restore = x.restore /\ y.sections = x.sections

(* The next file of the stream of x was opened.                            *)
NextFile(x, y) ==
    /\ Fine(y) /\ y.id = x.id /\ y.ordinal = x.ordinal + 1 /\ Valid(y)
    /\ y.trace.records = <<>> /\ Alike(x, y)

LEMMA OpenExactly ==
    ASSUME NEW x, Fine(x), ~Valid(x), x.ordinal < MaxOrdinal,
           NEW y \in Open([x EXCEPT !.ordinal = @ + 1]), Valid(y)
    PROVE  NextFile(x, y)
<1> DEFINE z == [x EXCEPT !.ordinal = @ + 1]
           t == [ref |-> Ref(z), parent |-> z.parent, records |-> <<>>, buffered |-> FALSE]
<1>1. z \in Cxts /\ z.id = x.id /\ z.ordinal = x.ordinal + 1 /\ z.trace = x.trace /\ Alike(x, z)
    BY BoundsAssumption DEF Fine, Cxts, Alike
<1>2. y = z \/ y = [z EXCEPT !.written = TRUE, !.trace = t]
    BY DEF Open
<1>3. y = [z EXCEPT !.written = TRUE, !.trace = t]
    BY <1>1, <1>2 DEF Valid
<1>4. t.records = <<>>
    OBVIOUS
<1> HIDE DEF t
<1>5. y.id = z.id /\ y.ordinal = z.ordinal /\ y.trace = t /\ Alike(z, y)
    BY <1>1, <1>3 DEF Cxts, Alike
<1>6. Fine(y)
    BY OpenFacts
<1> QED
    BY <1>1, <1>4, <1>5, <1>6 DEF NextFile, Alike

LEMMA ClosedExactly ==
    ASSUME NEW x, Fine(x)
    PROVE  /\ Fine(Closed(x)) /\ Closed(x).id = x.id /\ Closed(x).ordinal = x.ordinal
           /\ ~Valid(Closed(x)) /\ Alike(x, Closed(x))
<1>1. x \in Cxts /\ Closed(x) = [x EXCEPT !.trace = NoTrace]
    BY DEF Fine, Closed
<1>2. Closed(x).id = x.id /\ Closed(x).ordinal = x.ordinal /\ Alike(x, Closed(x))
    BY <1>1 DEF Cxts, Alike
<1> QED
    BY <1>2, ClosedFacts DEF Dropped

LEMMA ReopenExactly ==
    ASSUME NEW x, Fine(x), x.ordinal < MaxOrdinal, NEW y \in Reopen(x), Valid(y)
    PROVE  NextFile(x, y)
<1>1. /\ Fine(Closed(x)) /\ Closed(x).id = x.id /\ Closed(x).ordinal = x.ordinal
      /\ ~Valid(Closed(x)) /\ Alike(x, Closed(x))
    BY ClosedExactly
<1>2. NextFile(Closed(x), y)
    BY <1>1, OpenExactly DEF Reopen
<1> QED
    BY <1>1, <1>2 DEF NextFile, Alike

LEMMA ShownState ==
    ASSUME NEW x, Fine(x)
    PROVE  Shows(x) \in ReaderStates /\ x.sections \in [Sections -> Nat] /\ x.restore \in BOOLEAN
<1>1. x.sections \in [Sections -> Nat] /\ x.restore \in BOOLEAN /\ Nothing \in [Sections -> Nat]
    BY DEF Fine, Cxts, Nothing
<1> QED
    BY <1>1 DEF Shows, Reading, ReaderStates

(* Nothing is written.                                                     *)
LEMMA FollowsNothing ==
    ASSUME NEW x, Fine(x), NEW y, y.id = x.id,
           \/ y.ordinal = x.ordinal /\ y.trace.records = x.trace.records /\ (Valid(y) <=> Valid(x))
           \/ y.ordinal = x.ordinal + 1 /\ y.trace.records = <<>>
           \/ ~Valid(y),
           Restorable(x) => Shows(y) = Shows(x) /\ Restorable(y)
    PROVE  Follows(x, y)
<1>1. <<>> \in Seq(Records) /\ x.trace.records \o <<>> = x.trace.records
    BY DEF Fine, Cxts, Traces
<1>2. Appends(x, y, <<>>)
    BY <1>1 DEF Appends
<1>3. ReadRecords(Shows(x), <<>>) = Shows(x)
    BY ShownState, ReadNone
<1> QED
    BY <1>1, <1>2, <1>3 DEF Follows

(* One more record is written.                                             *)
LEMMA FollowsRecord ==
    ASSUME NEW x, Fine(x), NEW y, Fine(y), Follows(x, y), Valid(y), ~y.restore,
           NEW rec \in Records, NEW z, z.id = y.id, z.ordinal = y.ordinal, Valid(z), ~z.restore,
           z.trace.records = y.trace.records \o <<rec>>, ReadRecord(Shows(y), rec) = Shows(z)
    PROVE  Follows(x, z)
<1>1. PICK recs \in Seq(Records) :
         /\ Appends(x, y, recs)
         /\ Restorable(x) => ReadRecords(Shows(x), recs) = Shows(y) /\ Restorable(y)
    BY DEF Follows
<1>2. <<rec>> \in Seq(Records) /\ recs \o <<rec>> \in Seq(Records)
    OBVIOUS
<1>3. x.trace.records \in Seq(Records)
    BY DEF Fine, Cxts, Traces
<1>4. Appends(x, z, recs \o <<rec>>)
    <2>1. \A a, b, e \in Seq(Records) : (a \o b) \o e = a \o (b \o e)
        OBVIOUS
    <2>2. (x.trace.records \o recs) \o <<rec>> = x.trace.records \o (recs \o <<rec>>)
        BY <1>2, <1>3, <2>1
    <2> QED
        BY <1>1, <2>2 DEF Appends
<1>5. ASSUME Restorable(x)
      PROVE  ReadRecords(Shows(x), recs \o <<rec>>) = Shows(z)
    <2>1. Shows(x) \in ReaderStates /\ Shows(y) \in ReaderStates
        BY ShownState
    <2>2. ReadRecords(Shows(x), recs \o <<rec>>) = ReadRecords(Shows(y), <<rec>>)
        <3>1. ReadRecords(Shows(x), recs \o <<rec>>)
                 = ReadRecords(ReadRecords(Shows(x), recs), <<rec>>)
            BY <1>2, <2>1, ReadTwice
        <3> QED
            BY <1>1, <1>5, <3>1
    <2> QED
        BY <2>1, <2>2, ReadOne
<1>6. Restorable(z)
    BY DEF Restorable
<1> QED
    BY <1>2, <1>4, <1>5, <1>6 DEF Follows

(* Markers are written to a file that was just opened.                     *)
LEMMA RestoreExactly ==
    ASSUME NEW x, Fine(x), Valid(x), x.trace.records = <<>>, NEW y, y = RestoreSections(x)
    PROVE  /\ Fine(y) /\ Valid(y) /\ y.id = x.id /\ y.ordinal = x.ordinal /\ Alike(x, y)
           /\ y.trace.records = Markers(x)
<1>1. x \in Cxts /\ x.trace \in Traces /\ Markers(x) \in Seq(Records)
    BY MarkersAre DEF Fine, Cxts
<1>2. Fine(y) /\ Kept(x, y)
    BY RestoreFacts
<1>3. y = Write(x, Markers(x))
    BY DEF RestoreSections
<1>4. Alike(x, y)
    BY <1>1, <1>3 DEF Write, Cxts, Alike
<1>5. y.trace.records = x.trace.records \o Markers(x)
    BY <1>1, <1>3 DEF Write, Cxts, Traces
<1>6. <<>> \o Markers(x) = Markers(x)
    BY <1>1
<1> QED
    BY <1>2, <1>4, <1>5, <1>6 DEF Kept, SameStream

LEMMA CreateExactly ==
    ASSUME NEW x, Fine(x), Valid(x) => ~x.restore /\ x.ordinal > 0,
           Valid(x) \/ x.ordinal < MaxOrdinal, NEW y \in CreateTrace(x), Valid(y)
    PROVE  /\ Fine(y) /\ Follows(x, y) /\ ~y.restore /\ y.id = x.id /\ y.ordinal > 0
           /\ y.enabled = x.enabled /\ y.running = x.running /\ y.sections = x.sections
<1>1. CASE Valid(x)
    <2>1. y = x
        BY <1>1 DEF CreateTrace
    <2> QED
        BY <1>1, <2>1, FollowsNothing
<1>2. CASE ~Valid(x)
    <2>1. PICK z \in Open([x EXCEPT !.ordinal = @ + 1]) :
             y = IF Valid(z) /\ z.restore THEN RestoreSections([z EXCEPT !.restore = FALSE])
                 ELSE z
        BY <1>2 DEF CreateTrace
    <2>2. Fine(z)
        BY <1>2, <2>1, OpenFacts
    <2>3. Valid(z)
        BY <2>1
    <2>4. NextFile(x, z)
        BY <1>2, <2>3, OpenExactly
    <2>5. x.ordinal + 1 > 0
        BY BoundsAssumption DEF Fine, Cxts
    <2>6. CASE ~z.restore
        <3>1. y = z
            BY <2>1, <2>6
        <3>2. Shows(y) = Shows(x) /\ Restorable(y)
            BY <2>4, <2>6, <3>1 DEF NextFile, Alike, Shows, Restorable
        <3>3. Follows(x, y)
            BY <2>4, <3>1, <3>2, FollowsNothing DEF NextFile
        <3> QED
            BY <2>4, <2>5, <2>6, <3>1, <3>3 DEF NextFile, Alike
    <2>7. CASE z.restore
        <3> DEFINE w == [z EXCEPT !.restore = FALSE]
        <3>1. /\ w \in Cxts /\ w.id = z.id /\ w.ordinal = z.ordinal /\ w.trace = z.trace
              /\ w.parent = z.parent /\ w.written = z.written /\ w.enabled = z.enabled
              /\ w.running = z.running /\ w.sections = z.sections /\ w.restore = FALSE
            BY <2>2 DEF Fine, Cxts
        <3>2. y = RestoreSections(w)
            BY <2>1, <2>3, <2>7
        <3> HIDE DEF w
        <3>3. Fine(w) /\ Kept(z, w)
            BY <2>2, <3>1, KeptFields
        <3>4. Valid(w) /\ w.trace.records = <<>>
            BY <2>3, <2>4, <3>1 DEF Valid, NextFile
        <3>5. /\ Fine(y) /\ Valid(y) /\ y.id = w.id /\ y.ordinal = w.ordinal /\ Alike(w, y)
              /\ y.trace.records = Markers(w)
            BY <3>2, <3>3, <3>4, RestoreExactly
        <3>6. /\ y.id = x.id /\ y.ordinal = x.ordinal + 1 /\ y.enabled = x.enabled
              /\ y.running = x.running /\ y.sections = x.sections /\ y.restore = FALSE
              /\ x.restore /\ w.sections = x.sections
            BY <2>4, <2>7, <3>1, <3>5 DEF NextFile, Alike
        <3>7. Markers(w) \in Seq(Records) /\ x.sections \in [Sections -> Nat]
            BY MarkersAre, ShownState
        <3>8. Appends(x, y, Markers(w))
            BY <3>5, <3>6 DEF Appends
        <3>9. ASSUME Restorable(x)
              PROVE  ReadRecords(Shows(x), Markers(w)) = Shows(y)
            <4>1. Shows(x) = Unread /\ Shows(y) = Reading(x.sections)
                BY <3>6 DEF Shows, Unread, Reading
            <4>2. \A s \in Sections : w.sections[s] <= 1
                BY <3>6, <3>9 DEF Restorable
            <4>3. ReadRecords(Unread, Markers(w)) = Reading(w.sections)
                BY <3>6, <3>7, <4>2, ReadMarkers
            <4> QED
                BY <3>6, <4>1, <4>3
        <3>10. Restorable(y)
            BY <3>6 DEF Restorable
        <3>11. Follows(x, y)
            BY <3>7, <3>8, <3>9, <3>10 DEF Follows
        <3> QED
            BY <2>5, <3>5, <3>6, <3>11
    <2> QED
        BY <2>2, <2>6, <2>7 DEF Fine, Cxts
<1> QED
    BY <1>1, <1>2

-----------------------------------------------------------------------------
(* What each action tallies                                                *)

(* The sections a program opened and closed in a step of c.                *)
Others(c) == unmarked \subseteq unmarked' /\ \A e \in Ctxs \ {c} : held'[e] = held[e]

LEMMA CalmFacts ==
    ASSUME BaseInv, SectionsInv, Calm, happened \subseteq happened', NEW c \in Ctxs, Alive(c)
    PROVE  Fine(cxt[c]) /\ Counted(c)
<1>1. happened \cap {"guards", "openfail", "nothread"} = {}
    BY DEF Calm
<1> QED
    BY <1>1, FineOf DEF SectionsInv

LEMMA FollowsFrom ==
    ASSUME NEW x, NEW y, NEW z, y.id = x.id, y.ordinal = x.ordinal, y.trace = x.trace,
           y.restore = x.restore, y.sections = x.sections, Follows(y, z)
    PROVE  Follows(x, z)
BY DEF Follows, Appends, Restorable, Shows, Valid

LEMMA CreateSucceeds ==
    ASSUME BaseInv, Calm, NEW c \in Ctxs, Fine(cxt[c]), NEW x, Fine(x),
           x.id = cxt[c].id, x.ordinal = cxt[c].ordinal, Valid(x) <=> Valid(cxt[c]),
           Valid(x) \/ x.ordinal < MaxOrdinal, NEW y \in CreateTrace(x), NEW z,
           z.id = y.id, z.ordinal = y.ordinal, Valid(z) <=> Valid(y),
           Unopened(cxt[c], z) \subseteq happened'
    PROVE  Valid(y)
<1> SUFFICES ASSUME ~Valid(y)
             PROVE  FALSE
    OBVIOUS
<1>1. ~Valid(x) /\ Failed(x, y)
    BY CreateFacts DEF Opened
<1>2. cxt[c].ordinal \in Nat /\ z.ordinal = cxt[c].ordinal + 1 /\ ~Valid(z)
    BY <1>1 DEF Fine, Cxts, Failed
<1>3. "openfail" \in Unopened(cxt[c], z)
    BY <1>2 DEF Unopened
<1> QED
    BY <1>3 DEF Calm

LEMMA EnterLoopTallies ==
    ASSUME BaseInv, SectionsInv, Calm, happened \subseteq happened', NEW c \in Ctxs, EnterLoop(c)
    PROVE  Tallies(c) /\ Others(c)
<1> DEFINE x == [cxt[c] EXCEPT !.running = TRUE]
<1>1. Live(c) /\ Owns(c) /\ Fine(cxt[c]) /\ Counted(c)
    BY CalmFacts DEF EnterLoop, Alive, Owns, Live
<1>2. /\ x \in Cxts /\ x.id = cxt[c].id /\ x.ordinal = cxt[c].ordinal /\ x.trace = cxt[c].trace
      /\ x.parent = cxt[c].parent /\ x.written = cxt[c].written /\ x.enabled = cxt[c].enabled
      /\ x.restore = cxt[c].restore /\ x.sections = cxt[c].sections
    BY <1>1 DEF Fine, Cxts
<1>3. /\ \E y \in CreateTrace(x) : BecomeAfter(c, y, {})
      /\ Valid(x) \/ x.ordinal < MaxOrdinal
      /\ UNCHANGED <<state, held, disk, lost, nextId, garbled, unmarked>>
    BY <1>2 DEF EnterLoop, MayOpen, MayFollow, Valid, Become
<1> HIDE DEF x
<1>4. PICK y \in CreateTrace(x), es \in SUBSET Rare : BecomeAfter(c, y, es)
    <2>1. {} \in SUBSET Rare
        OBVIOUS
    <2> QED
        BY <1>3, <2>1
<1>5. Fine(x) /\ (Valid(x) <=> Valid(cxt[c]))
    BY <1>1, <1>2, KeptFields DEF Valid
<1>6. Fine(y)
    BY <1>3, <1>5, CreateFacts
<1>7. cxt'[c] = y /\ Unopened(cxt[c], y) \subseteq happened'
    BY <1>4, <1>6, BecomeFacts
<1>8. Valid(y)
    BY <1>1, <1>2, <1>3, <1>5, <1>7, CreateSucceeds
<1>9. /\ Follows(x, y) /\ ~y.restore /\ y.id = x.id /\ y.ordinal > 0
      /\ y.enabled = x.enabled /\ y.sections = x.sections
    BY <1>1, <1>2, <1>3, <1>5, <1>8, CreateExactly DEF Counted
<1>10. Follows(cxt[c], y)
    BY <1>2, <1>9, FollowsFrom
<1>11. Counted(c)'
    BY <1>1, <1>2, <1>3, <1>7, <1>8, <1>9 DEF Counted
<1> QED
    BY <1>1, <1>3, <1>7, <1>10, <1>11 DEF Tallies, Others

(* Flags are set, to y; profiling is switched only outside sections.       *)
LEMMA FlagsTallies ==
    ASSUME BaseInv, SectionsInv, Calm, happened \subseteq happened', NEW c \in Ctxs, Live(c),
           NEW y \in Cxts, y.id = cxt[c].id, y.ordinal = cxt[c].ordinal, y.parent = cxt[c].parent,
           y.written = cxt[c].written, y.trace = cxt[c].trace,
           y.enabled => cxt[c].enabled \/ Valid(cxt[c]),
           y.restore = cxt[c].restore, y.sections = cxt[c].sections, y.running => cxt[c].running,
           NEW es, es \subseteq Rare, y.enabled = cxt[c].enabled \/ Guarded(c) \subseteq es,
           BecomeAfter(c, y, es),
           UNCHANGED <<state, held, disk, lost, nextId, garbled, unmarked>>
    PROVE  Tallies(c) /\ Others(c)
<1>1. Owns(c) /\ Fine(cxt[c]) /\ Counted(c)
    BY CalmFacts DEF Alive, Owns, Live
<1>2. Fine(y)
    BY <1>1, KeptFields
<1>3. cxt'[c] = y /\ es \subseteq happened'
    BY <1>2, BecomeFacts
<1>4. y.enabled = cxt[c].enabled \/ held[c] = Nothing
    BY <1>3 DEF Guarded, Calm
<1>5. Follows(cxt[c], y)
    <2>1. Restorable(cxt[c]) => Shows(y) = Shows(cxt[c]) /\ Restorable(y)
        BY DEF Shows, Restorable
    <2> QED
        BY <1>1, <2>1, FollowsNothing DEF Valid
<1>6. Counted(c)'
    BY <1>1, <1>3, <1>4 DEF Counted, Valid
<1> QED
    BY <1>1, <1>3, <1>5, <1>6 DEF Tallies, Others

LEMMA LeaveLoopTallies ==
    ASSUME BaseInv, SectionsInv, Calm, happened \subseteq happened', NEW c \in Ctxs, LeaveLoop(c)
    PROVE  Tallies(c) /\ Others(c)
<1> DEFINE y == [cxt[c] EXCEPT !.running = FALSE]
<1>1. Live(c) /\ cxt[c] \in Cxts
    BY DEF LeaveLoop, BaseInv, TypeOK
<1>2. /\ y \in Cxts /\ y.id = cxt[c].id /\ y.ordinal = cxt[c].ordinal /\ y.trace = cxt[c].trace
      /\ y.parent = cxt[c].parent /\ y.written = cxt[c].written /\ y.enabled = cxt[c].enabled
      /\ y.restore = cxt[c].restore /\ y.sections = cxt[c].sections /\ y.running = FALSE
    BY <1>1 DEF Cxts
<1>3. /\ BecomeAfter(c, y, {}) /\ {} \subseteq Rare
      /\ UNCHANGED <<state, held, disk, lost, nextId, garbled, unmarked>>
    BY DEF LeaveLoop, Become
<1> HIDE DEF y
<1> QED
    BY <1>1, <1>2, <1>3, FlagsTallies

LEMMA DisableTallies ==
    ASSUME BaseInv, SectionsInv, Calm, happened \subseteq happened', NEW c \in Ctxs, Disable(c)
    PROVE  Tallies(c) /\ Others(c)
<1> DEFINE y == [cxt[c] EXCEPT !.enabled = FALSE, !.running = FALSE]
<1>1. Live(c) /\ cxt[c] \in Cxts
    BY DEF Disable, BaseInv, TypeOK
<1>2. /\ y \in Cxts /\ y.id = cxt[c].id /\ y.ordinal = cxt[c].ordinal /\ y.trace = cxt[c].trace
      /\ y.parent = cxt[c].parent /\ y.written = cxt[c].written /\ y.enabled = FALSE
      /\ y.restore = cxt[c].restore /\ y.sections = cxt[c].sections /\ y.running = FALSE
    BY <1>1 DEF Cxts
<1>3. /\ BecomeAfter(c, y, Guarded(c)) /\ Guarded(c) \subseteq Rare
      /\ UNCHANGED <<state, held, disk, lost, nextId, garbled, unmarked>>
    BY GuardedIsRare DEF Disable
<1> HIDE DEF y
<1> QED
    BY <1>1, <1>2, <1>3, FlagsTallies

LEMMA EnableTallies ==
    ASSUME BaseInv, SectionsInv, Calm, happened \subseteq happened', NEW c \in Ctxs, Enable(c)
    PROVE  Tallies(c) /\ Others(c)
<1>1. Live(c) /\ Fine(cxt[c]) /\ Counted(c)
    BY CalmFacts DEF Enable, Alive, Owns, Live
<1>2. UNCHANGED <<state, held, disk, lost, garbled, unmarked>> /\ Guarded(c) \subseteq Rare
    BY GuardedIsRare DEF Enable
<1>3. CASE Valid(cxt[c])
    <2> DEFINE y == [cxt[c] EXCEPT !.enabled = TRUE]
    <2>1. /\ y \in Cxts /\ y.id = cxt[c].id /\ y.ordinal = cxt[c].ordinal
          /\ y.trace = cxt[c].trace /\ y.parent = cxt[c].parent /\ y.written = cxt[c].written
          /\ y.restore = cxt[c].restore /\ y.sections = cxt[c].sections
          /\ y.running = cxt[c].running
        BY <1>1 DEF Fine, Cxts
    <2>2. BecomeAfter(c, y, Guarded(c)) /\ nextId' = nextId
        BY <1>3 DEF Enable
    <2> HIDE DEF y
    <2> QED
        BY <1>1, <1>2, <1>3, <2>1, <2>2, FlagsTallies
<1>4. CASE ~Valid(cxt[c])
    <2> DEFINE z == Restart(cxt[c], nextId)
               y == [z EXCEPT !.enabled = TRUE]
    <2>1. BecomeAfter(c, y, Guarded(c)) /\ MayBegin
        BY <1>4 DEF Enable
    <2>2. nextId \in 1 .. MaxIds
        BY <2>1, MayBeginFacts
    <2>3. Fine(z) /\ Begun(cxt[c], z, nextId)
        BY <1>1, <1>4, <2>2, BeginFacts DEF Restart
    <2>4. z.sections = cxt[c].sections /\ z.running = cxt[c].running
        BY <1>1 DEF Restart, Descend, Fine, Cxts
    <2> HIDE DEF z
    <2>5. /\ y \in Cxts /\ y.id = z.id /\ y.ordinal = z.ordinal /\ y.parent = z.parent
          /\ y.written = z.written /\ y.trace = z.trace /\ y.sections = z.sections
          /\ y.running = z.running /\ y.enabled = TRUE
        BY <2>3 DEF Fine, Cxts
    <2> HIDE DEF y
    <2>6. Fine(y) /\ ~Valid(y) /\ y.id = nextId
        BY <2>3, <2>5 DEF Fine, Begun, Valid, Ref
    <2>7. cxt'[c] = y /\ Guarded(c) \subseteq happened'
        BY <1>2, <2>1, <2>6, BecomeFacts
    <2>8. held[c] = Nothing
        BY <2>7 DEF Guarded, Calm
    <2>9. y.sections = Nothing
        BY <1>1, <2>4, <2>5, <2>8 DEF Counted
    <2>10. Counted(c)'
        BY <1>1, <1>2, <1>4, <2>4, <2>5, <2>6, <2>7, <2>8, <2>9 DEF Counted
    <2>11. Shows(y) = Unread /\ Restorable(y)
        BY <2>9 DEF Shows, Unread, Reading, Restorable, Nothing
    <2>12. <<>> \in Seq(Records) /\ ReadRecords(Unread, <<>>) = Unread
        BY UnreadState, ReadNone
    <2>13. Introduces(c)
        BY <2>6, <2>7, <2>11, <2>12 DEF Introduces
    <2> QED
        BY <1>2, <2>10, <2>13 DEF Tallies, Others
<1> QED
    BY <1>3, <1>4

LEMMA StopTallies ==
    ASSUME BaseInv, SectionsInv, Calm, happened \subseteq happened', NEW c \in Ctxs, Stop(c)
    PROVE  Tallies(c) /\ Others(c)
<1> DEFINE z == Closed(cxt[c])
           y == [z EXCEPT !.enabled = FALSE, !.running = FALSE, !.sections = Nothing]
<1>1. Live(c) /\ Owns(c) /\ Fine(cxt[c]) /\ Counted(c)
    BY CalmFacts DEF Stop, Alive, Owns, Live
<1>2. /\ BecomeAfter(c, y, Guarded(c)) /\ Guarded(c) \subseteq Rare
      /\ UNCHANGED <<state, held, lost, nextId, garbled, unmarked>>
    BY GuardedIsRare DEF Stop
<1>3. Fine(z) /\ z.id = cxt[c].id /\ ~Valid(z) /\ Alike(cxt[c], z)
    BY <1>1, ClosedExactly
<1> HIDE DEF z
<1>4. /\ y \in Cxts /\ y.id = z.id /\ y.ordinal = z.ordinal /\ y.parent = z.parent
      /\ y.written = z.written /\ y.trace = z.trace /\ y.enabled = FALSE /\ y.running = FALSE
      /\ y.sections = Nothing /\ y.restore = z.restore
    BY <1>3 DEF Fine, Cxts, Nothing
<1> HIDE DEF y
<1>5. Fine(y) /\ ~Valid(y) /\ y.id = cxt[c].id
    BY <1>3, <1>4 DEF Fine, Valid
<1>6. cxt'[c] = y /\ Guarded(c) \subseteq happened'
    BY <1>2, <1>5, BecomeFacts
<1>7. held[c] = Nothing
    BY <1>6 DEF Guarded, Calm
<1>8. cxt[c].sections = Nothing /\ y.restore = cxt[c].restore
    BY <1>1, <1>3, <1>4, <1>7 DEF Counted, Alike
<1>9. Restorable(cxt[c]) => Shows(y) = Shows(cxt[c]) /\ Restorable(y)
    BY <1>4, <1>8 DEF Shows, Restorable
<1>10. Follows(cxt[c], y)
    BY <1>1, <1>5, <1>9, FollowsNothing
<1>11. Counted(c)'
    BY <1>4, <1>5, <1>6 DEF Counted
<1> QED
    BY <1>1, <1>2, <1>6, <1>10, <1>11 DEF Tallies, Others

(* The next file of the stream is opened.                                  *)
LEMMA NextFileTallies ==
    ASSUME NEW x, Fine(x), NEW y, NextFile(x, y)
    PROVE  Follows(x, y) /\ y.ordinal > 0
<1>1. Restorable(x) => Shows(y) = Shows(x) /\ Restorable(y)
    BY DEF NextFile, Alike, Shows, Restorable
<1>2. y.ordinal > 0
    BY BoundsAssumption DEF NextFile, Fine, Cxts
<1> QED
    BY <1>1, <1>2, FollowsNothing DEF NextFile

LEMMA ReopenSucceeds ==
    ASSUME Calm, NEW x, Fine(x), x.ordinal < MaxOrdinal, NEW y \in Reopen(x),
           Unopened(x, y) \subseteq happened'
    PROVE  NextFile(x, y)
<1>1. Opened(x, y) \/ Failed(x, y)
    BY ReopenFacts
<1>2. Valid(y)
    BY <1>1, FailedShows DEF Calm, Opened
<1> QED
    BY <1>2, ReopenExactly

LEMMA RotateTallies ==
    ASSUME BaseInv, SectionsInv, Calm, happened \subseteq happened', NEW c \in Ctxs, Rotate(c)
    PROVE  Tallies(c) /\ Others(c)
<1>1. Live(c) /\ Owns(c) /\ Fine(cxt[c]) /\ Counted(c)
    BY CalmFacts DEF Rotate, Alive, Owns, Live
<1>2. PICK y \in Reopen(cxt[c]), es \in SUBSET Rare : BecomeAfter(c, y, es)
    <2>1. {} \in SUBSET Rare
        OBVIOUS
    <2> QED
        BY <2>1 DEF Rotate, Become
<1>3. /\ cxt[c].ordinal < MaxOrdinal /\ Valid(cxt[c])
      /\ UNCHANGED <<state, held, lost, nextId, garbled, unmarked>>
    BY DEF Rotate, MayFollow
<1>4. Fine(y)
    BY <1>1, <1>3, ReopenFacts
<1>5. cxt'[c] = y /\ Unopened(cxt[c], y) \subseteq happened'
    BY <1>2, <1>4, BecomeFacts
<1>6. NextFile(cxt[c], y)
    BY <1>1, <1>3, <1>5, ReopenSucceeds
<1>7. Follows(cxt[c], y) /\ y.ordinal > 0
    BY <1>1, <1>6, NextFileTallies
<1>8. Counted(c)'
    BY <1>1, <1>3, <1>5, <1>6, <1>7 DEF Counted, NextFile, Alike
<1> QED
    BY <1>1, <1>3, <1>5, <1>7, <1>8 DEF Tallies, Others

LEMMA SaveEvalTallies ==
    ASSUME BaseInv, SectionsInv, Calm, happened \subseteq happened', NEW c \in Ctxs, SaveEval(c)
    PROVE  Tallies(c) /\ Others(c)
<1> DEFINE x == cxt[c]
           rec == <<"eval">>
           z(y) == IF Valid(y) THEN Write(y, <<rec>>) ELSE y
           es == IF x.enabled THEN {"evals"} ELSE {"always"}
<1>1. /\ Owns(c) /\ Fine(x) /\ Counted(c) /\ (Valid(x) \/ x.ordinal < MaxOrdinal)
      /\ UNCHANGED <<state, held, disk, lost, nextId, garbled, unmarked>>
    BY CalmFacts DEF SaveEval, Alive, Owns, Live, MayOpen, MayFollow
<1>2. PICK y \in CreateTrace(x) : BecomeAfter(c, z(y), es)
    BY DEF SaveEval
<1>3. rec \in Records /\ <<rec>> \in Seq(Records) /\ es \subseteq Rare
    BY DEF Records, Rare
<1>4. Fine(y)
    BY <1>1, CreateFacts
<1>5. /\ Fine(z(y)) /\ (Valid(z(y)) <=> Valid(y)) /\ z(y).id = y.id
      /\ z(y).ordinal = y.ordinal
    BY <1>3, <1>4, WriteFacts DEF Kept, SameStream
<1> DEFINE v == z(y)
<1>6. BecomeAfter(c, v, es) /\ Fine(v) /\ (Valid(v) <=> Valid(y)) /\ v.id = y.id
      /\ v.ordinal = y.ordinal
    BY <1>2, <1>5
<1>7. v = IF Valid(y) THEN Write(y, <<rec>>) ELSE y
    OBVIOUS
<1> HIDE DEF v, es, z, rec
<1>8. cxt'[c] = v /\ Unopened(cxt[c], v) \subseteq happened'
    BY <1>3, <1>6, BecomeFacts
<1>9. Valid(y)
    BY <1>1, <1>6, <1>8, CreateSucceeds
<1>10. /\ Follows(x, y) /\ ~y.restore /\ y.ordinal > 0 /\ y.enabled = x.enabled
       /\ y.running = x.running /\ y.sections = x.sections
    BY <1>1, <1>9, CreateExactly DEF Counted
<1>11. v.trace.records = y.trace.records \o <<rec>> /\ Alike(y, v)
    BY <1>3, <1>4, <1>7, <1>9 DEF Write, Fine, Cxts, Traces, Alike
<1>12. ReadRecord(Shows(y), rec) = Shows(v)
    BY <1>11 DEF rec, Alike, Shows, ReadRecord
<1>13. Follows(x, v)
    BY <1>1, <1>3, <1>4, <1>6, <1>9, <1>10, <1>11, <1>12, FollowsRecord DEF Alike
<1>14. Counted(c)'
    BY <1>1, <1>6, <1>8, <1>9, <1>10, <1>11 DEF Counted, Alike
<1> QED
    BY <1>1, <1>8, <1>13, <1>14 DEF Tallies, Others

(* A marker is written, and the program's section is as deep as noted.     *)
LEMMA RecordTallies ==
    ASSUME BaseInv, SectionsInv, Calm, happened \subseteq happened', NEW c \in Ctxs, Live(c),
           NEW s \in Sections, NEW k, NEW depth \in Nat, Record(c, <<k, s>>, depth),
           cxt[c].enabled, held' = [held EXCEPT ![c][s] = depth],
           \/ k = "start" /\ depth = held[c][s] + 1
           \/ k = "end" /\ held[c][s] > 0 /\ depth = held[c][s] - 1,
           UNCHANGED <<state, disk, lost, nextId, garbled, unmarked>>
    PROVE  Tallies(c) /\ Others(c)
<1> DEFINE x == cxt[c]
           rec == <<k, s>>
           w(y) == IF Valid(y) THEN Write(y, <<rec>>) ELSE y
           z(y) == [w(y) EXCEPT !.sections[rec[2]] = depth]
<1>1. Owns(c) /\ Fine(x) /\ Counted(c) /\ (Valid(x) \/ x.ordinal < MaxOrdinal)
    BY CalmFacts DEF Alive, Owns, Live, Record, MayOpen, MayFollow
<1>2. PICK y \in CreateTrace(x) : BecomeAfter(c, z(y), {})
    BY DEF Record, Become
<1>3. rec \in Records /\ <<rec>> \in Seq(Records) /\ rec[1] = k /\ rec[2] = s
    BY DEF Records
<1>4. Fine(y)
    BY <1>1, CreateFacts
<1>5. /\ Fine(w(y)) /\ (Valid(w(y)) <=> Valid(y)) /\ w(y).id = y.id
      /\ w(y).ordinal = y.ordinal
    BY <1>3, <1>4, WriteFacts DEF Kept, SameStream
<1>6. PICK u : u = w(y)
    OBVIOUS
<1>7. PICK v : v = [u EXCEPT !.sections[s] = depth] /\ BecomeAfter(c, v, {})
    BY <1>2, <1>3, <1>6
<1>8. /\ Fine(u) /\ (Valid(u) <=> Valid(y)) /\ u.id = y.id /\ u.ordinal = y.ordinal
      /\ u = IF Valid(y) THEN Write(y, <<rec>>) ELSE y
    BY <1>5, <1>6
<1> HIDE DEF z, w, rec
<1>9. /\ v \in Cxts /\ v.id = u.id /\ v.ordinal = u.ordinal /\ v.trace = u.trace
      /\ v.parent = u.parent /\ v.written = u.written /\ v.enabled = u.enabled
      /\ v.running = u.running /\ v.restore = u.restore
      /\ v.sections = [u.sections EXCEPT ![s] = depth]
    BY <1>7, <1>8 DEF Fine, Cxts
<1>10. Fine(v) /\ (Valid(v) <=> Valid(y)) /\ v.id = y.id /\ v.ordinal = y.ordinal
    BY <1>8, <1>9, KeptFields DEF Valid
<1>11. PICK es \in SUBSET Rare : BecomeAfter(c, v, es)
    <2>1. {} \in SUBSET Rare
        OBVIOUS
    <2> QED
        BY <1>7, <2>1
<1>12. cxt'[c] = v /\ Unopened(cxt[c], v) \subseteq happened'
    BY <1>10, <1>11, BecomeFacts
<1>13. Valid(y)
    BY <1>1, <1>10, <1>12, CreateSucceeds
<1>14. /\ Follows(x, y) /\ ~y.restore /\ y.ordinal > 0 /\ y.enabled = x.enabled
       /\ y.running = x.running /\ y.sections = x.sections
    BY <1>1, <1>13, CreateExactly DEF Counted
<1>15. u.trace.records = y.trace.records \o <<rec>> /\ Alike(y, u)
    BY <1>3, <1>4, <1>8, <1>13 DEF Write, Fine, Cxts, Traces, Alike
<1>16. x.sections = held[c] /\ x.sections \in [Sections -> Nat]
    BY <1>1, ShownState DEF Counted
<1>17. v.sections = [held[c] EXCEPT ![s] = depth] /\ ~v.restore
    BY <1>9, <1>14, <1>15, <1>16 DEF Alike
<1>18. ReadRecord(Shows(y), rec) = Shows(v)
    <2>1. Shows(y) = Reading(held[c]) /\ Shows(v) = Reading([held[c] EXCEPT ![s] = depth])
        BY <1>14, <1>16, <1>17 DEF Shows
    <2>2. held[c] \in [Sections -> Nat]
        BY <1>16
    <2>3. PICK f : f = held[c]
        OBVIOUS
    <2>4. ReadRecord(Reading(f), rec) = Reading([f EXCEPT ![s] = depth])
        <3>1. CASE k = "start" /\ depth = f[s] + 1
            BY <2>2, <2>3, <3>1, ReadingRecord DEF rec
        <3>2. CASE k = "end" /\ f[s] > 0 /\ depth = f[s] - 1
            BY <2>2, <2>3, <3>2, ReadingRecord DEF rec
        <3> QED
            BY <2>3, <3>1, <3>2
    <2> QED
        BY <2>1, <2>3, <2>4
<1>19. Follows(x, v)
    BY SMTT(60), <1>1, <1>3, <1>4, <1>9, <1>10, <1>13, <1>14, <1>15, <1>17, <1>18, FollowsRecord
<1>20. held'[c] = [held[c] EXCEPT ![s] = depth] /\ \A e \in Ctxs \ {c} : held'[e] = held[e]
    BY DEF BaseInv, TypeOK
<1>21. Counted(c)'
    BY <1>9, <1>10, <1>12, <1>13, <1>14, <1>15, <1>17, <1>20 DEF Counted, Alike
<1> QED
    BY <1>1, <1>12, <1>19, <1>20, <1>21 DEF Tallies, Others

LEMMA SectionTallies ==
    ASSUME BaseInv, SectionsInv, Calm, happened \subseteq happened', NEW c \in Ctxs,
           NEW s \in Sections, StartSection(c, s) \/ EndSection(c, s), cxt[c].enabled
    PROVE  Tallies(c) /\ Others(c)
<1>1. Live(c) /\ UNCHANGED <<state, disk, lost, nextId, garbled, unmarked>>
    BY DEF StartSection, EndSection
<1>2. cxt[c].sections = held[c] /\ held[c][s] \in Nat
    BY <1>1, CalmFacts DEF Counted, Alive, Owns, Live, BaseInv, TypeOK
<1>3. CASE StartSection(c, s)
    <2>1. PICK n : n = held[c][s] + 1
        OBVIOUS
    <2>2. Record(c, <<"start", s>>, n) /\ held' = [held EXCEPT ![c][s] = n]
        BY <1>2, <1>3, <2>1 DEF StartSection
    <2>3. n \in Nat
        BY <1>2, <2>1
    <2> QED
        BY <1>1, <2>1, <2>2, <2>3, RecordTallies
<1>4. CASE EndSection(c, s)
    <2>1. PICK n : n = held[c][s] - 1
        OBVIOUS
    <2>2. held[c][s] > 0 /\ held' = [held EXCEPT ![c][s] = n]
        BY <1>4, <2>1 DEF EndSection
    <2>3. n \in Nat /\ held[c][s] # 0
        BY <1>2, <2>1, <2>2
    <2>4. Record(c, <<"end", s>>, n)
        BY <1>2, <1>4, <2>1, <2>3 DEF EndSection
    <2> QED
        BY <1>1, <2>1, <2>2, <2>3, <2>4, RecordTallies
<1> QED
    BY <1>3, <1>4

LEMMA ForkParentTallies ==
    ASSUME BaseInv, SectionsInv, Calm, happened \subseteq happened', NEW c \in Ctxs, ForkParent(c)
    PROVE  Tallies(c) /\ Others(c)
<1>1. state[c] = "parent" /\ UNCHANGED <<held, lost, nextId, garbled, unmarked>>
    BY DEF ForkParent
<1>2. /\ Owns(c) /\ Fine(cxt[c]) /\ Counted(c) /\ cxt[c].ordinal < MaxOrdinal
    BY <1>1, CalmFacts DEF Alive, Owns, BaseInv, CxtInv
<1>3. CASE Valid(cxt[c]) /\ cxt[c].running
    <2>1. PICK y \in Reopen(cxt[c]), es \in SUBSET Rare : BecomeAfter(c, y, es)
        <3>1. {} \in SUBSET Rare
            OBVIOUS
        <3> QED
            BY <1>3, <3>1 DEF ForkParent, Become
    <2>2. Fine(y)
        BY <1>2, ReopenFacts
    <2>3. cxt'[c] = y /\ Unopened(cxt[c], y) \subseteq happened'
        BY <2>1, <2>2, BecomeFacts
    <2>4. NextFile(cxt[c], y)
        BY <1>2, <2>3, ReopenSucceeds
    <2>5. Follows(cxt[c], y) /\ y.ordinal > 0
        BY <1>2, <2>4, NextFileTallies
    <2>6. Counted(c)'
        BY <1>1, <1>2, <1>3, <2>3, <2>4, <2>5 DEF Counted, NextFile, Alike
    <2> QED
        BY <1>1, <1>2, <2>3, <2>5, <2>6 DEF Tallies, Others
<1>4. CASE ~(Valid(cxt[c]) /\ cxt[c].running)
    <2> DEFINE y == Closed(cxt[c])
    <2>1. PICK es \in SUBSET Rare : BecomeAfter(c, y, es)
        <3>1. BecomeAfter(c, y, {})
            BY <1>4 DEF ForkParent, Become
        <3>2. {} \in SUBSET Rare
            OBVIOUS
        <3> QED
            BY <3>1, <3>2
    <2>2. Fine(y) /\ y.id = cxt[c].id /\ ~Valid(y) /\ Alike(cxt[c], y)
        BY <1>2, ClosedExactly
    <2> HIDE DEF y
    <2>3. cxt'[c] = y
        BY <2>1, <2>2, BecomeFacts
    <2>4. Restorable(cxt[c]) => Shows(y) = Shows(cxt[c]) /\ Restorable(y)
        BY <2>2 DEF Alike, Shows, Restorable
    <2>5. Follows(cxt[c], y)
        BY <1>2, <2>2, <2>4, FollowsNothing
    <2>6. Counted(c)'
        BY <1>1, <1>2, <1>4, <2>2, <2>3 DEF Counted, Alike
    <2> QED
        BY <1>1, <1>2, <2>3, <2>5, <2>6 DEF Tallies, Others
<1> QED
    BY <1>3, <1>4

LEMMA GoneTallies ==
    ASSUME BaseInv, SectionsInv, Calm, happened \subseteq happened', NEW c \in Ctxs,
           Exit(c) \/ Crash(c)
    PROVE  Tallies(c) /\ Others(c)
<1> DEFINE y == Closed(cxt[c])
<1>1. /\ Alive(c) /\ state' = [state EXCEPT ![c] = "gone"]
      /\ BecomeAfter(c, y, {}) /\ UNCHANGED <<held, nextId, garbled, unmarked>>
    BY DEF Exit, Crash, Become, Alive, Owns, Live
<1>2. Fine(cxt[c])
    BY <1>1, CalmFacts
<1>3. Fine(y) /\ y.id = cxt[c].id /\ ~Valid(y) /\ Alike(cxt[c], y)
    BY <1>2, ClosedExactly
<1> HIDE DEF y
<1>4. PICK es \in SUBSET Rare : BecomeAfter(c, y, es)
    <2>1. {} \in SUBSET Rare
        OBVIOUS
    <2> QED
        BY <1>1, <2>1
<1>5. cxt'[c] = y
    BY <1>3, <1>4, BecomeFacts
<1>6. ~Alive(c)' /\ ~Owns(c)'
    BY <1>1 DEF BaseInv, TypeOK, Alive, Owns
<1>7. Restorable(cxt[c]) => Shows(y) = Shows(cxt[c]) /\ Restorable(y)
    BY <1>3 DEF Alike, Shows, Restorable
<1>8. Follows(cxt[c], y)
    BY <1>2, <1>3, <1>7, FollowsNothing
<1> QED
    BY <1>1, <1>3, <1>5, <1>6, <1>8 DEF Tallies, Others

(* What a stream begins with, if no more than its markers say.             *)
LEMMA BeginsMarked ==
    ASSUME NEW y, Fine(y), Valid(y), ~y.restore, NEW w, w.sections = y.sections,
           y.trace.records = Markers(w), y.id \notin Unmarked(y)
    PROVE  ReadRecords(Unread, Markers(w)) = Shows(y) /\ Restorable(y)
<1>1. y.sections \in [Sections -> Nat]
    BY ShownState
<1>2. \A s \in Sections : w.sections[s] <= 1
    <2>1. \A s \in Sections : ~(y.sections[s] > 1)
        BY DEF Unmarked
    <2>2. \A s \in Sections : y.sections[s] \in Nat
        BY <1>1
    <2> QED
        BY <2>1, <2>2
<1>3. ReadRecords(Unread, Markers(w)) = Reading(w.sections)
    BY <1>1, <1>2, ReadMarkers
<1> QED
    BY <1>3 DEF Shows, Restorable

LEMMA BeginsUnmarked ==
    ASSUME NEW y, Fine(y), ~Valid(y), y.id \notin Unmarked(y)
    PROVE  Shows(y) = Unread /\ Restorable(y)
<1>1. y.sections \in [Sections -> Nat] /\ y.restore \in BOOLEAN
    BY ShownState
<1>2. \A s \in Sections : y.sections[s] \in Nat
    BY <1>1
<1>3. CASE y.restore
    <2>1. \A s \in Sections : ~(y.sections[s] > 1)
        BY <1>3 DEF Unmarked
    <2>2. \A s \in Sections : y.sections[s] <= 1
        BY <1>2, <2>1
    <2> QED
        BY <1>3, <2>2 DEF Shows, Restorable, Unread, Reading
<1>4. CASE ~y.restore
    <2>1. \A s \in Sections : ~(y.sections[s] > 0)
        BY <1>4 DEF Unmarked
    <2>2. \A s \in Sections : y.sections[s] = 0
        BY <1>2, <2>1
    <2>3. y.sections = Nothing
        BY <1>1, <2>2 DEF Nothing
    <2> QED
        BY <1>4, <2>3 DEF Shows, Restorable, Unread, Reading
<1> QED
    BY <1>1, <1>3, <1>4

LEMMA ForkChildTallies ==
    ASSUME BaseInv, SectionsInv, Calm, happened \subseteq happened', NEW d \in Ctxs, ForkChild(d)
    PROVE  Tallies(d) /\ Others(d)
<1> DEFINE x == PidChanged(Closed(cxt[d]), nextId)
<1>1. /\ state[d] = "child" /\ MayBegin /\ UNCHANGED held
      /\ unmarked' = unmarked \cup Unmarked(cxt'[d])
      /\ IF IsRunning(cxt[d]) THEN \E y \in Reopen(x) : BecomeAfter(d, RestoreSections(y), {})
         ELSE BecomeAfter(d, x, {})
    BY DEF ForkChild, Become
<1>2. Fine(cxt[d]) /\ Counted(d) /\ nextId \in 1 .. MaxIds /\ cxt[d].ordinal < MaxOrdinal
    BY <1>1, CalmFacts, MayBeginFacts DEF Alive, BaseInv, CxtInv
<1>3. Fine(Closed(cxt[d])) /\ ~Valid(Closed(cxt[d])) /\ Alike(cxt[d], Closed(cxt[d]))
      /\ Closed(cxt[d]).ordinal = cxt[d].ordinal
    BY <1>2, ClosedExactly
<1>4. /\ Fine(x) /\ ~Valid(x) /\ x.id = nextId /\ x.ordinal = 0 /\ Alike(cxt[d], x)
    <2> DEFINE z == Closed(cxt[d])
    <2>1. Fine(x) /\ Begun(z, x, nextId)
        BY <1>2, <1>3, BeginFacts DEF PidChanged
    <2>2. z \in Cxts
        BY <1>3 DEF Fine
    <2> HIDE DEF z
    <2>3. Alike(z, PidChanged(z, nextId))
        BY <2>2 DEF PidChanged, Descend, Cxts, Alike
    <2> QED
        BY <1>3, <2>1, <2>3 DEF z, Begun, Alike
<1>5. 0 < MaxOrdinal
    BY <1>2, BoundsAssumption DEF Fine, Cxts
<1> HIDE DEF x
<1>6. CASE IsRunning(cxt[d])
    <2>1. PICK w \in Reopen(x) : BecomeAfter(d, RestoreSections(w), {})
        BY <1>1, <1>6
    <2>2. Fine(w) /\ (Opened(x, w) \/ Failed(x, w)) /\ w.id = nextId /\ w.ordinal = 1
        BY <1>4, <1>5, <2>1, ReopenFacts DEF Opened, Failed, SameStream
    <2>3. Fine(RestoreSections(w)) /\ Kept(w, RestoreSections(w))
        BY <2>2, RestoreFacts
    <2> DEFINE y == RestoreSections(w)
    <2>4. Fine(y) /\ Kept(w, y) /\ y = RestoreSections(w)
        BY <2>3
    <2>5. PICK es \in SUBSET Rare : BecomeAfter(d, y, es)
        <3>1. {} \in SUBSET Rare /\ BecomeAfter(d, y, {})
            BY <2>1
        <3> QED
            BY <3>1
    <2> HIDE DEF y
    <2>6. cxt'[d] = y /\ Unopened(cxt[d], y) \subseteq happened'
        BY <2>4, <2>5, BecomeFacts
    <2>7. Valid(w)
        <3> SUFFICES ASSUME ~Valid(w)
                     PROVE  FALSE
            OBVIOUS
        <3>1. ~Valid(y) /\ y.id = nextId /\ y.ordinal = 1
            BY <2>2, <2>4 DEF Kept, SameStream
        <3>2. cxt[d].id # nextId
            BY <1>1, FineOf DEF Alive
        <3>3. "openfail" \in Unopened(cxt[d], y)
            BY <3>1, <3>2 DEF Unopened
        <3> QED
            BY <2>6, <3>3 DEF Calm
    <2>8. NextFile(x, w)
        BY <1>4, <1>5, <2>1, <2>7, ReopenExactly
    <2>9. /\ Fine(y) /\ Valid(y) /\ y.id = nextId /\ y.ordinal = 1 /\ Alike(cxt[d], y)
          /\ y.trace.records = Markers(w) /\ w.sections = y.sections
        <3>1. /\ Fine(y) /\ Valid(y) /\ y.id = w.id /\ y.ordinal = w.ordinal /\ Alike(w, y)
              /\ y.trace.records = Markers(w)
            BY <2>2, <2>4, <2>7, <2>8, RestoreExactly DEF NextFile
        <3> QED
            BY <1>4, <2>2, <2>8, <3>1 DEF NextFile, Alike
    <2>10. ~cxt[d].restore /\ ~y.restore
        BY <1>2, <1>6, <2>9 DEF IsRunning, Counted, Alike
    <2>11. Counted(d)'
        BY <1>1, <1>2, <2>6, <2>9, <2>10 DEF Counted, Alike
    <2>12. Markers(w) \in Seq(Records)
        BY MarkersAre
    <2>13. nextId \notin unmarked' =>
              ReadRecords(Unread, Markers(w)) = Shows(y) /\ Restorable(y)
        BY <1>1, <2>6, <2>9, <2>10, BeginsMarked
    <2>14. Introduces(d)
        BY <2>6, <2>9, <2>12, <2>13 DEF Introduces
    <2> QED
        BY <1>1, <2>11, <2>14 DEF Tallies, Others
<1>7. CASE ~IsRunning(cxt[d])
    <2>1. PICK es \in SUBSET Rare : BecomeAfter(d, x, es)
        <3>1. {} \in SUBSET Rare
            OBVIOUS
        <3> QED
            BY <1>1, <1>7, <3>1
    <2>2. cxt'[d] = x
        BY <1>4, <2>1, BecomeFacts
    <2>3. Counted(d)'
        BY <1>1, <1>2, <1>4, <1>7, <2>2 DEF Counted, Alike, IsRunning
    <2>4. <<>> \in Seq(Records) /\ ReadRecords(Unread, <<>>) = Unread
        BY UnreadState, ReadNone
    <2>5. nextId \notin unmarked' => Shows(x) = Unread /\ Restorable(x)
        BY <1>1, <1>4, <2>2, BeginsUnmarked
    <2>6. Introduces(d)
        BY <1>4, <2>2, <2>4, <2>5 DEF Introduces
    <2> QED
        BY <1>1, <2>3, <2>6 DEF Tallies, Others
<1> QED
    BY <1>6, <1>7

LEMMA ForkTallies ==
    ASSUME BaseInv, BaseInv', SectionsInv, Calm, happened \subseteq happened',
           NEW c \in Ctxs, NEW d \in Ctxs \ {c}, Fork(c, d)
    PROVE  /\ Tallies(c) /\ Adopts(d) /\ unmarked \subseteq unmarked'
           /\ \A e \in Ctxs \ {c, d} : held'[e] = held[e]
<1> DEFINE x == cxt[c]
           y == Flushed(x)
<1>1. /\ Live(c) /\ Owns(c) /\ Fine(x) /\ Counted(c)
      /\ state' = [state EXCEPT ![c] = "parent", ![d] = "child"]
      /\ cxt' = [cxt EXCEPT ![c] = y, ![d] = y]
      /\ held' = [held EXCEPT ![d] = held[c]] /\ unmarked' = unmarked
    BY CalmFacts DEF Fork, Live, Alive, Owns
<1>2. /\ cxt'[c] = y /\ cxt'[d] = y /\ state'[d] = "child" /\ held'[d] = held[c]
      /\ held'[c] = held[c] /\ \A e \in Ctxs \ {c, d} : held'[e] = held[e]
    BY <1>1 DEF BaseInv, TypeOK
<1>3. x \in Cxts /\ x.trace \in Traces
    BY <1>1 DEF Fine, Cxts
<1>4. /\ y.id = x.id /\ y.ordinal = x.ordinal /\ y.trace.records = x.trace.records
      /\ Alike(x, y)
    BY <1>3 DEF Flushed, Cxts, Traces, Alike
<1>5. Valid(y) <=> Valid(x)
    <2>1. Kept(x, y)
        <3>1. Pair(c, d)
            BY ForkPair
        <3>2. Forked(c, d)
            BY <1>2, <3>1 DEF Pair, Cloned
        <3> QED
            BY <1>2, <3>2 DEF Forked, Keeps
    <2> QED
        BY <2>1 DEF Kept
<1> HIDE DEF y
<1>6. Restorable(x) => Shows(y) = Shows(x) /\ Restorable(y)
    BY <1>4 DEF Alike, Shows, Restorable
<1>7. Follows(x, y)
    BY <1>1, <1>4, <1>5, <1>6, FollowsNothing
<1>8. Counted(c)' /\ Counted(d)'
    BY <1>1, <1>2, <1>4, <1>5 DEF Counted, Alike
<1>9. ~Owns(d)'
    BY <1>2 DEF Owns
<1> QED
    BY <1>1, <1>2, <1>7, <1>8, <1>9 DEF Tallies, Adopts

LEMMA CloneTallies ==
    ASSUME BaseInv, SectionsInv, Calm, happened \subseteq happened',
           NEW c \in Ctxs, NEW d \in Ctxs \ {c}, CloneThread(c, d)
    PROVE  /\ Tallies(c) /\ Adopts(d) /\ unmarked \subseteq unmarked'
           /\ \A e \in Ctxs \ {c, d} : held'[e] = held[e]
<1> DEFINE x == cxt[c]
           z == Clone(x, nextId)
           es == IF x.written THEN {} ELSE {"early"}
<1>1. /\ Live(c) /\ Owns(c) /\ Fine(x) /\ Counted(c) /\ MayBegin
      /\ Valid(x) => x.ordinal < MaxOrdinal
      /\ held' = [held EXCEPT ![d] = held[c]] /\ unmarked' = unmarked \cup Unmarked(cxt'[d])
    BY CalmFacts DEF CloneThread, Live, Alive, Owns, MayFollow
<1>2. PICK y \in (IF Valid(x) THEN Reopen(x) ELSE {x}) :
         /\ cxt' = [cxt EXCEPT ![c] = y, ![d] = z]
         /\ happened' = happened \cup es \cup Unopened(x, y)
    <2> HIDE DEF es, z
    <2> QED
        BY DEF CloneThread, es, z
<1>3. /\ held'[d] = held[c] /\ held'[c] = held[c] /\ cxt'[c] = y /\ cxt'[d] = z
      /\ \A e \in Ctxs \ {c, d} : held'[e] = held[e]
    <2> HIDE DEF z
    <2> QED
        BY <1>1, <1>2 DEF BaseInv, TypeOK
<1>4. z.id = nextId /\ z.enabled = x.enabled
    BY DEF Clone, NewCxt
<1>5. Follows(x, y) /\ Counted(c)'
    <2>1. CASE Valid(x)
        <3>1. NextFile(x, y)
            BY <1>1, <1>2, <2>1, ReopenSucceeds
        <3>2. Follows(x, y) /\ y.ordinal > 0
            BY <1>1, <3>1, NextFileTallies
        <3> QED
            BY <1>1, <1>3, <2>1, <3>1, <3>2 DEF Counted, NextFile, Alike
    <2>2. CASE ~Valid(x)
        <3>1. y = x
            BY <1>2, <2>2
        <3>2. Follows(x, x)
            BY <1>1, FollowsNothing
        <3> QED
            BY <1>1, <1>3, <3>1, <3>2 DEF Counted
    <2> QED
        BY <2>1, <2>2
<1>6. /\ z.running = FALSE /\ z.restore = TRUE
      /\ z.sections = x.sections /\ z.trace = NoTrace
    BY DEF Clone, NewCxt
<1> HIDE DEF z, es
<1>7. Counted(d)'
    BY <1>1, <1>3, <1>4, <1>6 DEF Counted, Valid
<1>8. Shows(z) = Unread
    BY <1>6 DEF Shows, Reading, Unread
<1>9. nextId \notin unmarked' => Restorable(z)
    <2>1. \A s \in Sections : z.sections[s] \in Nat
        BY <1>1, <1>6, ShownState
    <2>2. nextId \notin unmarked' => \A s \in Sections : ~(z.sections[s] > 1)
        BY <1>1, <1>3, <1>4, <1>6 DEF Unmarked
    <2> QED
        BY <2>1, <2>2 DEF Restorable
<1>10. Adopts(d)
    BY <1>3, <1>4, <1>6, <1>7, <1>8, <1>9 DEF Adopts, Valid
<1> QED
    BY <1>1, <1>3, <1>5, <1>10 DEF Tallies

LEMMA IdleSections ==
    ASSUME SectionsInv, Idle,
           \A c \in Ctxs : Alive(c) /\ cxt[c].enabled => held'[c] = held[c]
    PROVE  SectionsInv'
<1>1. /\ state' = state /\ cxt' = cxt /\ disk' = disk /\ lost' = lost /\ nextId' = nextId
      /\ happened' = happened /\ unmarked' = unmarked
    BY DEF Idle
<1>2. Files' = Files
    BY <1>1 DEF Files, OpenFiles
<1>3. \A i : ReadStream(i)' = ReadStream(i)
    BY <1>2 DEF ReadStream, RecordsOf
<1>4. ASSUME NEW c \in Ctxs
      PROVE  /\ Alive(c)' <=> Alive(c)
             /\ Owns(c)' <=> Owns(c)
             /\ Alive(c) /\ Counted(c) => Counted(c)'
    BY <1>1 DEF Alive, Owns, Counted
<1>5. ASSUME NEW c \in Ctxs, Marked(c)
      PROVE  Marked(c)'
    <2>1. PICK i : i = cxt[c].id
        OBVIOUS
    <2>2. ReadStream(i) = Shows(cxt'[c]) /\ Restorable(cxt'[c]) /\ cxt'[c].id = i
        BY <1>1, <1>5, <2>1 DEF Marked, Shows, Reading, Restorable
    <2>3. ReadStream(i)' = ReadStream(i)
        BY <1>3
    <2> QED
        BY <2>2, <2>3, MarkedIs
<1> QED
    BY <1>1, <1>3, <1>4, <1>5 DEF SectionsInv

LEMMA InitSections == Init /\ BaseInv => SectionsInv
<1> SUFFICES ASSUME Init, BaseInv
             PROVE  SectionsInv
    OBVIOUS
<1>1. PICK c \in Ctxs, on \in BOOLEAN :
         /\ state = [d \in Ctxs |-> IF d = c THEN "live" ELSE "none"]
         /\ cxt = [d \in Ctxs |-> IF d = c THEN [NewCxt(1) EXCEPT !.enabled = on] ELSE NewCxt(0)]
         /\ held = [d \in Ctxs |-> Nothing] /\ disk = {} /\ lost = {}
    BY DEF Init
<1>2. /\ cxt[c] = [NewCxt(1) EXCEPT !.enabled = on] /\ held[c] = Nothing
      /\ \A d \in Ctxs : Alive(d) => d = c
    BY <1>1 DEF Alive, Owns
<1>3. /\ cxt[c].trace = NoTrace /\ cxt[c].sections = Nothing /\ cxt[c].restore = FALSE
      /\ cxt[c].running = FALSE
    BY <1>2 DEF NewCxt, Nothing
<1>4. Files = {}
    <2>1. \A d \in Ctxs : state[d] \in {"live", "parent"} => Finished(cxt[d], FALSE) = {}
        BY <1>2, <1>3 DEF Finished, Valid, Alive, Owns
    <2> QED
        BY <1>1, <2>1 DEF Files, OpenFiles
<1>5. \A i, n : RecordsOf(Refer(i, n)) = <<>>
    BY <1>4 DEF RecordsOf
<1>6. ASSUME NEW i
      PROVE  ReadStream(i) = Unread
    BY <1>5, StreamEmpty
<1>7. Counted(c) /\ Marked(c)
    BY <1>2, <1>3, <1>6 DEF Counted, Marked, Valid, Unread
<1> QED
    BY <1>2, <1>6, <1>7 DEF SectionsInv, Unread, Alive

LEMMA HappenedGrows ==
    ASSUME BaseInv, Next
    PROVE  happened \subseteq happened'
BY NextTurns DEF Step, Pair, Idle

LEMMA NextSections ==
    ASSUME BaseInv, BaseInv', OwnersInv, OwnersInv', SectionsInv, [Next]_vars
    PROVE  SectionsInv'
<1> SUFFICES ASSUME Calm
             PROVE  SectionsInv'
    BY DEF SectionsInv, Calm
<1>1. CASE UNCHANGED vars
    BY <1>1, IdleSections DEF vars, Idle
<1>2. CASE Next
    <2>1. happened \subseteq happened'
        BY <1>2, HappenedGrows
    <2>2. ASSUME NEW c \in Ctxs, Step(c), Tallies(c) /\ Others(c)
          PROVE  SectionsInv'
        <3>1. \A e \in Ctxs \ {c, c} : Same(e) /\ held'[e] = held[e]
            BY <2>2 DEF Step, Others
        <3>2. Turn(c) /\ unmarked \subseteq unmarked'
            BY <2>2 DEF Step, Others
        <3> QED
            BY <2>1, <2>2, <3>1, <3>2, SectionsStep
    <2>3. ASSUME NEW c \in Ctxs, NEW d \in Ctxs \ {c}, Fork(c, d) \/ CloneThread(c, d)
          PROVE  SectionsInv'
        <3>1. Pair(c, d)
            BY <2>3, ForkPair, ClonePair
        <3>2. /\ Tallies(c) /\ Adopts(d) /\ unmarked \subseteq unmarked'
              /\ \A e \in Ctxs \ {c, d} : held'[e] = held[e]
            BY <2>1, <2>3, ForkTallies, CloneTallies
        <3>3. \A e \in Ctxs \ {c, d} : Same(e) /\ held'[e] = held[e]
            BY <3>1, <3>2 DEF Pair
        <3>4. Turn(c) /\ (Forked(c, d) \/ Cloned(c, d))
            BY <3>1 DEF Pair
        <3> QED
            BY <2>1, <3>2, <3>3, <3>4, SectionsStep
    <2>4. ASSUME NEW c \in Ctxs, NEW s \in Sections, StartSection(c, s) \/ EndSection(c, s)
          PROVE  SectionsInv'
        <3>1. CASE cxt[c].enabled
            <4>1. Tallies(c) /\ Others(c)
                BY <2>1, <2>4, <3>1, SectionTallies
            <4>2. Step(c)
                BY <2>4, <3>1, SectionTurn
            <4> QED
                BY <2>2, <4>1, <4>2
        <3>2. CASE ~cxt[c].enabled
            <4>1. Idle /\ \A e \in Ctxs \ {c} : held'[e] = held[e]
                BY <2>4, <3>2 DEF StartSection, EndSection, Record, Idle, BaseInv, TypeOK
            <4> QED
                BY <3>2, <4>1, IdleSections
        <3> QED
            BY <3>1, <3>2
    <2>5. ASSUME NEW c \in Ctxs,
                 \/ EnterLoop(c) \/ LeaveLoop(c) \/ Enable(c) \/ Disable(c) \/ Stop(c)
                 \/ Rotate(c) \/ SaveEval(c) \/ ForkParent(c) \/ ForkChild(c)
                 \/ Exit(c) \/ Crash(c)
          PROVE  SectionsInv'
        <3>1. Step(c)
            BY <2>5, EnterLoopTurn, LeaveLoopTurn, EnableTurn, DisableTurn, StopTurn, RotateTurn,
               SaveEvalTurn, ForkParentTurn, ForkChildTurn, GoneTurn
        <3>2. Tallies(c) /\ Others(c)
            BY <2>1, <2>5, EnterLoopTallies, LeaveLoopTallies, EnableTallies, DisableTallies,
               StopTallies, RotateTallies, SaveEvalTallies, ForkParentTallies, ForkChildTallies,
               GoneTallies
        <3> QED
            BY <2>2, <3>1, <3>2
    <2>6. ASSUME NEW c \in Ctxs, ForkChildCroaks(c)
          PROVE  SectionsInv'
        <3>1. "nothread" \in happened'
            BY <2>6 DEF ForkChildCroaks, BecomeAfter
        <3> QED
            BY <3>1 DEF Calm
    <2> QED
        BY <1>2, <2>3, <2>4, <2>5, <2>6 DEF Next
<1> QED
    BY <1>1, <1>2

LEMMA SectionsInvariant == Spec => []SectionsInv
<1>1. BaseInv /\ BaseInv' /\ OwnersInv /\ OwnersInv' /\ SectionsInv /\ [Next]_vars => SectionsInv'
    BY NextSections
<1>2. Init => SectionsInv
    BY InitBase, InitSections
<1> QED
    BY <1>1, <1>2, BaseInvariant, OwnersInvariant, PTL DEF Spec

-----------------------------------------------------------------------------
(* Whatever a profiled program does, its contexts, files and bookkeeping   *)
(* keep their types: ids and ordinals stay inside their bounds over every  *)
(* fork, clone, restart, rotation and crash.                               *)
THEOREM TypeCorrect == Spec => []TypeOK
<1>1. BaseInv => TypeOK
    BY DEF BaseInv
<1> QED
    BY <1>1, BaseInvariant, PTL

(* A child that shuts the trace it got from its parent has nothing to      *)
(* flush: prepare_fork() left no records in the buffer fork() copied, and  *)
(* nothing was written between the two handlers.                           *)
THEOREM ForkChildrenShutQuietly == Spec => []ChildShutsQuietly
<1>1. BaseInv => ChildShutsQuietly
    BY DEF BaseInv
<1> QED
    BY <1>1, BaseInvariant, PTL

(* No two contexts ever write the same file and no file is overwritten by  *)
(* a later one, for any number of processes and ithreads, unless a child   *)
(* croaked before it had an id of its own.                                 *)
THEOREM FilesHaveOneWriter == Spec => []OneWriter
BY BaseInvariant, OwnersInvariant, OwnersSuffice, PTL

(* The parent that a stream's header will name is always the last file the *)
(* context, or the one it was forked or cloned from, opened.               *)
THEOREM GenealogyIsComplete == Spec => []LineageKept
<1>1. LineInv => LineageKept
    BY DEF LineInv, LineageKept, Live, Alive, Owns
<1> QED
    BY <1>1, LineInvariant, PTL

(* The files a profiled program leaves behind evolve as TraceStream        *)
(* promises to the readers: no gaps, nothing after the end of a stream,    *)
(* nothing written to a file that another stream depends on.               *)
THEOREM StreamsImplemented == Spec => ImplementsStream
<1>1. BaseInv /\ BaseInv' /\ OwnersInv /\ OwnersInv' /\ ChainInv /\ ChainInv' /\ FilesOK
      /\ FilesOK' /\ ("nothread" \notin happened => ShownOK)
      /\ ("nothread" \notin happened => ShownOK)'
      /\ (happened \subseteq {"guards", "evals"} => ParentsOK)' /\ [Next]_vars
      => [happened' \subseteq {"guards", "evals"} => Stream!Next]_StreamFiles
    BY NextStream
<1>2. BaseInv /\ OwnersInv => ("nothread" \notin happened => ShownOK)
    BY Shown
<1>3. BaseInv /\ OwnersInv /\ ChainInv => (happened \subseteq {"guards", "evals"} => ParentsOK)
    BY ParentsShown
<1> QED
    BY <1>1, <1>2, <1>3, InitStream, FilesFacts, BaseInvariant, OwnersInvariant, ChainInvariant, PTL
    DEF Spec, ImplementsStream

(* Streams can be read, and readers find the sections that are open, except *)
(* in the streams that began with too few markers and after the events     *)
(* that SectionsMatched names.                                             *)
THEOREM SectionsAreMatched == Spec => []SectionsMatched
<1>1. BaseInv /\ SectionsInv => SectionsMatched
    <2> SUFFICES ASSUME BaseInv, SectionsInv,
                        happened \cap {"guards", "openfail", "nothread"} = {}
                 PROVE  SectionsMatched
        BY DEF SectionsMatched
    <2>1. ASSUME NEW c \in Ctxs, Live(c), Valid(cxt[c]), cxt[c].id \notin unmarked
          PROVE  ReadStream(cxt[c].id).open = cxt[c].sections
        <3>1. Counted(c) /\ Marked(c)
            BY <2>1 DEF SectionsInv, Live, Alive, Owns
        <3> QED
            BY <2>1, <3>1 DEF Counted, Marked
    <2> QED
        BY <2>1 DEF SectionsInv, SectionsMatched
<1> QED
    BY <1>1, BaseInvariant, SectionsInvariant, PTL
=============================================================================
