----------------------------- MODULE EvalProofs -----------------------------
(***************************************************************************)
(* Proofs about the sources of evals.                                      *)
(*                                                                         *)
(* Where they are stored (SourceStorage), for any sources, writers,        *)
(* packers, readers and directories, with packers that overlap and are     *)
(* killed anywhere, as long as no two of them choose the same name for an  *)
(* archive at the same time: the inductive invariant IInv and the          *)
(* properties it consists of.                                              *)
(*                                                                         *)
(* Which source an eval of a process had (EvalSource), for any genealogy of*)
(* processes that start after their parents, any evals, holders and limits *)
(* on holes: an entry that fits the evals that reached its holder goes on  *)
(* to fit them when it is packed and merged (IndexInv), and what a lookup  *)
(* finds in entries that fit is the source of the eval.                    *)
(***************************************************************************)
EXTENDS EvalSource, SourceStorage, FiniteSetTheorems, WellFoundedInduction, TLAPS

-----------------------------------------------------------------------------
(* Storage                                                                 *)

NoCollision == "collide" \notin Events

(* Archives stay as they are once they have their name.                    *)
Grown ==
    /\ DOMAIN archives \subseteq DOMAIN archives'
    /\ \A a \in DOMAIN archives : archives'[a] = archives[a]

LEMMA GrownFacts ==
    ASSUME Grown
    PROVE  /\ Archived \subseteq Archived'
           /\ manifest \cap DOMAIN archives \subseteq manifest' => Findable \subseteq Findable'
           /\ DOMAIN archives' \subseteq manifest' => Archived' \subseteq Findable'
BY DEF Grown, Archived, Findable, Listed

LEMMA FindableIsArchived == Findable \subseteq Archived
BY DEF Findable, Archived, Listed

(* _load_manifest() knows an archive for each source that can be found.    *)
LEMMA LoadedMap ==
    /\ DOMAIN LoadManifest = Findable
    /\ \A h \in Findable :
          LoadManifest[h] \in DOMAIN archives /\ h \in archives[LoadManifest[h]]
<1>1. DOMAIN LoadManifest = Findable
    BY DEF LoadManifest, Findable
<1>2. ASSUME NEW h \in Findable
      PROVE  LoadManifest[h] \in DOMAIN archives /\ h \in archives[LoadManifest[h]]
    <2>1. LoadManifest[h] = CHOOSE a \in Listed : h \in archives[a]
        BY <1>2 DEF LoadManifest, Findable
    <2>2. \E a \in Listed : h \in archives[a]
        BY <1>2 DEF Findable
    <2> QED
        BY <2>1, <2>2 DEF Listed
<1> QED
    BY <1>1, <1>2

-----------------------------------------------------------------------------
(* What happens around a process does not disturb it.                      *)

(* A reader, when archives grow and a manifest is complete that ends an    *)
(* overlap of packers.                                                     *)
LEMMA ReaderKept ==
    ASSUME NEW r \in Readers, ReaderOK(r), reader'[r] = reader[r], Grown,
           stored \subseteq stored', unsure' = unsure,
           ~overlapped' => \/ ~overlapped /\ Findable \subseteq Findable'
                           \/ Archived \subseteq Findable'
    PROVE  ReaderOK(r)'
<1>1. Archived \subseteq Archived'
    BY GrownFacts
<1>2. \A h \in DOMAIN reader[r].map :
         reader'[r].map[h] \in DOMAIN archives' /\ h \in archives'[reader'[r].map[h]]
    BY DEF ReaderOK, Grown
<1>3. reader[r].at = "load" /\ ~overlapped' => reader[r].hash \in Findable'
    BY DEF ReaderOK
<1> QED
    BY <1>1, <1>2, <1>3 DEF ReaderOK

(* What a packer found.                                                    *)
LEMMA FoundKept ==
    ASSUME NEW p \in Packers, FoundOK(p), packer'[p] = packer[p], Grown,
           loose \subseteq loose' \cup Archived
    PROVE  FoundOK(p)'
<1>1. Archived \subseteq Archived'
    BY GrownFacts
<1> QED
    BY <1>1 DEF FoundOK

-----------------------------------------------------------------------------
(* The writers                                                             *)

LEMMA WriterStep ==
    ASSUME IInv, ShapeInv', WriterOnly, loose \subseteq loose', stored \subseteq stored',
           stored' \subseteq stored \cup loose'
    PROVE  IInv'
<1>1. /\ ShapeInv /\ PackersInv /\ ReadersInv /\ NothingLost /\ SourcesFindable /\ LookupsSucceed
      /\ UNCHANGED <<archives, unfinished, manifest, packer, reader, alone, overlapped, unsure, missed>>
    BY DEF IInv, WriterOnly, history
<1>2. Grown /\ Archived' = Archived /\ Findable' = Findable /\ DOMAIN LoadManifest' = Findable
    BY <1>1, LoadedMap DEF Grown, Archived, Findable, Listed, LoadManifest
<1>3. ASSUME NEW p \in Packers
      PROVE  NamesOK(p)' /\ FoundOK(p)' /\ AloneOK(p)' /\ ListsAll(p)'
    <2>1. NamesOK(p) /\ FoundOK(p) /\ AloneOK(p) /\ ListsAll(p)
        BY <1>1 DEF PackersInv
    <2>2. FoundOK(p)'
        BY <1>1, <1>2, <2>1, FoundKept
    <2>3. NamesOK(p)' /\ AloneOK(p)' /\ ListsAll(p)'
        BY <1>1, <1>2, <2>1 DEF NamesOK, AloneOK, ListsAll, Saving, Running, Others
    <2> QED
        BY <2>2, <2>3
<1>4. \A r \in Readers : ReaderOK(r)'
    BY <1>1, <1>2, ReaderKept DEF ReadersInv
<1>5. NothingLost' /\ SourcesFindable' /\ LookupsSucceed'
    BY <1>1, <1>2, LoadedMap DEF NothingLost, SourcesFindable, LookupsSucceed, Archived
<1> QED
    BY <1>3, <1>4, <1>5 DEF IInv, PackersInv, ReadersInv

LEMMA WriterSteps ==
    ASSUME IInv, NEW w \in Writers,
           (\E h \in Hashes : Mkpath(w, h)) \/ CheckFile(w) \/ CreateFile(w) \/ RenameFile(w)
    PROVE  IInv'
<1>1. ShapeInv
    BY DEF IInv
<1>2. ASSUME NEW h \in Hashes, Mkpath(w, h)
      PROVE  IInv'
    BY <1>1, <1>2, WriterStep DEF Mkpath, ShapeInv, WriterOnly
<1>3. ASSUME CheckFile(w)
      PROVE  IInv'
    BY <1>1, <1>3, WriterStep DEF CheckFile, WriterDoes, ShapeInv, WriterOnly
<1>4. ASSUME CreateFile(w)
      PROVE  IInv'
    BY <1>1, <1>4, WriterStep DEF CreateFile, WriterDoes, ShapeInv, WriterOnly
<1>5. ASSUME RenameFile(w)
      PROVE  IInv'
    BY <1>1, <1>5, WriterStep DEF RenameFile, WriterDoes, ShapeInv, WriterOnly
<1> QED
    BY <1>2, <1>3, <1>4, <1>5

-----------------------------------------------------------------------------
(* The readers                                                             *)

(* A step of reader r, which concerns nobody else.                         *)
LEMMA ReaderStep ==
    ASSUME IInv, ShapeInv', NEW r \in Readers, ReaderOnly, ReaderOK(r)', missed' = {},
           \A q \in Readers \ {r} : reader'[q] = reader[q] /\ (q \in unsure' <=> q \in unsure)
    PROVE  IInv'
<1>1. /\ ShapeInv /\ PackersInv /\ ReadersInv /\ NothingLost /\ SourcesFindable
      /\ UNCHANGED <<loose, archives, unfinished, manifest, packer, stored, alone, overlapped>>
    BY DEF IInv, ReaderOnly, history, files
<1>2. Archived' = Archived /\ Findable' = Findable /\ LoadManifest' = LoadManifest
    BY <1>1 DEF Archived, Findable, Listed, LoadManifest
<1>3. ASSUME NEW p \in Packers
      PROVE  NamesOK(p)' /\ FoundOK(p)' /\ AloneOK(p)' /\ ListsAll(p)'
    <2>1. NamesOK(p) /\ FoundOK(p) /\ AloneOK(p) /\ ListsAll(p)
        BY <1>1 DEF PackersInv
    <2> QED
        BY <1>1, <1>2, <2>1 DEF NamesOK, FoundOK, AloneOK, ListsAll, Saving, Running, Others
<1>4. ASSUME NEW q \in Readers
      PROVE  ReaderOK(q)'
    <2>1. CASE q = r
        BY <2>1
    <2>2. CASE q # r
        <3>1. ReaderOK(q) /\ reader'[q] = reader[q] /\ (q \in unsure' <=> q \in unsure)
            BY <1>1, <2>2 DEF ReadersInv
        <3> QED
            BY <1>1, <1>2, <3>1 DEF ReaderOK
    <2> QED
        BY <2>1, <2>2
<1>5. NothingLost' /\ SourcesFindable' /\ LookupsSucceed'
    BY <1>1, <1>2 DEF NothingLost, SourcesFindable, LookupsSucceed
<1> QED
    BY <1>3, <1>4, <1>5 DEF IInv, PackersInv, ReadersInv

(* A source that is looked up is among the files, or archived.             *)
LEMMA StoredSomewhere ==
    ASSUME NothingLost, SourcesFindable, NEW h \in stored, h \notin loose
    PROVE  h \in Archived /\ (~overlapped => h \in Findable)
BY LoadedMap DEF NothingLost, SourcesFindable, Archived

LEMMA LookUpStep ==
    ASSUME IInv, NEW r \in Readers, FirstLookup(r) \/ SecondLookup(r)
    PROVE  IInv'
<1>1. /\ ShapeInv /\ ReaderOK(r) /\ NothingLost /\ SourcesFindable /\ missed = {}
      /\ ReaderOnly /\ unsure' = unsure
      /\ UNCHANGED <<loose, archives, manifest, stored, overlapped, writer, packer>>
    BY DEF IInv, ReadersInv, LookupsSucceed, FirstLookup, SecondLookup, LookUp, ReaderOnly,
           files, history
<1>2. PICK at \in {"idle", "open", "load"} :
         /\ reader' = [reader EXCEPT ![r].at = at]
         /\ at = "load" => reader[r].at = "first" /\ reader[r].hash \notin loose
    BY DEF FirstLookup, SecondLookup, LookUp, ReaderDoes, IsFile
<1>3. /\ reader'[r] = [reader[r] EXCEPT !.at = at]
      /\ \A q \in Readers \ {r} : reader'[q] = reader[q]
      /\ "at" \in DOMAIN reader[r] /\ DOMAIN reader' = Readers
    BY <1>1, <1>2 DEF ShapeInv
<1>4. /\ reader'[r].at = at /\ reader'[r].map = reader[r].map /\ reader'[r].hash = reader[r].hash
      /\ DOMAIN reader'[r] = DOMAIN reader[r]
    BY <1>3
<1>5. reader[r].at # "idle"
    BY DEF FirstLookup, SecondLookup, LookUp
<1>6. ShapeInv'
    BY <1>1, <1>2, <1>3, <1>4, <1>5 DEF ShapeInv
<1>7. Archived' = Archived /\ Findable' = Findable
    BY <1>1 DEF Archived, Findable, Listed
<1>8. ReaderOK(r)'
    <2>1. at = "load" => reader[r].hash \in Archived /\ (~overlapped => reader[r].hash \in Findable)
        <3> SUFFICES ASSUME at = "load"
                     PROVE  reader[r].hash \in Archived /\ (~overlapped => reader[r].hash \in Findable)
            OBVIOUS
        <3>1. reader[r].hash \in stored /\ reader[r].hash \notin loose
            BY <1>1, <1>2 DEF ReaderOK
        <3> QED
            BY <3>1, <1>1, StoredSomewhere
    <2> QED
        BY <2>1, <1>1, <1>2, <1>4, <1>7 DEF ReaderOK
<1>9. missed' = {}
    <2>1. CASE FirstLookup(r)
        <3>1. Packed(r) => InArchive(r)
            BY <1>1 DEF Packed, InArchive, ReaderOK
        <3> QED
            BY <2>1, <3>1, <1>1 DEF FirstLookup, LookUp
    <2>2. CASE SecondLookup(r)
        <3>1. Packed(r) => InArchive(r)
            BY <1>1 DEF Packed, InArchive, ReaderOK
        <3>2. r \notin unsure => Packed(r)
            BY <1>1, <2>2 DEF Packed, ReaderOK, SecondLookup, LookUp
        <3> QED
            BY <2>2, <3>1, <3>2, <1>1 DEF SecondLookup, LookUp
    <2> QED
        BY <2>1, <2>2
<1> QED
    BY <1>1, <1>3, <1>6, <1>8, <1>9, ReaderStep

LEMMA ReaderSteps ==
    ASSUME IInv, NEW r \in Readers, StartLookup(r) \/ OpenFile(r) \/ ReloadManifest(r)
    PROVE  IInv'
<1>1. /\ ShapeInv /\ ReaderOK(r) /\ missed = {}
      /\ ReaderOnly /\ missed' = missed
      /\ UNCHANGED <<loose, archives, manifest, stored, overlapped, writer, packer>>
    BY DEF IInv, ReadersInv, LookupsSucceed, StartLookup, OpenFile, ReloadManifest, ReaderOnly,
           files, history
<1>2. Archived' = Archived /\ Findable' = Findable /\ LoadManifest' = LoadManifest
    BY <1>1 DEF Archived, Findable, Listed, LoadManifest
<1>3. DOMAIN reader = Readers /\ {"at", "map"} \subseteq DOMAIN reader[r]
    BY <1>1 DEF ShapeInv
<1>4. CASE StartLookup(r)
    <2>1. PICK h \in stored :
             reader' = [reader EXCEPT ![r] = [at |-> "first", map |-> reader[r].map, hash |-> h]]
        BY <1>4 DEF StartLookup
    <2>2. /\ reader'[r] = [at |-> "first", map |-> reader[r].map, hash |-> h]
          /\ \A q \in Readers \ {r} : reader'[q] = reader[q]
          /\ DOMAIN reader' = Readers /\ unsure' = unsure
        BY <1>3, <1>4, <2>1 DEF StartLookup
    <2>3. ShapeInv'
        BY <1>1, <2>2 DEF ShapeInv
    <2>4. ReaderOK(r)'
        BY <1>1, <1>2, <2>2 DEF ReaderOK
    <2> QED
        BY <1>1, <2>2, <2>3, <2>4, ReaderStep
<1>5. CASE OpenFile(r)
    <2>1. /\ reader'[r] = [reader[r] EXCEPT !.at = "idle"]
          /\ \A q \in Readers \ {r} : reader'[q] = reader[q]
          /\ DOMAIN reader' = Readers /\ unsure' = unsure
        BY <1>3, <1>5 DEF OpenFile, ReaderDoes
    <2>2. reader'[r].at = "idle" /\ reader'[r].map = reader[r].map
          /\ DOMAIN reader'[r] = DOMAIN reader[r]
        BY <1>3, <2>1
    <2>3. ShapeInv'
        BY <1>1, <2>1, <2>2 DEF ShapeInv
    <2>4. ReaderOK(r)'
        BY <1>1, <1>2, <2>2 DEF ReaderOK
    <2> QED
        BY <1>1, <2>1, <2>3, <2>4, ReaderStep
<1>6. CASE ReloadManifest(r)
    <2>1. /\ reader'[r] = [reader[r] EXCEPT !.at = "second", !.map = LoadManifest]
          /\ \A q \in Readers \ {r} : reader'[q] = reader[q]
          /\ DOMAIN reader' = Readers /\ reader[r].at = "load"
        BY <1>3, <1>6 DEF ReloadManifest
    <2>2. /\ \A q \in Readers \ {r} : reader'[q] = reader[q]
          /\ DOMAIN reader' = Readers
        BY <2>1
    <2>3. reader'[r].at = "second" /\ reader'[r].map = LoadManifest
          /\ DOMAIN reader'[r] = DOMAIN reader[r] /\ reader'[r].hash = reader[r].hash
        BY <1>3, <2>1
    <2>4. ShapeInv'
        <3>1. "hash" \in DOMAIN reader'[r] /\ {"at", "map"} \subseteq DOMAIN reader'[r]
            BY <1>1, <1>3, <2>1, <2>3 DEF ShapeInv
        <3> QED
            BY <1>1, <2>3, <2>2, <3>1 DEF ShapeInv
    <2>5. unsure' = IF overlapped THEN unsure \cup {r} ELSE unsure \ {r}
        BY <1>6 DEF ReloadManifest
    <2>6. reader[r].hash \in DOMAIN LoadManifest \/ r \in unsure'
        BY <1>1, <2>1, <2>5, LoadedMap DEF ReaderOK
    <2>7. ReaderOK(r)'
        BY <1>1, <1>2, <2>3, <2>6, LoadedMap DEF ReaderOK
    <2> QED
        BY <1>1, <2>1, <2>4, <2>5, <2>7, ReaderStep
<1> QED
    BY <1>4, <1>5, <1>6

-----------------------------------------------------------------------------
(* The packers                                                             *)

(* The record of p is replaced by one with the fields of its place.        *)
LEMMA PackerMoves ==
    ASSUME ShapeInv, NEW p \in Packers, NEW x, packer' = [packer EXCEPT ![p] = x],
           UNCHANGED <<writer, reader>>,
           x.at \in {"idle", "glob", "archive", "write", "rename", "manifest", "unlink"},
           DOMAIN x = Fields(x.at)
    PROVE  /\ ShapeInv' /\ packer'[p] = x
           /\ \A q \in Packers \ {p} : packer'[q] = packer[q]
<1>1. packer'[p] = x /\ DOMAIN packer' = Packers /\ \A q \in Packers \ {p} : packer'[q] = packer[q]
    BY DEF ShapeInv
<1> QED
    BY <1>1 DEF ShapeInv

(* A step of packer p keeps the invariant if it keeps what is said of p,   *)
(* sources stay where they can be found, archives stay, and the step does  *)
(* not make p run.                                                         *)
LEMMA PackerStep ==
    ASSUME IInv, NEW p \in Packers, Running(p), ShapeInv', PackerOnly, alone' = alone,
           \A q \in Packers \ {p} : packer'[q] = packer[q],
           Grown, loose \subseteq loose' \cup Archived,
           ~overlapped => loose \subseteq loose' \cup Findable,
           ~overlapped' => \/ ~overlapped /\ Findable \subseteq Findable'
                           \/ Archived \subseteq Findable' /\ p \in alone,
           \A q \in Packers : NamesOK(q)',
           FoundOK(p)', ListsAll(p)'
    PROVE  IInv'
<1>1. /\ ShapeInv /\ PackersInv /\ ReadersInv /\ NothingLost /\ SourcesFindable /\ missed = {}
      /\ UNCHANGED <<writer, reader, stored, unsure, missed, alone>>
    BY DEF IInv, PackerOnly, LookupsSucceed
<1>2. Archived \subseteq Archived' /\ Findable' \subseteq Archived' /\ DOMAIN LoadManifest' = Findable'
    <2>1. Archived \subseteq Archived'
        BY GrownFacts
    <2>2. Findable' \subseteq Archived' /\ DOMAIN LoadManifest' = Findable'
        BY DEF Findable, Archived, Listed, LoadManifest
    <2> QED
        BY <2>1, <2>2
<1>3. \A q \in Packers \ {p} : FoundOK(q)'
    BY <1>1, FoundKept DEF PackersInv
<1>4. \A r \in Readers : ReaderOK(r)'
    BY <1>1, ReaderKept DEF ReadersInv
<1>5. \A q \in Packers : Running(q)' => Running(q) /\ Others(q)' \subseteq Others(q)
    BY DEF Running, Others
<1>6. \A q \in Packers : AloneOK(q)'
    <2> SUFFICES ASSUME NEW q \in Packers, Running(q)'
                 PROVE  /\ q \in alone => Others(q)' = {}
                        /\ ~overlapped' => q \in alone
        BY <1>1 DEF AloneOK
    <2>1. Running(q) /\ AloneOK(q) /\ AloneOK(p) /\ Others(q)' \subseteq Others(q)
        BY <1>1, <1>5 DEF PackersInv
    <2>2. p \in alone => q = p
        BY <2>1 DEF AloneOK, Others
    <2> QED
        BY <2>1, <2>2 DEF AloneOK
<1>7. \A q \in Packers \ {p} : ListsAll(q)'
    <2> SUFFICES ASSUME NEW q \in Packers \ {p}, q \in alone, Running(q)
                 PROVE  FALSE
        BY <1>1, <1>5 DEF ListsAll, Running
    <2>1. AloneOK(q)
        BY <1>1 DEF PackersInv
    <2> QED
        BY <2>1 DEF AloneOK, Others
<1>8. NothingLost'
    BY <1>1, <1>2 DEF NothingLost, Archived
<1>9. SourcesFindable'
    <2> SUFFICES ASSUME ~overlapped', NEW h \in stored
                 PROVE  h \in loose' \cup Findable'
        BY <1>1, <1>2 DEF SourcesFindable
    <2>1. h \in loose \cup Archived /\ (~overlapped => h \in loose \cup Findable)
        BY <1>1, LoadedMap DEF NothingLost, SourcesFindable, Archived
    <2> QED
        BY <2>1
<1> QED
    BY <1>1, <1>3, <1>4, <1>6, <1>7, <1>8, <1>9 DEF IInv, PackersInv, ReadersInv, LookupsSucceed

(* Where p does not save an archive, nobody's archive is disturbed.        *)
LEMMA NamesKept ==
    ASSUME PackersInv, NEW p \in Packers, packer'[p].at \notin {"write", "rename"},
           \A q \in Packers \ {p} : packer'[q] = packer[q],
           UNCHANGED <<archives, unfinished>>
    PROVE  \A q \in Packers : NamesOK(q)'
<1> SUFFICES ASSUME NEW q \in Packers \ {p}
             PROVE  NamesOK(q)'
    BY DEF NamesOK
<1>1. NamesOK(q)
    BY DEF PackersInv
<1> QED
    BY <1>1 DEF NamesOK, Saving

(* Steps that change neither what is stored nor the manifest.              *)
LEMMA QuietStep ==
    ASSUME IInv, NEW p \in Packers, Running(p), ShapeInv', PackerOnly,
           UNCHANGED <<loose, archives, manifest, alone, overlapped>>,
           \A q \in Packers \ {p} : packer'[q] = packer[q],
           \A q \in Packers : NamesOK(q)',
           FoundOK(p)', ListsAll(p)'
    PROVE  IInv'
<1>1. Grown /\ Findable' = Findable
    BY DEF Grown, Findable, Listed
<1> QED
    BY <1>1, PackerStep

LEMMA StopStep ==
    ASSUME IInv, NEW p \in Packers, Running(p), PackerStops(p), PackerOnly,
           UNCHANGED <<loose, archives, unfinished, manifest, alone, overlapped>>
    PROVE  IInv'
<1>1. ShapeInv /\ PackersInv
    BY DEF IInv
<1> DEFINE x == [at |-> "idle"]
<1>2. packer' = [packer EXCEPT ![p] = x] /\ UNCHANGED <<writer, reader>>
    BY DEF PackerStops, PackerOnly
<1>3. x.at = "idle" /\ DOMAIN x = Fields(x.at)
    BY DEF Fields
<1> HIDE DEF x
<1>4. ShapeInv' /\ packer'[p] = x /\ \A q \in Packers \ {p} : packer'[q] = packer[q]
    BY <1>1, <1>2, <1>3, PackerMoves
<1>5. FoundOK(p)' /\ ListsAll(p)'
    BY <1>3, <1>4 DEF FoundOK, ListsAll
<1>6. \A q \in Packers : NamesOK(q)'
    BY <1>1, <1>3, <1>4, NamesKept
<1> QED
    BY <1>4, <1>5, <1>6, QuietStep

(* The first packer, or one beside others.                                 *)
LEMMA StartPackingStep ==
    ASSUME IInv, NEW p \in Packers, StartPacking(p)
    PROVE  IInv'
<1>1. /\ ShapeInv /\ PackersInv /\ ReadersInv /\ NothingLost /\ SourcesFindable /\ missed = {}
      /\ UNCHANGED <<loose, archives, unfinished, manifest, writer, reader, stored, unsure, missed>>
      /\ ~Running(p)
    BY DEF IInv, LookupsSucceed, StartPacking, files, PackerOnly, Running
<1> DEFINE x == [at |-> "glob", map |-> DOMAIN LoadManifest]
<1>2. /\ packer' = [packer EXCEPT ![p] = x]
      /\ alone' = IF Others(p) = {} THEN {p} ELSE {}
      /\ overlapped' = (overlapped \/ Others(p) # {})
    BY DEF StartPacking
<1>3. x.at = "glob" /\ DOMAIN x = Fields(x.at) /\ x.map = Findable
    BY LoadedMap DEF Fields
<1> HIDE DEF x
<1>4. ShapeInv' /\ packer'[p] = x /\ \A q \in Packers \ {p} : packer'[q] = packer[q]
    BY <1>1, <1>2, <1>3, PackerMoves
<1>5. Archived' = Archived /\ Findable' = Findable /\ LoadManifest' = LoadManifest /\ Grown
    BY <1>1 DEF Archived, Findable, Listed, LoadManifest, Grown
<1>6. \A q \in Packers : NamesOK(q)'
    BY <1>1, <1>3, <1>4, NamesKept
<1>7. \A q \in Packers : FoundOK(q)'
    <2>1. FoundOK(p)'
        BY <1>3, <1>4, <1>5, FindableIsArchived DEF FoundOK
    <2> QED
        BY <2>1, <1>1, <1>4, <1>5, FoundKept DEF PackersInv
<1>8. \A q \in Packers : AloneOK(q)'
    <2>1. Others(p)' = Others(p)
        BY <1>4 DEF Others, Running
    <2>2. ASSUME NEW q \in Packers \ {p}, Running(q)
          PROVE  overlapped' /\ alone' = {}
        BY <1>2, <2>2 DEF Others
    <2>3. \A q \in Packers \ {p} : Running(q)' = Running(q)
        BY <1>4 DEF Running
    <2> QED
        BY <1>2, <2>1, <2>2, <2>3 DEF AloneOK
<1>9. \A q \in Packers : ListsAll(q)'
    <2> SUFFICES ASSUME NEW q \in Packers
                 PROVE  ListsAll(q)'
        OBVIOUS
    <2>1. CASE q = p
        BY <2>1, <1>3, <1>4 DEF ListsAll
    <2>2. CASE q # p
        <3>1. q \notin alone'
            BY <1>2, <2>2
        <3> QED
            BY <3>1 DEF ListsAll
    <2> QED
        BY <2>1, <2>2
<1>10. \A r \in Readers : ReaderOK(r)'
    BY <1>1, <1>2, <1>5, ReaderKept DEF ReadersInv
<1>11. NothingLost' /\ SourcesFindable' /\ LookupsSucceed'
    BY <1>1, <1>2, <1>5 DEF NothingLost, SourcesFindable, LookupsSucceed
<1> QED
    BY <1>4, <1>6, <1>7, <1>8, <1>9, <1>10, <1>11 DEF IInv, PackersInv, ReadersInv

(* A packer that reads what there is, and saves nothing at this step.      *)
LEMMA ReadStep ==
    ASSUME IInv, NEW p \in Packers, Running(p), PackerOnly,
           UNCHANGED <<loose, archives, unfinished, manifest, alone, overlapped>>,
           NEW x, packer' = [packer EXCEPT ![p] = x], DOMAIN x = Fields(x.at),
           \/ /\ x.at = "archive"
              /\ x.found \subseteq loose \cup Archived /\ x.found \ x.rest \subseteq Archived
           \/ /\ x.at = "manifest"
              /\ x.found \subseteq Archived /\ x.zips = DOMAIN archives
    PROVE  IInv'
<1>1. ShapeInv /\ PackersInv /\ UNCHANGED <<writer, reader>>
    BY DEF IInv, PackerOnly
<1>2. ShapeInv' /\ packer'[p] = x /\ \A q \in Packers \ {p} : packer'[q] = packer[q]
    BY <1>1, PackerMoves
<1>3. Archived' = Archived
    BY DEF Archived
<1>4. FoundOK(p)' /\ ListsAll(p)'
    BY <1>2, <1>3 DEF FoundOK, ListsAll
<1>5. \A q \in Packers : NamesOK(q)'
    BY <1>1, <1>2, NamesKept
<1> QED
    BY <1>2, <1>4, <1>5, QuietStep

LEMMA GlobFilesStep ==
    ASSUME IInv, NEW p \in Packers, GlobFiles(p)
    PROVE  IInv'
<1>1. /\ FoundOK(p) /\ Running(p) /\ packer[p].at = "glob" /\ PackerOnly
      /\ UNCHANGED <<loose, archives, unfinished, manifest, alone, overlapped>>
    BY DEF IInv, PackersInv, GlobFiles, Running, files, history
<1> DEFINE x == [at |-> "archive", found |-> loose, rest |-> loose \ packer[p].map]
<1>2. PackerStops(p) \/ packer' = [packer EXCEPT ![p] = x]
    BY DEF GlobFiles
<1>3. /\ x.at = "archive" /\ DOMAIN x = Fields(x.at)
      /\ x.found = loose /\ x.rest = loose \ packer[p].map
    BY DEF Fields
<1> HIDE DEF x
<1>4. packer[p].map \subseteq Archived
    BY <1>1 DEF FoundOK
<1>5. x.found \subseteq loose \cup Archived /\ x.found \ x.rest \subseteq Archived
    BY <1>3, <1>4
<1> QED
    BY <1>1, <1>2, <1>3, <1>5, StopStep, ReadStep

LEMMA SkipMissingStep ==
    ASSUME IInv, NEW p \in Packers, SkipMissing(p)
    PROVE  IInv'
<1>1. /\ ShapeInv /\ FoundOK(p) /\ Running(p) /\ packer[p].at = "archive" /\ PackerOnly
      /\ UNCHANGED <<loose, archives, unfinished, manifest, alone, overlapped>>
    BY DEF IInv, PackersInv, SkipMissing, Running, files, history
<1>2. PICK h \in packer[p].rest \ loose : packer' = [packer EXCEPT ![p].rest = @ \ {h}]
    BY DEF SkipMissing
<1> DEFINE x == [packer[p] EXCEPT !.rest = @ \ {h}]
<1>3. DOMAIN packer[p] = {"at", "found", "rest"} /\ DOMAIN packer = Packers
    BY <1>1 DEF ShapeInv, Fields
<1>4. packer' = [packer EXCEPT ![p] = x]
    BY <1>2, <1>3
<1>5. /\ x.at = "archive" /\ DOMAIN x = Fields(x.at)
      /\ x.found = packer[p].found /\ x.rest = packer[p].rest \ {h}
    BY <1>1, <1>3 DEF Fields
<1> HIDE DEF x
<1>6. /\ packer[p].found \subseteq loose \cup Archived
      /\ packer[p].found \ packer[p].rest \subseteq Archived
    BY <1>1 DEF FoundOK
<1>7. x.found \subseteq loose \cup Archived /\ x.found \ x.rest \subseteq Archived
    BY <1>2, <1>5, <1>6
<1> QED
    BY <1>1, <1>4, <1>5, <1>7, ReadStep

LEMMA GlobArchivesStep ==
    ASSUME IInv, NEW p \in Packers, GlobArchives(p)
    PROVE  IInv'
<1>1. /\ FoundOK(p) /\ Running(p) /\ packer[p].at = "archive" /\ packer[p].rest = {} /\ PackerOnly
      /\ UNCHANGED <<loose, archives, unfinished, manifest, alone, overlapped>>
    BY DEF IInv, PackersInv, GlobArchives, Running, files, history
<1> DEFINE x == [at |-> "manifest", found |-> packer[p].found, zips |-> DOMAIN archives]
<1>2. PackerStops(p) \/ packer' = [packer EXCEPT ![p] = x]
    BY DEF GlobArchives
<1>3. /\ x.at = "manifest" /\ DOMAIN x = Fields(x.at)
      /\ x.found = packer[p].found /\ x.zips = DOMAIN archives
    BY DEF Fields
<1> HIDE DEF x
<1>4. x.found \subseteq Archived
    BY <1>1, <1>3 DEF FoundOK
<1> QED
    BY <1>1, <1>2, <1>3, <1>4, StopStep, ReadStep

-----------------------------------------------------------------------------
(* Archives are saved                                                      *)

(* The name is free, and nobody else saves under it.                       *)
LEMMA ChooseNameStep ==
    ASSUME NoCollision, IInv, NEW p \in Packers, ChooseName(p)
    PROVE  IInv'
<1>1. /\ ShapeInv /\ PackersInv /\ FoundOK(p) /\ Running(p) /\ packer[p].at = "archive" /\ PackerOnly
      /\ UNCHANGED <<loose, archives, unfinished, manifest, writer, reader, alone, overlapped>>
    BY DEF IInv, PackersInv, ChooseName, Running, PackerOnly, history
<1>2. PICK part \in SUBSET (packer[p].rest \cap loose), a \in Names \ DOMAIN archives :
         /\ \A q \in Others(p) : ~Saving(q, a)
         /\ packer' = [packer EXCEPT ![p] =
               [at |-> "write", found |-> packer[p].found, rest |-> packer[p].rest,
                name |-> a, part |-> part]]
    BY DEF ChooseName, NoCollision
<1> DEFINE x == [at |-> "write", found |-> packer[p].found, rest |-> packer[p].rest,
                 name |-> a, part |-> part]
<1>3. /\ x.at = "write" /\ DOMAIN x = Fields(x.at) /\ x.name = a
      /\ x.found = packer[p].found /\ x.rest = packer[p].rest
    BY DEF Fields
<1>4. packer' = [packer EXCEPT ![p] = x]
    BY <1>2
<1> HIDE DEF x
<1>5. ShapeInv' /\ packer'[p] = x /\ \A q \in Packers \ {p} : packer'[q] = packer[q]
    BY <1>1, <1>3, <1>4, PackerMoves
<1>6. Archived' = Archived
    BY <1>1 DEF Archived
<1>7. FoundOK(p)' /\ ListsAll(p)'
    BY <1>1, <1>3, <1>5, <1>6 DEF FoundOK, ListsAll
<1>8. \A q \in Packers \ {p} : ~Saving(q, a)
    BY <1>2 DEF Others, Running, Saving
<1>9. \A q \in Packers : NamesOK(q)'
    <2> SUFFICES ASSUME NEW q \in Packers
                 PROVE  NamesOK(q)'
        OBVIOUS
    <2>1. CASE q = p
        BY <2>1, <1>1, <1>2, <1>3, <1>5, <1>8 DEF NamesOK, Saving
    <2>2. CASE q # p
        <3>1. NamesOK(q)
            BY <1>1 DEF PackersInv
        <3>2. packer[q].at \in {"write", "rename"} => packer[q].name # a
            BY <2>2, <1>8 DEF Saving
        <3> QED
            BY <2>2, <3>1, <3>2, <1>1, <1>3, <1>5 DEF NamesOK, Saving
    <2> QED
        BY <2>1, <2>2
<1> QED
    BY <1>1, <1>5, <1>7, <1>9, QuietStep

(* The file is p's alone.                                                  *)
LEMMA WriteArchiveStep ==
    ASSUME IInv, NEW p \in Packers, WriteArchive(p)
    PROVE  IInv'
<1>1. /\ ShapeInv /\ PackersInv /\ FoundOK(p) /\ Running(p) /\ packer[p].at = "write" /\ PackerOnly
      /\ UNCHANGED <<loose, archives, manifest, writer, reader, alone, overlapped>>
    BY DEF IInv, PackersInv, WriteArchive, Running, PackerOnly, history
<1>2. CASE packer[p].part \subseteq loose
    <2> DEFINE x == [packer[p] EXCEPT !.at = "rename"]
    <2>1. /\ packer' = [packer EXCEPT ![p].at = "rename"]
          /\ unfinished' = Added(unfinished, packer[p].name, packer[p].part)
        BY <1>2 DEF WriteArchive
    <2>2. DOMAIN packer[p] = {"at", "found", "rest", "name", "part"} /\ DOMAIN packer = Packers
        BY <1>1 DEF ShapeInv, Fields
    <2>3. packer' = [packer EXCEPT ![p] = x]
        BY <2>1, <2>2
    <2>4. /\ x.at = "rename" /\ DOMAIN x = Fields(x.at)
          /\ x.found = packer[p].found /\ x.rest = packer[p].rest
          /\ x.name = packer[p].name /\ x.part = packer[p].part
        BY <2>2 DEF Fields
    <2> HIDE DEF x
    <2>5. ShapeInv' /\ packer'[p] = x /\ \A q \in Packers \ {p} : packer'[q] = packer[q]
        BY <1>1, <2>3, <2>4, PackerMoves
    <2>6. Archived' = Archived
        BY <1>1 DEF Archived
    <2>7. FoundOK(p)' /\ ListsAll(p)'
        BY <1>1, <2>4, <2>5, <2>6 DEF FoundOK, ListsAll
    <2>8. /\ DOMAIN unfinished' = DOMAIN unfinished \cup {packer[p].name}
          /\ unfinished'[packer[p].name] = packer[p].part
          /\ \A n \in DOMAIN unfinished : n # packer[p].name => unfinished'[n] = unfinished[n]
        BY <2>1 DEF Added
    <2>9. \A q \in Packers : NamesOK(q)'
        <3> SUFFICES ASSUME NEW q \in Packers
                     PROVE  NamesOK(q)'
            OBVIOUS
        <3>1. NamesOK(p) /\ NamesOK(q)
            BY <1>1 DEF PackersInv
        <3>2. CASE q = p
            BY <3>1, <3>2, <1>1, <2>4, <2>5, <2>8 DEF NamesOK, Saving
        <3>3. CASE q # p
            BY <3>1, <3>3, <1>1, <2>4, <2>5, <2>8 DEF NamesOK, Saving
        <3> QED
            BY <3>2, <3>3
    <2> QED
        BY <1>1, <2>5, <2>7, <2>9, QuietStep
<1>3. CASE ~(packer[p].part \subseteq loose)
    BY <1>1, <1>3, StopStep DEF WriteArchive
<1> QED
    BY <1>2, <1>3

(* The archive is new, and has the sources that are taken off the list.    *)
LEMMA RenameArchiveStep ==
    ASSUME IInv, NEW p \in Packers, RenameArchive(p)
    PROVE  IInv'
<1>1. /\ ShapeInv /\ PackersInv /\ FoundOK(p) /\ NamesOK(p) /\ Running(p) /\ packer[p].at = "rename"
      /\ PackerOnly /\ UNCHANGED <<loose, manifest, writer, reader, alone, overlapped>>
    BY DEF IInv, PackersInv, RenameArchive, Running, PackerOnly, history
<1> DEFINE x == [at |-> "archive", found |-> packer[p].found, rest |-> packer[p].rest \ packer[p].part]
           a == packer[p].name
<1>2. /\ a \notin DOMAIN archives /\ a \in DOMAIN unfinished
      /\ unfinished[a] = packer[p].part
      /\ \A q \in Packers \ {p} : ~Saving(q, a)
    BY <1>1 DEF NamesOK
<1>3. /\ archives' = Added(archives, a, unfinished[a])
      /\ unfinished' = Restrict(unfinished, DOMAIN unfinished \ {a})
      /\ packer' = [packer EXCEPT ![p] = x]
    BY <1>2 DEF RenameArchive
<1>4. /\ x.at = "archive" /\ DOMAIN x = Fields(x.at)
      /\ x.found = packer[p].found /\ x.rest = packer[p].rest \ packer[p].part
    BY DEF Fields
<1> HIDE DEF x
<1>5. ShapeInv' /\ packer'[p] = x /\ \A q \in Packers \ {p} : packer'[q] = packer[q]
    BY <1>1, <1>3, <1>4, PackerMoves
<1>6. /\ DOMAIN archives' = DOMAIN archives \cup {a} /\ archives'[a] = packer[p].part
      /\ \A n \in DOMAIN archives : archives'[n] = archives[n]
    BY <1>2, <1>3 DEF Added
<1>7. /\ DOMAIN unfinished' = DOMAIN unfinished \ {a}
      /\ \A n \in DOMAIN unfinished \ {a} : unfinished'[n] = unfinished[n]
    BY <1>3 DEF Restrict
<1>8. Grown /\ Archived' = Archived \cup packer[p].part
    BY <1>6 DEF Grown, Archived
<1>9. Findable \subseteq Findable'
    BY <1>1, <1>8 DEF Findable, Listed, Grown
<1>10. FoundOK(p)' /\ ListsAll(p)'
    <2>1. packer[p].found \subseteq loose \cup Archived
          /\ packer[p].found \ packer[p].rest \subseteq Archived
        BY <1>1 DEF FoundOK
    <2>2. x.found \subseteq loose \cup Archived' /\ x.found \ x.rest \subseteq Archived'
        BY <2>1, <1>4, <1>8
    <2> QED
        BY <2>2, <1>1, <1>4, <1>5 DEF FoundOK, ListsAll
<1>11. \A q \in Packers : NamesOK(q)'
    <2> SUFFICES ASSUME NEW q \in Packers \ {p}, packer[q].at \in {"write", "rename"}
                 PROVE  NamesOK(q)'
        BY <1>4, <1>5 DEF NamesOK
    <2>1. NamesOK(q) /\ packer[q].name # a
        BY <1>1, <1>2 DEF PackersInv, Saving
    <2> QED
        BY <2>1, <1>4, <1>5, <1>6, <1>7 DEF NamesOK, Saving
<1> QED
    BY <1>1, <1>5, <1>8, <1>9, <1>10, <1>11, PackerStep

-----------------------------------------------------------------------------
(* The manifest is written, and files are deleted                          *)

(* A packer that ran alone lists every archive there is.                   *)
LEMMA WriteManifestStep ==
    ASSUME IInv, NEW p \in Packers, WriteManifest(p)
    PROVE  IInv'
<1>1. /\ ShapeInv /\ PackersInv /\ FoundOK(p) /\ ListsAll(p) /\ AloneOK(p)
      /\ Running(p) /\ packer[p].at = "manifest" /\ PackerOnly
      /\ UNCHANGED <<loose, archives, unfinished, writer, reader, alone>>
      /\ manifest' = packer[p].zips
      /\ overlapped' = (overlapped /\ p \notin alone)
    BY DEF IInv, PackersInv, WriteManifest, Running, PackerOnly
<1> DEFINE x == [at |-> "unlink", found |-> packer[p].found]
<1>2. packer' = [packer EXCEPT ![p] = x]
    BY DEF WriteManifest
<1>3. x.at = "unlink" /\ DOMAIN x = Fields(x.at) /\ x.found = packer[p].found
    BY DEF Fields
<1> HIDE DEF x
<1>4. ShapeInv' /\ packer'[p] = x /\ \A q \in Packers \ {p} : packer'[q] = packer[q]
    BY <1>1, <1>2, <1>3, PackerMoves
<1>5. Grown /\ Archived' = Archived
    BY <1>1 DEF Grown, Archived
<1>6. p \in alone => Archived \subseteq Findable'
    <2>1. p \in alone => manifest' = DOMAIN archives'
        BY <1>1 DEF ListsAll
    <2> QED
        BY <2>1, <1>5, GrownFacts
<1>7. FoundOK(p)' /\ ListsAll(p)'
    BY <1>1, <1>3, <1>4, <1>5, <1>6 DEF FoundOK, ListsAll
<1>8. \A q \in Packers : NamesOK(q)'
    BY <1>1, <1>3, <1>4, NamesKept
<1>9. ~overlapped' => Archived \subseteq Findable' /\ p \in alone
    BY <1>1, <1>6 DEF AloneOK
<1> QED
    BY <1>1, <1>4, <1>5, <1>7, <1>8, <1>9, PackerStep

(* What is deleted is in an archive, listed unless packers overlapped.     *)
LEMMA UnlinkFileStep ==
    ASSUME IInv, NEW p \in Packers, UnlinkFile(p)
    PROVE  IInv'
<1>1. /\ ShapeInv /\ PackersInv /\ FoundOK(p) /\ ListsAll(p) /\ AloneOK(p)
      /\ Running(p) /\ packer[p].at = "unlink" /\ PackerOnly
      /\ UNCHANGED <<archives, unfinished, manifest, writer, reader, alone, overlapped>>
    BY DEF IInv, PackersInv, UnlinkFile, Running, PackerOnly, history
<1>2. PICK h \in packer[p].found :
         loose' = loose \ {h} /\ packer' = [packer EXCEPT ![p].found = @ \ {h}]
    BY DEF UnlinkFile
<1> DEFINE x == [packer[p] EXCEPT !.found = @ \ {h}]
<1>3. DOMAIN packer[p] = {"at", "found"} /\ DOMAIN packer = Packers
    BY <1>1 DEF ShapeInv, Fields
<1>4. packer' = [packer EXCEPT ![p] = x]
    BY <1>2, <1>3
<1>5. x.at = "unlink" /\ DOMAIN x = Fields(x.at) /\ x.found = packer[p].found \ {h}
    BY <1>1, <1>3 DEF Fields
<1> HIDE DEF x
<1>6. ShapeInv' /\ packer'[p] = x /\ \A q \in Packers \ {p} : packer'[q] = packer[q]
    BY <1>1, <1>4, <1>5, PackerMoves
<1>7. Grown /\ Archived' = Archived /\ Findable' = Findable
    BY <1>1 DEF Grown, Archived, Findable, Listed
<1>8. h \in Archived /\ (~overlapped => h \in Findable)
    BY <1>1, <1>2 DEF FoundOK, ListsAll, AloneOK
<1>9. FoundOK(p)' /\ ListsAll(p)'
    BY <1>1, <1>5, <1>6, <1>7 DEF FoundOK, ListsAll
<1>10. \A q \in Packers : NamesOK(q)'
    BY <1>1, <1>5, <1>6, NamesKept
<1> QED
    BY <1>1, <1>2, <1>6, <1>7, <1>8, <1>9, <1>10, PackerStep

-----------------------------------------------------------------------------
(* The invariant                                                           *)

LEMMA PackerSteps ==
    ASSUME NoCollision, IInv, NEW p \in Packers,
           \/ StartPacking(p) \/ GlobFiles(p) \/ SkipMissing(p) \/ ChooseName(p)
           \/ WriteArchive(p) \/ RenameArchive(p) \/ GlobArchives(p) \/ WriteManifest(p) \/ UnlinkFile(p)
           \/ RemoveDirs(p) \/ KillPacker(p)
    PROVE  IInv'
<1>1. CASE RemoveDirs(p)
    BY <1>1, StopStep DEF RemoveDirs, Running, history
<1>2. CASE KillPacker(p)
    BY <1>2, StopStep DEF KillPacker, files, history
<1> QED
    BY <1>1, <1>2, StartPackingStep, GlobFilesStep, SkipMissingStep, ChooseNameStep,
       WriteArchiveStep, RenameArchiveStep, GlobArchivesStep, WriteManifestStep, UnlinkFileStep

LEMMA InitIInv == Init => IInv
<1> SUFFICES ASSUME Init
             PROVE  IInv
    OBVIOUS
<1>1. /\ packer = [p \in Packers |-> [at |-> "idle"]]
      /\ reader = [r \in Readers |-> [at |-> "idle", map |-> Nowhere]]
      /\ writer \in [Writers -> [at : {"idle"}, hash : {CHOOSE h \in Hashes : TRUE}]]
      /\ stored = {} /\ missed = {} /\ alone = {}
    BY DEF Init
<1>2. \A p \in Packers : packer[p] = [at |-> "idle"]
    BY <1>1
<1>3. \A r \in Readers : reader[r] = [at |-> "idle", map |-> Nowhere]
    BY <1>1
<1>4. ShapeInv
    BY <1>1, <1>2, <1>3 DEF ShapeInv, Fields
<1>5. PackersInv
    BY <1>2 DEF PackersInv, NamesOK, FoundOK, AloneOK, ListsAll, Running
<1>6. ReadersInv
    BY <1>3 DEF ReadersInv, ReaderOK, Nowhere
<1>7. NothingLost /\ SourcesFindable /\ LookupsSucceed
    BY <1>1 DEF NothingLost, SourcesFindable, LookupsSucceed
<1> QED
    BY <1>4, <1>5, <1>6, <1>7 DEF IInv

LEMMA StutterIInv ==
    ASSUME IInv, UNCHANGED vars
    PROVE  IInv'
BY DEF IInv, vars, ShapeInv, PackersInv, ReadersInv, NamesOK, FoundOK, AloneOK, ListsAll, ReaderOK,
       Saving, Running, Others, Archived, Findable, Listed, LoadManifest,
       NothingLost, SourcesFindable, LookupsSucceed

LEMMA NextIInv ==
    ASSUME NoCollision, IInv, [Next]_vars
    PROVE  IInv'
BY WriterSteps, PackerSteps, ReaderSteps, LookUpStep, StutterIInv DEF Next

LEMMA Invariant ==
    ASSUME NoCollision
    PROVE  Spec => []IInv
<1>1. IInv /\ [Next]_vars => IInv'
    BY NextIInv
<1> QED
    BY <1>1, InitIInv, PTL DEF Spec

(* A packer deletes a file only when an archive that stays has its source, *)
(* with any number of packers beside each other, killed anywhere: no two   *)
(* of them must have chosen the same name at the same time.                *)
THEOREM NoSourceIsLost ==
    ASSUME NoCollision
    PROVE  Spec => []NothingLost
<1>1. IInv => NothingLost
    BY DEF IInv
<1> QED
    BY <1>1, Invariant, PTL

(* get_source_by_hash() could find every source at every moment: it is a   *)
(* file, or in an archive that the manifest lists, except from packers     *)
(* that overlap to the next one that runs alone.                           *)
THEOREM SourcesStayFindable ==
    ASSUME NoCollision
    PROVE  Spec => []SourcesFindable
<1>1. IInv => SourcesFindable
    BY DEF IInv
<1> QED
    BY <1>1, Invariant, PTL

(* The two lookups and the manifest that is loaded in between, each at     *)
(* another moment, find what was stored before the first.                  *)
THEOREM NoLookupMisses ==
    ASSUME NoCollision
    PROVE  Spec => []LookupsSucceed
<1>1. IInv => LookupsSucceed
    BY DEF IInv
<1> QED
    BY <1>1, Invariant, PTL

-----------------------------------------------------------------------------
(* Least and greatest elements                                             *)

LEMMA LeastNumber ==
    ASSUME NEW T \in SUBSET Nat, T # {}
    PROVE  \E m \in T : \A i \in T : m <= i
<1>1. PICK m \in T : \A i \in T : <<i, m>> \notin OpToRel(<, Nat)
    BY NatLessThanWellFounded, WFMin, Zenon
<1>2. \A i \in T : ~(i < m)
    BY <1>1 DEF OpToRel
<1> QED
    BY <1>2

LEMMA MinIs ==
    ASSUME NEW T \in SUBSET Nat, T # {}
    PROVE  Min(T) \in T /\ \A i \in T : Min(T) <= i
BY LeastNumber DEF Min

LEMMA MaxIs ==
    ASSUME NEW k \in Nat, NEW T \in SUBSET (1 .. k), T # {}
    PROVE  Max(T) \in T /\ \A i \in T : i <= Max(T)
<1> DEFINE U == {k - i : i \in T}
<1>1. PICK m \in U : \A j \in U : m <= j
    <2>1. U \in SUBSET Nat
        OBVIOUS
    <2>2. PICK i \in T : TRUE
        OBVIOUS
    <2>3. k - i \in U
        OBVIOUS
    <2> HIDE DEF U
    <2> QED
        BY <2>1, <2>3, LeastNumber
<1>2. PICK x \in T : m = k - x
    BY <1>1
<1>3. \A i \in T : x >= i
    <2> TAKE i \in T
    <2>1. k - i \in U
        OBVIOUS
    <2> QED
        BY <1>1, <1>2, <2>1
<1> QED
    BY <1>3 DEF Max

LEMMA NumbersBounded ==
    ASSUME NEW T \in SUBSET Nat, IsFiniteSet(T)
    PROVE  \E k \in Nat : \A n \in T : n <= k
<1> DEFINE c == Cardinality(T)
<1>1. c \in Nat /\ ExistsBijection(1 .. c, T)
    BY FS_CardinalityType
<1>2. PICK g \in [1 .. c -> T] : \A n \in T : \E i \in 1 .. c : g[i] = n
    BY <1>1 DEF ExistsBijection, Bijection, Surjection
<1> HIDE DEF c
<1> DEFINE Bounded(j, k) == \A i \in 1 .. c : i <= j => g[i] <= k
           Bad == {j \in Nat : j <= c /\ ~\E k \in Nat : Bounded(j, k)}
<1>3. Bad = {}
    <2> SUFFICES ASSUME Bad # {}
                 PROVE  FALSE
        OBVIOUS
    <2>1. PICK m \in Bad : \A j \in Bad : m <= j
        <3>1. Bad \in SUBSET Nat
            OBVIOUS
        <3> HIDE DEF Bad
        <3> QED
            BY <3>1, LeastNumber
    <2>2. m \in Nat /\ m <= c /\ m # 0
        <3>1. Bounded(0, 0)
            OBVIOUS
        <3> QED
            BY <2>1, <3>1
    <2>3. PICK k \in Nat : Bounded(m - 1, k)
        <3>1. m - 1 \in Nat /\ m - 1 <= c /\ ~(m <= m - 1)
            BY <1>1, <2>2
        <3>2. m - 1 \notin Bad
            <4> HIDE DEF Bad
            <4> QED
                BY <2>1, <3>1
        <3> HIDE DEF Bounded
        <3> QED
            BY <3>1, <3>2
    <2>4. g[m] \in Nat
        <3>1. m \in 1 .. c
            BY <1>1, <2>2
        <3>2. g[m] \in T
            BY <1>2, <3>1
        <3> QED
            BY <3>2
    <2>5. k \in Nat /\ k + g[m] \in Nat /\ k <= k + g[m] /\ g[m] <= k + g[m]
        <3> HIDE DEF Bounded
        <3>1. k \in Nat
            BY <2>3
        <3> QED
            BY <2>4, <3>1
    <2>6. Bounded(m, k + g[m])
        <3> SUFFICES ASSUME NEW i \in 1 .. c, i <= m
                     PROVE  g[i] <= k + g[m]
            OBVIOUS
        <3>1. g[i] \in Nat
            BY <1>2
        <3>2. CASE i = m
            BY <2>5, <3>2
        <3>3. CASE i # m
            <4>1. i <= m - 1
                BY <2>2, <3>3
            <4>2. g[i] <= k
                BY <2>3, <4>1
            <4> QED
                <5> HIDE DEF Bounded
                <5>1. \A u, v, w \in Nat : u <= v /\ v <= w => u <= w
                    OBVIOUS
                <5> QED
                    BY <2>5, <3>1, <4>2, <5>1
        <3> QED
            BY <3>2, <3>3
    <2> HIDE DEF Bounded
    <2> QED
        BY <2>1, <2>6, <2>5
<1>4. PICK k \in Nat : Bounded(c, k)
    <2>1. c \in Nat /\ c <= c /\ c \notin Bad
        <3> HIDE DEF Bad
        <3> QED
            BY <1>1, <1>3
    <2> HIDE DEF Bounded
    <2> QED
        BY <2>1
<1>5. \A n \in T : n <= k
    BY <1>1, <1>2, <1>4
<1> QED
    BY <1>5

(* A function that goes on at the next place until it stops exists, if     *)
(* every next place has a lower rank.                                      *)
Ranked(X, S, next, rank, k) ==
    k \in Nat /\ rank \in [X -> 0 .. k]
    /\ \A x \in X \ S : next[x] \in X /\ rank[next[x]] < rank[x]
Descent(t, X, S, base, more, next) ==
    t = [x \in X |-> IF x \in S THEN base[x] ELSE more[x] \cup t[next[x]]]

LEMMA Descends ==
    ASSUME NEW X, NEW S, NEW base, NEW more, NEW next, NEW rank, NEW k,
           Ranked(X, S, next, rank, k)
    PROVE  \E t : Descent(t, X, S, base, more, next)
<1> USE DEF Ranked
<1> DEFINE Body(t, x) == IF x \in S THEN base[x] ELSE more[x] \cup t[next[x]]
           UpTo(t, a) == \A x \in X : rank[x] < a => t[x] = Body(t, x)
           Bad == {a \in Nat : ~\E t : UpTo(t, a)}
<1>1. Bad = {}
    <2> SUFFICES ASSUME Bad # {}
                 PROVE  FALSE
        OBVIOUS
    <2>1. PICK m \in Bad : \A a \in Bad : m <= a
        <3>1. Bad \in SUBSET Nat
            OBVIOUS
        <3> HIDE DEF Bad
        <3> QED
            BY <3>1, LeastNumber
    <2>2. m \in Nat /\ m # 0
        <3>1. UpTo(<<>>, 0)
            OBVIOUS
        <3> QED
            BY <2>1, <3>1
    <2>3. PICK t : UpTo(t, m - 1)
        <3>1. m - 1 \in Nat /\ ~(m <= m - 1)
            BY <2>2
        <3>2. m - 1 \notin Bad
            <4> HIDE DEF Bad
            <4> QED
                BY <2>1, <3>1
        <3> HIDE DEF UpTo
        <3> QED
            BY <3>1, <3>2
    <2> DEFINE u == [x \in X |-> IF rank[x] < m - 1 THEN t[x] ELSE Body(t, x)]
    <2>4. ASSUME NEW x \in X, rank[x] < m
          PROVE  u[x] = Body(u, x)
        <3>1. u[x] = Body(t, x)
            BY <2>3
        <3>2. x \notin S => u[next[x]] = t[next[x]]
            BY <2>2, <2>4
        <3> QED
            BY <3>1, <3>2
    <2>5. UpTo(u, m)
        BY <2>4
    <2> QED
        BY <2>1, <2>5
<1>2. PICK t : UpTo(t, k + 1)
    <2>1. k + 1 \in Nat /\ k + 1 \notin Bad
        <3> HIDE DEF Bad
        <3> QED
            BY <1>1
    <2> HIDE DEF UpTo
    <2> QED
        BY <2>1
<1> DEFINE u == [x \in X |-> t[x]]
<1>3. \A x \in X : u[x] = Body(u, x)
    <2> TAKE x \in X
    <2>1. rank[x] < k + 1
        OBVIOUS
    <2>2. t[x] = Body(t, x)
        <3> HIDE DEF Body
        <3> QED
            BY <1>2, <2>1
    <2>3. x \notin S => u[next[x]] = t[next[x]]
        OBVIOUS
    <2> QED
        BY <2>2, <2>3
<1>4. u = [x \in X |-> Body(u, x)]
    BY <1>3
<1> QED
    BY <1>4 DEF Descent

-----------------------------------------------------------------------------
(* Genealogy                                                               *)

LEMMA Genealogy ==
    \E age \in [Processes -> 0 .. Cardinality(Processes)] :
        \A p \in Processes : Younger(age, p)
<1>1. Cardinality(Processes) \in Nat
    BY IndexAssumption, FS_CardinalityType
<1>2. PICK age \in [Processes -> 1 .. Cardinality(Processes)] :
         \A p \in Processes : Younger(age, p)
    BY GenealogyAssumption
<1>3. age \in [Processes -> 0 .. Cardinality(Processes)]
    BY <1>1
<1> QED
    BY <1>2, <1>3

LEMMA ParentIs ==
    ASSUME NEW p \in Processes, Parent[p] # NoParent
    PROVE  /\ Parent[p] \in Files /\ Parent[p].process \in Processes
           /\ Inherited[Parent[p].process] <= Inherited[p]
<1>1. Parent[p] \in Files
    BY IndexAssumption
<1>2. PICK age : \A q \in Processes : Younger(age, q)
    BY GenealogyAssumption
<1> QED
    BY <1>1, <1>2 DEF Files, Younger

(* Among any processes there is one whose parent is not one of them.       *)
LEMMA Oldest ==
    ASSUME NEW B \in SUBSET Processes, B # {}
    PROVE  \E p \in B : Parent[p] # NoParent => Parent[p].process \notin B
<1>1. Cardinality(Processes) \in Nat
    BY IndexAssumption, FS_CardinalityType
<1>2. PICK age \in [Processes -> 0 .. Cardinality(Processes)] :
         \A p \in Processes : Younger(age, p)
    BY Genealogy
<1> DEFINE T == {age[p] : p \in B}
<1>3. PICK m \in T : \A i \in T : m <= i
    <2>1. T \in SUBSET Nat /\ T # {}
        BY <1>1
    <2> HIDE DEF T
    <2> QED
        BY <2>1, LeastNumber
<1>4. PICK p \in B : m = age[p]
    BY <1>3
<1>5. Parent[p] # NoParent => age[Parent[p].process] < age[p] /\ Parent[p].process \in Processes
    BY <1>2, ParentIs DEF Younger
<1>6. Parent[p] # NoParent => Parent[p].process \notin B
    <2> SUFFICES ASSUME Parent[p] # NoParent, Parent[p].process \in B
                 PROVE  FALSE
        OBVIOUS
    <2>1. age[Parent[p].process] \in T
        OBVIOUS
    <2>2. age[p] <= age[Parent[p].process]
        BY <1>3, <1>4, <2>1
    <2> QED
        BY <1>1, <1>2, <1>5, <2>2
<1> QED
    BY <1>6

LEMMA RanByIs ==
    ASSUME NEW n \in Nat, NEW p \in Processes
    PROVE  RanBy(n)[p] = IF Parent[p] = NoParent \/ n > Inherited[p] THEN p
                         ELSE RanBy(n)[Parent[p].process]
<1>1. Cardinality(Processes) \in Nat
    BY IndexAssumption, FS_CardinalityType
<1>2. PICK age \in [Processes -> 0 .. Cardinality(Processes)] :
         \A q \in Processes : Younger(age, q)
    BY Genealogy
<1> DEFINE S == {q \in Processes : Parent[q] = NoParent \/ n > Inherited[q]}
           base == [q \in Processes |-> q]
           more == [q \in Processes |-> {}]
           next == [q \in Processes |-> Parent[q].process]
<1>3. \A q \in Processes \ S : next[q] \in Processes /\ age[next[q]] < age[q]
    BY <1>2, ParentIs DEF Younger
<1>4. PICK t : Descent(t, Processes, S, base, more, next)
    <2> HIDE DEF S, base, more, next
    <2>1. Ranked(Processes, S, next, age, Cardinality(Processes))
        BY <1>1, <1>2, <1>3 DEF Ranked
    <2> QED
        BY <2>1, Descends
<1>5. \A q \in Processes :
         t[q] = IF Parent[q] = NoParent \/ n > Inherited[q] THEN q ELSE t[Parent[q].process]
    <2> TAKE q \in Processes
    <2>1. t[q] = IF q \in S THEN base[q] ELSE more[q] \cup t[next[q]]
        BY <1>4 DEF Descent
    <2>2. {} \cup t[next[q]] = t[next[q]]
        OBVIOUS
    <2> QED
        BY <2>1, <2>2
<1>6. t = [q \in Processes |->
              IF Parent[q] = NoParent \/ n > Inherited[q] THEN q ELSE t[Parent[q].process]]
    BY <1>4, <1>5 DEF Descent
<1> HIDE DEF S, base, more, next
<1> DEFINE Is(r) == r = [q \in Processes |->
              IF Parent[q] = NoParent \/ n > Inherited[q] THEN q ELSE r[Parent[q].process]]
<1>7. Is(RanBy(n))
    <2>1. RanBy(n) = CHOOSE r : Is(r)
        BY DEF RanBy
    <2>2. Is(t)
        BY <1>6
    <2> HIDE DEF Is
    <2> QED
        BY <2>1, <2>2
<1> QED
    BY <1>7

-----------------------------------------------------------------------------
(* Lookups                                                                 *)

LEMMA FilesRanked ==
    ASSUME NEW S, \A f \in Files \ S : Parent[f.process] # NoParent
    PROVE  \E rank : Ranked(Files, S, [f \in Files |-> Parent[f.process]], rank,
                            Cardinality(Processes))
<1>1. Cardinality(Processes) \in Nat
    BY IndexAssumption, FS_CardinalityType
<1>2. PICK age \in [Processes -> 0 .. Cardinality(Processes)] :
         \A q \in Processes : Younger(age, q)
    BY Genealogy
<1>3. \A f \in Files : f.process \in Processes
    BY DEF Files
<1> DEFINE rank == [f \in Files |-> age[f.process]]
           next == [f \in Files |-> Parent[f.process]]
<1>4. rank \in [Files -> 0 .. Cardinality(Processes)]
    BY <1>3
<1>5. ASSUME NEW f \in Files \ S
      PROVE  next[f] \in Files /\ rank[next[f]] < rank[f]
    <2>1. Parent[f.process] # NoParent /\ f.process \in Processes
        BY <1>3
    <2>2. Parent[f.process] \in Files /\ age[Parent[f.process].process] < age[f.process]
        BY <1>2, <2>1, ParentIs DEF Younger
    <2> QED
        BY <2>2
<1> HIDE DEF rank, next
<1>6. Ranked(Files, S, next, rank, Cardinality(Processes))
    BY <1>1, <1>4, <1>5 DEF Ranked
<1> QED
    BY <1>6 DEF next

LEMMA HashFromIs ==
    ASSUME NEW index, NEW n, NEW f \in Files
    PROVE  HashFrom(index, n)[f] =
               IF Having(index, f, n) # {}
               THEN HashIn(index[[f EXCEPT !.ordinal = Max(Having(index, f, n))]], n)
               ELSE IF Parent[f.process] = NoParent THEN Hole
               ELSE HashFrom(index, n)[Parent[f.process]]
<1> DEFINE Found(g) == HashIn(index[[g EXCEPT !.ordinal = Max(Having(index, g, n))]], n)
           S == {g \in Files : Having(index, g, n) # {} \/ Parent[g.process] = NoParent}
           base == [g \in Files |-> IF Having(index, g, n) # {} THEN Found(g) ELSE Hole]
           more == [g \in Files |-> {}]
           next == [g \in Files |-> Parent[g.process]]
           Is(r) == r = [g \in Files |->
                            IF Having(index, g, n) # {} THEN Found(g)
                            ELSE IF Parent[g.process] = NoParent THEN Hole
                            ELSE r[Parent[g.process]]]
<1> HIDE DEF Found
<1>1. \A g \in Files \ S : Parent[g.process] # NoParent
    OBVIOUS
<1>2. PICK t : Descent(t, Files, S, base, more, next)
    <2> HIDE DEF S, base, more
    <2>1. PICK rank : Ranked(Files, S, next, rank, Cardinality(Processes))
        BY <1>1, FilesRanked
    <2> HIDE DEF next
    <2> QED
        BY <2>1, Descends
<1>3. ASSUME NEW g \in Files
      PROVE  t[g] = IF Having(index, g, n) # {} THEN Found(g)
                    ELSE IF Parent[g.process] = NoParent THEN Hole
                    ELSE t[Parent[g.process]]
    <2>1. t[g] = IF g \in S THEN base[g] ELSE more[g] \cup t[next[g]]
        BY <1>2 DEF Descent
    <2>2. {} \cup t[next[g]] = t[next[g]]
        OBVIOUS
    <2> QED
        BY <2>1, <2>2
<1>4. Is(t)
    <2>1. t = [g \in Files |-> t[g]]
        BY <1>2 DEF Descent
    <2> QED
        BY <1>3, <2>1
<1>5. Is(HashFrom(index, n))
    <2>1. HashFrom(index, n) = CHOOSE r : Is(r)
        BY DEF HashFrom, Found
    <2> HIDE DEF Is
    <2> QED
        BY <1>4, <2>1
<1> QED
    BY <1>5 DEF Found

LEMMA HashFromElsewhere ==
    ASSUME NEW index, NEW n, NEW f \in Files, Having(index, f, n) = {}
    PROVE  HashFrom(index, n)[f] = IF Parent[f.process] = NoParent THEN Hole
                                   ELSE HashFrom(index, n)[Parent[f.process]]
<1> DEFINE having == Having(index, f, n)
           found == HashIn(index[[f EXCEPT !.ordinal = Max(having)]], n)
<1>1. HashFrom(index, n)[f] = IF having # {} THEN found
                              ELSE IF Parent[f.process] = NoParent THEN Hole
                              ELSE HashFrom(index, n)[Parent[f.process]]
    BY HashFromIs, ZenonT(60)
<1>2. having = {}
    OBVIOUS
<1> HIDE DEF having, found
<1> QED
    BY <1>1, <1>2

LEMMA LineIs ==
    ASSUME NEW f \in Files
    PROVE  Line[f] = {[f EXCEPT !.ordinal = o] : o \in 1 .. f.ordinal}
                     \cup IF Parent[f.process] = NoParent THEN {} ELSE Line[Parent[f.process]]
<1> DEFINE Own(g) == {[g EXCEPT !.ordinal = o] : o \in 1 .. g.ordinal}
           S == {g \in Files : Parent[g.process] = NoParent}
           base == [g \in Files |-> Own(g)]
           next == [g \in Files |-> Parent[g.process]]
           Is(r) == r = [g \in Files |->
                            Own(g) \cup IF Parent[g.process] = NoParent THEN {}
                                        ELSE r[Parent[g.process]]]
<1> HIDE DEF Own
<1>1. \A g \in Files \ S : Parent[g.process] # NoParent
    OBVIOUS
<1>2. PICK t : Descent(t, Files, S, base, base, next)
    <2> HIDE DEF S, base
    <2>1. PICK rank : Ranked(Files, S, next, rank, Cardinality(Processes))
        BY <1>1, FilesRanked
    <2> HIDE DEF next
    <2> QED
        BY <2>1, Descends
<1>3. ASSUME NEW g \in Files
      PROVE  t[g] = Own(g) \cup IF Parent[g.process] = NoParent THEN {}
                                ELSE t[Parent[g.process]]
    <2>1. t[g] = IF g \in S THEN base[g] ELSE base[g] \cup t[next[g]]
        BY <1>2 DEF Descent
    <2>2. Own(g) \cup {} = Own(g)
        OBVIOUS
    <2> QED
        BY <2>1, <2>2
<1>4. Is(t)
    <2>1. t = [g \in Files |-> t[g]]
        BY <1>2 DEF Descent
    <2> QED
        BY <1>3, <2>1
<1>5. Is(Line)
    <2>1. Line = CHOOSE r : Is(r)
        BY DEF Line, Own
    <2> HIDE DEF Is
    <2> QED
        BY <1>4, <2>1
<1> QED
    BY <1>5 DEF Own

LEMMA LineFiles ==
    ASSUME NEW f \in Files
    PROVE  Line[f] \subseteq Files
<1> DEFINE B == {p \in Processes : \E g \in Files : g.process = p /\ ~(Line[g] \subseteq Files)}
<1> SUFFICES ASSUME B # {}
             PROVE  FALSE
    BY DEF Files
<1>1. PICK p \in B : Parent[p] # NoParent => Parent[p].process \notin B
    <2>1. B \in SUBSET Processes
        OBVIOUS
    <2> HIDE DEF B
    <2> QED
        BY <2>1, Oldest
<1>2. PICK g \in Files : g.process = p /\ ~(Line[g] \subseteq Files)
    BY <1>1
<1>3. {[g EXCEPT !.ordinal = o] : o \in 1 .. g.ordinal} \subseteq Files
    <2> SUFFICES ASSUME NEW o \in 1 .. g.ordinal
                 PROVE  [g EXCEPT !.ordinal = o] \in Files
        OBVIOUS
    <2>1. g.ordinal \in 1 .. LastOrdinal[g.process] /\ g.process \in Processes
          /\ g.ordinal \in Nat /\ LastOrdinal[g.process] \in Nat
        BY IndexAssumption DEF Files
    <2>2. [g EXCEPT !.ordinal = o] = [process |-> g.process, ordinal |-> o]
        BY DEF Files
    <2>3. o \in 1 .. LastOrdinal[g.process]
        BY <2>1
    <2> QED
        BY <2>1, <2>2, <2>3 DEF Files
<1>4. Parent[p] # NoParent => Line[Parent[p]] \subseteq Files
    <2> SUFFICES ASSUME Parent[p] # NoParent
                 PROVE  Line[Parent[p]] \subseteq Files
        OBVIOUS
    <2>1. Parent[p] \in Files /\ Parent[p].process \in Processes
        BY <1>1, ParentIs
    <2> QED
        BY <1>1, <2>1
<1> QED
    BY <1>2, <1>3, <1>4, LineIs

(* A file that a process may find evals in, and that is not its own, ended *)
(* before the process started.                                             *)
LEMMA LineEndedBefore ==
    ASSUME NEW n \in Nat, NEW q \in Processes, Parent[q] # NoParent,
           NEW g \in Line[Parent[q]], n \in Possible(g)
    PROVE  n <= Inherited[q]
<1> DEFINE B == {p \in Processes : Parent[p] # NoParent /\
                   \E h \in Line[Parent[p]] : n \in Possible(h) /\ ~(n <= Inherited[p])}
<1> SUFFICES ASSUME B # {}
             PROVE  FALSE
    OBVIOUS
<1>1. PICK p \in B : Parent[p] # NoParent => Parent[p].process \notin B
    <2>1. B \in SUBSET Processes
        OBVIOUS
    <2> HIDE DEF B
    <2> QED
        BY <2>1, Oldest
<1>2. PICK h \in Line[Parent[p]] : n \in Possible(h) /\ ~(n <= Inherited[p])
    BY <1>1
<1> DEFINE f == Parent[p]
<1>3. /\ p \in Processes /\ f # NoParent /\ f \in Files /\ f.process \in Processes
      /\ Inherited[f.process] <= Inherited[p] /\ f.process \notin B
      /\ Inherited[p] \in Nat /\ Inherited[f.process] \in Nat
    BY <1>1, ParentIs, IndexAssumption
<1>4. CASE h \in {[f EXCEPT !.ordinal = o] : o \in 1 .. f.ordinal}
    <2>1. h.process = f.process /\ h.ordinal <= f.ordinal
        BY <1>3, <1>4 DEF Files
    <2> QED
        BY <1>2, <1>3, <2>1 DEF Possible
<1>5. CASE Parent[f.process] # NoParent /\ h \in Line[Parent[f.process]]
    <2>1. n <= Inherited[f.process]
        BY <1>2, <1>3, <1>5
    <2> QED
        BY <1>2, <1>3, <2>1
<1> QED
    BY <1>2, <1>3, <1>4, <1>5, LineIs

(* h is what may be kept for number n of file f, if the evals as arrived.  *)
Right(h, f, n, as) == h = Hole \/ (h = Source(f.process, n) /\ n \in as)

LEMMA SourceOfParent ==
    ASSUME NEW p \in Processes, Parent[p] # NoParent, NEW n \in Nat, n <= Inherited[p]
    PROVE  Source(p, n) = Source(Parent[p].process, n)
<1>1. ~(n > Inherited[p])
    BY IndexAssumption
<1> QED
    BY <1>1, RanByIs DEF Source

LEMMA HavingIs ==
    ASSUME NEW index, NEW n, NEW f \in Files, Having(index, f, n) # {}
    PROVE  LET g == [f EXCEPT !.ordinal = Max(Having(index, f, n))]
           IN  g \in Line[f] /\ g.process = f.process /\ Known(index[g], n)
<1> DEFINE o == Max(Having(index, f, n))
<1>1. f.ordinal \in Nat
    BY IndexAssumption DEF Files
<1>2. o \in Having(index, f, n)
    BY <1>1, MaxIs DEF Having
<1>3. o \in 1 .. f.ordinal /\ Known(index[[f EXCEPT !.ordinal = o]], n)
    BY <1>2 DEF Having
<1>4. [f EXCEPT !.ordinal = o].process = f.process
    BY DEF Files
<1> HIDE DEF o
<1>5. [f EXCEPT !.ordinal = o] \in Line[f]
    BY <1>3, LineIs
<1> QED
    BY <1>3, <1>4, <1>5 DEF o

(* What a lookup finds is what one of the files of the process has for it, *)
(* and the source of the process; it finds nothing only if no file has it. *)
Finds(index, as, f, n) ==
    LET h == HashFrom(index, n)[f] IN
    /\ h # Hole => \E g \in Line[f] : n \in as[g] /\ h = Source(f.process, n)
    /\ h = Hole => \/ \A g \in Line[f] : ~Known(index[g], n)
                   \/ \E g \in Line[f] : Known(index[g], n) /\ HashIn(index[g], n) = Hole

LEMMA LookupFinds ==
    ASSUME NEW index, NEW as, NEW n \in Nat,
           \A g \in Files : as[g] \subseteq Possible(g),
           \A g \in Files : Known(index[g], n) => Right(HashIn(index[g], n), g, n, as[g]),
           NEW f \in Files
    PROVE  Finds(index, as, f, n)
<1> DEFINE B == {p \in Processes : \E g \in Files : g.process = p /\ ~Finds(index, as, g, n)}
<1>1. f.process \in Processes
    BY DEF Files
<1> SUFFICES ASSUME B # {}
             PROVE  FALSE
    BY <1>1
<1>2. PICK p \in B : Parent[p] # NoParent => Parent[p].process \notin B
    <2>1. B \in SUBSET Processes
        OBVIOUS
    <2> HIDE DEF B
    <2> QED
        BY <2>1, Oldest
<1>3. PICK g \in Files : g.process = p /\ ~Finds(index, as, g, n)
    BY <1>2
<1>4. p \in Processes
    BY <1>2
<1>5. CASE Having(index, g, n) # {}
    <2> DEFINE d == [g EXCEPT !.ordinal = Max(Having(index, g, n))]
    <2>1. d \in Line[g] /\ d.process = g.process /\ Known(index[d], n)
        BY <1>3, <1>5, HavingIs
    <2>2. HashFrom(index, n)[g] = HashIn(index[d], n)
        BY <1>5, HashFromIs
    <2>3. d \in Files
        <3>1. g.ordinal \in 1 .. LastOrdinal[g.process] /\ g.process \in Processes
              /\ g.ordinal \in Nat /\ LastOrdinal[g.process] \in Nat
            BY IndexAssumption DEF Files
        <3>2. Max(Having(index, g, n)) \in 1 .. g.ordinal
            BY <1>5, <3>1, MaxIs DEF Having
        <3>3. d = [process |-> g.process, ordinal |-> Max(Having(index, g, n))]
            BY DEF Files
        <3>4. Max(Having(index, g, n)) \in 1 .. LastOrdinal[g.process]
            BY <3>1, <3>2
        <3> HIDE DEF d
        <3> QED
            BY <3>1, <3>3, <3>4 DEF Files
    <2> HIDE DEF d
    <2>4. Right(HashIn(index[d], n), d, n, as[d])
        BY <2>1, <2>3
    <2>5. CASE HashIn(index[d], n) = Hole
        BY <1>3, <2>1, <2>2, <2>5 DEF Finds
    <2>6. CASE HashIn(index[d], n) # Hole
        BY <1>3, <2>1, <2>2, <2>4, <2>6 DEF Finds, Right
    <2> QED
        BY <2>5, <2>6
<1>6. ASSUME Having(index, g, n) = {}
      PROVE  \A d \in {[g EXCEPT !.ordinal = o] : o \in 1 .. g.ordinal} : ~Known(index[d], n)
    BY <1>6 DEF Having
<1>7. CASE Having(index, g, n) = {} /\ Parent[p] = NoParent
    <2>1. HashFrom(index, n)[g] = Hole
        BY <1>3, <1>7, HashFromElsewhere
    <2>2. \A d \in Line[g] : ~Known(index[d], n)
        BY <1>3, <1>6, <1>7, LineIs
    <2> QED
        BY <1>3, <2>1, <2>2 DEF Finds
<1>8. CASE Having(index, g, n) = {} /\ Parent[p] # NoParent
    <2>1. Parent[p] \in Files /\ Parent[p].process \in Processes
        BY <1>4, <1>8, ParentIs
    <2>2. Finds(index, as, Parent[p], n)
        BY <1>2, <1>8, <2>1
    <2>3. HashFrom(index, n)[g] = HashFrom(index, n)[Parent[p]]
        <3>1. g.process = p /\ Having(index, g, n) = {} /\ Parent[g.process] # NoParent
            BY <1>3, <1>8
        <3> QED
            BY <3>1, HashFromElsewhere
    <2>4. Line[g] = {[g EXCEPT !.ordinal = o] : o \in 1 .. g.ordinal} \cup Line[Parent[p]]
        BY <1>3, <1>8, LineIs
    <2>5. CASE HashFrom(index, n)[g] = Hole
        <3>1. \/ \A d \in Line[g] : ~Known(index[d], n)
              \/ \E d \in Line[g] : Known(index[d], n) /\ HashIn(index[d], n) = Hole
            BY <1>6, <1>8, <2>2, <2>3, <2>4, <2>5 DEF Finds
        <3> QED
            BY <1>3, <2>5, <3>1 DEF Finds
    <2>6. CASE HashFrom(index, n)[g] # Hole
        <3>1. PICK d \in Line[Parent[p]] :
                 n \in as[d] /\ HashFrom(index, n)[g] = Source(Parent[p].process, n)
            BY <2>2, <2>3, <2>6 DEF Finds
        <3>2. n <= Inherited[p]
            <4>1. d \in Files
                BY <2>1, <3>1, LineFiles
            <4> QED
                BY <1>4, <1>8, <3>1, <4>1, LineEndedBefore
        <3>3. HashFrom(index, n)[g] = Source(g.process, n)
            BY <1>3, <1>4, <1>8, <3>1, <3>2, SourceOfParent
        <3> QED
            BY <1>3, <2>4, <2>6, <3>1, <3>3 DEF Finds
    <2> QED
        BY <2>5, <2>6
<1> QED
    BY <1>5, <1>7, <1>8

-----------------------------------------------------------------------------
(* Entries                                                                 *)

Kept == {Hole} \cup (Processes \X Nat)
Entries ==
    [sparse : UNION {[ns -> Kept] : ns \in SUBSET (Nat \ {0})}, first : Nat, packed : Seq(Kept)]

SparseRight(sparse, f, as) ==
    /\ sparse \in UNION {[ns -> Kept] : ns \in SUBSET (Nat \ {0})} /\ IsFiniteSet(DOMAIN sparse)
    /\ \A n \in DOMAIN sparse : Right(sparse[n], f, n, as)
PackedRight(e, f, as) ==
    \A i \in 1 .. Len(e.packed) : Right(e.packed[i], f, e.first + i - 1, as)

(* The entry of file f is right for the evals that arrived.                *)
Fits(e, f, as) ==
    /\ e \in Entries /\ SparseRight(e.sparse, f, as) /\ PackedRight(e, f, as)
    /\ e.first = 0 => e.packed = <<>>
    /\ \A n \in as : Known(e, n)

LEMMA FitsHash ==
    ASSUME NEW f, NEW as, NEW e, Fits(e, f, as), NEW n, Known(e, n)
    PROVE  Right(HashIn(e, n), f, n, as)
<1>1. e.first \in Nat /\ e.packed \in Seq(Kept)
    BY DEF Fits, Entries
<1>2. CASE n \in DOMAIN e.sparse
    BY <1>2 DEF Fits, SparseRight, HashIn
<1>3. CASE n \notin DOMAIN e.sparse
    <2>1. n \in e.first .. After(e) - 1
        BY <1>3 DEF Known
    <2>2. n - e.first + 1 \in 1 .. Len(e.packed) /\ e.first + (n - e.first + 1) - 1 = n
        BY <1>1, <2>1 DEF After
    <2> QED
        BY <1>3, <2>2 DEF Fits, PackedRight, HashIn
<1> QED
    BY <1>2, <1>3

LEMMA NothingFits ==
    ASSUME NEW f
    PROVE  Fits(Nothing, f, {})
<1>1. Nothing.sparse = <<>> /\ Nothing.first = 0 /\ Nothing.packed = <<>>
    BY DEF Nothing
<1>2. DOMAIN <<>> = {} /\ <<>> \in [{} -> Kept]
    OBVIOUS
<1>3. Nothing \in Entries
    BY <1>2 DEF Nothing, Entries
<1>4. IsFiniteSet(DOMAIN <<>>)
    BY <1>2, FS_EmptySet
<1> QED
    BY <1>1, <1>2, <1>3, <1>4 DEF Fits, SparseRight, PackedRight, Entries

(* Consecutive numbers in their order.                                     *)
LEMMA NthOfInterval ==
    ASSUME NEW a \in Nat, NEW b \in Nat, NEW i \in 1 .. b - a + 1
    PROVE  Nth(a .. b, i) = a + i - 1
<1>1. \A n \in a .. b : Cardinality({m \in a .. b : m <= n}) = n - a + 1
    <2> TAKE n \in a .. b
    <2>1. n \in Nat /\ a <= n /\ {m \in a .. b : m <= n} = a .. n
        OBVIOUS
    <2>2. Cardinality(a .. n) = n - a + 1
        BY <2>1, FS_Interval
    <2> QED
        BY <2>1, <2>2
<1>2. a + i - 1 \in a .. b
    OBVIOUS
<1>3. \A n \in a .. b : Cardinality({m \in a .. b : m <= n}) = i <=> n = a + i - 1
    BY <1>1
<1> QED
    BY <1>2, <1>3 DEF Nth

LEMMA HashesOfInterval ==
    ASSUME NEW e, NEW a \in Nat, NEW b \in Nat, a <= b
    PROVE  HashesOf(e, a .. b) = [i \in 1 .. b - a + 1 |-> e.sparse[a + i - 1]]
<1>1. Cardinality(a .. b) = b - a + 1
    BY FS_Interval
<1> QED
    BY <1>1, NthOfInterval DEF HashesOf

LEMMA TakenIs ==
    ASSUME NEW e \in Entries, IsFiniteSet(DOMAIN e.sparse), Contiguous(Taken(e)),
           After(e) \in DOMAIN e.sparse
    PROVE  \E b \in Nat : After(e) <= b /\ Taken(e) = After(e) .. b
<1> DEFINE a == After(e)
           T == Taken(e)
           k == Cardinality(DOMAIN e.sparse)
<1>1. a \in Nat /\ k \in Nat /\ k # 0
    <2>1. a \in Nat
        BY DEF Entries, After
    <2> QED
        BY <2>1, FS_CardinalityType, FS_EmptySet
<1>2. T = DOMAIN e.sparse \cap (a .. a + k - 1)
    BY DEF Taken
<1>3. a # 0
    BY DEF Entries
<1>4. a \in T /\ T \in SUBSET (1 .. a + k - 1) /\ T \in SUBSET Nat /\ \A n \in T : a <= n
    BY <1>1, <1>2, <1>3
<1>5. Min(T) = a
    BY <1>4, MinIs
<1>6. Max(T) \in T
    <2>1. a + k - 1 \in Nat /\ T # {}
        BY <1>1, <1>4
    <2> HIDE DEF T, a, k
    <2> QED
        BY <1>4, <2>1, MaxIs
<1>7. T = Min(T) .. Max(T)
    BY DEF Contiguous
<1> HIDE DEF T, a
<1>8. Max(T) \in Nat /\ a <= Max(T) /\ T = a .. Max(T)
    BY <1>4, <1>5, <1>6, <1>7
<1> QED
    BY <1>8 DEF T, a

LEMMA ExtendFits ==
    ASSUME NEW f, NEW as, NEW e \in Entries, e.first # 0, SparseRight(e.sparse, f, as),
           PackedRight(e, f, as), \A n \in as : Known(e, n),
           Contiguous(Taken(e)), After(e) \in DOMAIN e.sparse
    PROVE  Fits(Extend(e), f, as)
<1>1. PICK b \in Nat : After(e) <= b /\ Taken(e) = After(e) .. b
    BY TakenIs DEF SparseRight
<1> DEFINE a == After(e)
           q == [i \in 1 .. b - a + 1 |-> e.sparse[a + i - 1]]
           x == Extend(e)
           k == Len(e.packed)
<1>2. /\ e.first \in Nat /\ e.packed \in Seq(Kept) /\ k \in Nat /\ a = e.first + k /\ a \in Nat
      /\ \A n \in DOMAIN e.sparse : e.sparse[n] \in Kept /\ n \in Nat \ {0}
    BY DEF Entries, After
<1>3. a .. b \subseteq DOMAIN e.sparse
    BY <1>1 DEF Taken
<1>4. q \in Seq(Kept) /\ Len(q) = b - a + 1
    <2>1. b - a + 1 \in Nat
        BY <1>1, <1>2
    <2>2. ASSUME NEW i \in 1 .. b - a + 1
          PROVE  e.sparse[a + i - 1] \in Kept
        <3>1. a + i - 1 \in a .. b
            BY <1>1, <1>2
        <3> QED
            BY <1>2, <1>3, <3>1
    <2>3. q \in [1 .. b - a + 1 -> Kept]
        BY <2>2
    <2> HIDE DEF q
    <2> QED
        BY <2>1, <2>3
<1>5. /\ x.first = e.first /\ x.packed = e.packed \o q
      /\ x.sparse = [n \in DOMAIN e.sparse \ (a .. b) |-> e.sparse[n]]
      /\ x = [first |-> x.first, packed |-> x.packed, sparse |-> x.sparse]
    <2>1. HashesOf(e, Taken(e)) = q
        <3>1. After(e) \in Nat /\ b \in Nat /\ After(e) <= b
            BY <1>1, <1>2
        <3>2. \A u, v \in Nat : u <= v => HashesOf(e, u .. v) = [i \in 1 .. v - u + 1 |-> e.sparse[u + i - 1]]
            BY HashesOfInterval, Zenon
        <3>3. HashesOf(e, a .. b) = [i \in 1 .. b - a + 1 |-> e.sparse[a + i - 1]]
            <4> HIDE DEF a, q
            <4>1. a \in Nat /\ a <= b
                BY <3>1 DEF a
            <4> QED
                BY <3>1, <3>2, <4>1
        <3> QED
            BY <1>1, <3>3
    <2> HIDE DEF q
    <2> QED
        BY <1>1, <2>1 DEF Extend, Restrict
<1> HIDE DEF x, q
<1>6. x.packed \in Seq(Kept) /\ Len(x.packed) = k + (b - a + 1)
    <2>1. e.packed \in Seq(Kept) /\ q \in Seq(Kept)
        BY <1>2, <1>4
    <2>2. Len(e.packed \o q) = Len(e.packed) + Len(q) /\ e.packed \o q \in Seq(Kept)
        BY <2>1
    <2> QED
        BY <1>4, <1>5, <2>2
<1>7. SparseRight(x.sparse, f, as)
    <2>1. DOMAIN x.sparse = DOMAIN e.sparse \ (a .. b)
        BY <1>5
    <2>2. IsFiniteSet(DOMAIN x.sparse)
        BY <2>1, FS_Subset DEF SparseRight
    <2>3. x.sparse \in [DOMAIN e.sparse \ (a .. b) -> Kept]
        BY <1>2, <1>5
    <2>4. DOMAIN e.sparse \ (a .. b) \in SUBSET (Nat \ {0})
        BY <1>2
    <2>5. x.sparse \in UNION {[ns -> Kept] : ns \in SUBSET (Nat \ {0})}
        BY <2>3, <2>4
    <2> QED
        BY <1>5, <2>1, <2>2, <2>5 DEF SparseRight
<1>8. x \in Entries
    BY <1>2, <1>5, <1>6, <1>7 DEF Entries, SparseRight
<1>9. PackedRight(x, f, as)
    <2> SUFFICES ASSUME NEW i \in 1 .. Len(x.packed)
                 PROVE  Right(x.packed[i], f, e.first + i - 1, as)
        BY <1>5 DEF PackedRight
    <2>1. i \in Nat
        BY <1>6
    <2>2. CASE i <= k
        <3>1. x.packed[i] = e.packed[i] /\ i \in 1 .. Len(e.packed)
            BY <1>2, <1>4, <1>5, <2>2
        <3> QED
            BY <3>1 DEF PackedRight
    <2>3. CASE k < i
        <3>1. i - k \in 1 .. b - a + 1 /\ e.first + i - 1 = a + (i - k) - 1
            BY SMTT(60), <1>1, <1>2, <1>6, <2>3
        <3>2. x.packed[i] = q[i - k]
            <4>1. \A u, v \in Seq(Kept) : \A j \in 1 .. Len(v) : (u \o v)[Len(u) + j] = v[j]
                OBVIOUS
            <4>2. k + (i - k) = i
                BY <1>2, <2>1
            <4>3. i - k \in 1 .. Len(q)
                BY <1>4, <3>1
            <4>4. (e.packed \o q)[k + (i - k)] = q[i - k]
                BY <1>2, <1>4, <4>1, <4>3
            <4> QED
                BY <1>5, <4>2, <4>4
        <3>3. x.packed[i] = e.sparse[e.first + i - 1]
            BY <3>1, <3>2 DEF q
        <3>4. e.first + i - 1 \in a .. b
            <4>1. e.first \in Nat /\ i \in Nat /\ b \in Nat /\ a \in Nat /\ k \in Nat
                BY <1>1, <1>2, <2>1
            <4> HIDE DEF a, k
            <4> QED
                BY <3>1, <4>1
        <3> QED
            BY <1>3, <3>3, <3>4 DEF SparseRight
    <2> QED
        <3>1. i <= k \/ k < i
            <4> HIDE DEF k
            <4> QED
                BY <1>2, <2>1
        <3> QED
            BY <2>2, <2>3, <3>1
<1>10. ASSUME NEW n \in as
       PROVE  Known(x, n)
    <2>1. n \in DOMAIN e.sparse \/ n \in e.first .. a - 1
        BY <1>10 DEF Known
    <2>2. After(x) = b + 1
        BY <1>1, <1>2, <1>5, <1>6, SMTT(60) DEF After
    <2>3. CASE n \in DOMAIN e.sparse /\ n \notin a .. b
        BY <1>5, <2>3 DEF Known
    <2>4. CASE n \in a .. b \/ n \in e.first .. a - 1
        <3>1. n \in x.first .. After(x) - 1
            BY <1>1, <1>2, <1>5, <2>2, <2>4
        <3> QED
            BY <3>1 DEF Known
    <2> QED
        BY <2>1, <2>3, <2>4
<1>11. x.first # 0
    BY <1>5
<1> QED
    BY <1>7, <1>8, <1>9, <1>10, <1>11 DEF Fits, x

LEMMA PackFits ==
    ASSUME NEW f, NEW as, NEW e, Fits(e, f, as), ~PacksOverGap(e)
    PROVE  Fits(Pack(e), f, as)
<1>1. e \in Entries
    BY DEF Fits
<1>2. CASE e.first # 0 /\ After(e) \in DOMAIN e.sparse
    <2>1. Contiguous(Taken(e))
        BY <1>2 DEF PacksOverGap
    <2>2. Fits(Extend(e), f, as)
        BY <1>1, <1>2, <2>1, ExtendFits DEF Fits
    <2> QED
        BY <1>2, <2>2 DEF Pack
<1>3. CASE e.first = 0 /\ Contiguous(DOMAIN e.sparse)
    <2> DEFINE D == DOMAIN e.sparse
               x == [e EXCEPT !.first = Min(D)]
    <2>1. D \in SUBSET Nat /\ D # {} /\ 0 \notin D /\ IsFiniteSet(D) /\ D = Min(D) .. Max(D)
        BY <1>1, <1>3 DEF Entries, Contiguous, Fits, SparseRight
    <2>2. Min(D) \in D /\ \A n \in D : Min(D) <= n
        BY <2>1, MinIs
    <2>3. x.sparse = e.sparse /\ x.first = Min(D) /\ x.packed = <<>>
        BY <1>1, <1>3 DEF Entries, Fits
    <2>4. x \in Entries /\ x.first # 0 /\ x.first \in Nat /\ After(x) = x.first
        BY <1>1, <2>1, <2>2, <2>3 DEF Entries, After
    <2>5. Taken(x) = D
        <3>1. Max(D) \in Nat /\ Min(D) \in Nat
            <4>1. PICK k \in Nat : D \in SUBSET (1 .. k)
                <5>1. PICK k \in Nat : \A n \in D : n <= k
                    BY <2>1, NumbersBounded
                <5> QED
                    BY <2>1, <5>1
            <4> HIDE DEF D
            <4> QED
                BY <2>1, <2>2, <4>1, MaxIs
        <3> HIDE DEF D
        <3>2. Cardinality(D) = Max(D) - Min(D) + 1
            BY <2>1, <2>2, <3>1, FS_Interval
        <3> HIDE DEF x
        <3>3. Taken(x) = D \cap (Min(D) .. Max(D))
            <4>1. Taken(x) = D \cap (Min(D) .. Min(D) + Cardinality(D) - 1)
                BY <2>3, <2>4 DEF Taken, D
            <4>2. Min(D) + Cardinality(D) - 1 = Max(D)
                BY <3>1, <3>2
            <4> QED
                BY <4>1, <4>2
        <3> QED
            BY <2>1, <3>3
    <2>6. Fits(Extend(x), f, as)
        <3>1. SparseRight(x.sparse, f, as) /\ PackedRight(x, f, as)
            <4> HIDE DEF x
            <4>1. SparseRight(x.sparse, f, as)
                BY <2>3 DEF Fits
            <4>2. 1 .. Len(x.packed) = {}
                BY <2>3
            <4> QED
                BY <4>1, <4>2 DEF PackedRight
        <3>2. \A n \in as : Known(x, n)
            <4>1. e.first .. After(e) - 1 = {}
                BY <1>1, <1>3 DEF Fits, Entries, After
            <4> HIDE DEF x
            <4> QED
                BY <2>3, <4>1 DEF Fits, Known
        <3>3. After(x) \in DOMAIN x.sparse
            BY <2>2, <2>3, <2>4
        <3>4. Contiguous(Taken(x))
            BY <1>3, <2>5
        <3> HIDE DEF x
        <3> QED
            BY <2>4, <3>1, <3>2, <3>3, <3>4, ExtendFits
    <2> QED
        BY <1>3, <2>6 DEF Pack
<1> QED
    BY <1>2, <1>3 DEF Pack

(* Both arrived.                                                           *)
LEMMA RightMonotone ==
    ASSUME NEW h, NEW f, NEW n, NEW A, NEW B, A \subseteq B, Right(h, f, n, A)
    PROVE  Right(h, f, n, B)
BY DEF Right

LEMMA OverDomain ==
    ASSUME NEW s, NEW t
    PROVE  DOMAIN Over(s, t) = DOMAIN s \cup DOMAIN t
BY DEF Over

LEMMA OverlayRight ==
    ASSUME NEW f, NEW A, NEW B, NEW s, NEW t, SparseRight(s, f, A), SparseRight(t, f, B)
    PROVE  SparseRight(Over(s, t), f, A \cup B)
<1> DEFINE u == Over(s, t)
<1>1. u = [n \in DOMAIN s \cup DOMAIN t |-> IF n \in DOMAIN s THEN s[n] ELSE t[n]]
    BY DEF Over
<1>2. DOMAIN u = DOMAIN s \cup DOMAIN t
    BY <1>1
<1>3. /\ DOMAIN s \in SUBSET (Nat \ {0}) /\ \A n \in DOMAIN s : s[n] \in Kept
      /\ DOMAIN t \in SUBSET (Nat \ {0}) /\ \A n \in DOMAIN t : t[n] \in Kept
    <2>1. ASSUME NEW r, NEW C, SparseRight(r, f, C)
          PROVE  DOMAIN r \in SUBSET (Nat \ {0}) /\ \A n \in DOMAIN r : r[n] \in Kept
        <3>1. PICK ns \in SUBSET (Nat \ {0}) : r \in [ns -> Kept]
            BY <2>1 DEF SparseRight
        <3> QED
            BY <3>1
    <2> QED
        BY <2>1
<1>4. IsFiniteSet(DOMAIN s \cup DOMAIN t)
    BY FS_Union DEF SparseRight
<1>5. u \in [DOMAIN s \cup DOMAIN t -> Kept] /\ DOMAIN s \cup DOMAIN t \in SUBSET (Nat \ {0})
    BY <1>1, <1>3
<1>6. u \in UNION {[ns -> Kept] : ns \in SUBSET (Nat \ {0})}
    BY <1>5
<1>7. ASSUME NEW n \in DOMAIN s \cup DOMAIN t
      PROVE  Right(u[n], f, n, A \cup B)
    <2>1. CASE n \in DOMAIN s
        <3>1. Right(s[n], f, n, A) /\ u[n] = s[n]
            BY <1>1, <2>1 DEF SparseRight
        <3> QED
            BY <3>1 DEF Right
    <2>2. CASE n \notin DOMAIN s
        <3>1. Right(t[n], f, n, B) /\ u[n] = t[n]
            BY <1>1, <2>2 DEF SparseRight
        <3> QED
            BY <3>1 DEF Right
    <2> QED
        BY <2>1, <2>2
<1> HIDE DEF u
<1>8. SparseRight(u, f, A \cup B)
    BY <1>2, <1>4, <1>6, <1>7 DEF SparseRight
<1> QED
    BY <1>8 DEF u

LEMMA PackedMonotone ==
    ASSUME NEW e, NEW f, NEW A, NEW B, A \subseteq B, PackedRight(e, f, A)
    PROVE  PackedRight(e, f, B)
BY RightMonotone DEF PackedRight

(* The hashes of a packed range, kept by number.                           *)
LEMMA Unpacked ==
    ASSUME NEW f, NEW as, NEW e \in Entries, e.first # 0, PackedRight(e, f, as)
    PROVE  LET s == [n \in e.first .. After(e) - 1 |-> e.packed[n - e.first + 1]]
           IN  SparseRight(s, f, as) /\ DOMAIN s = e.first .. After(e) - 1
<1> DEFINE b == After(e) - 1
           s == [n \in e.first .. b |-> e.packed[n - e.first + 1]]
<1>1. e.first \in Nat \ {0} /\ e.packed \in Seq(Kept) /\ After(e) = e.first + Len(e.packed)
    BY DEF Entries, After
<1>2. b \in Int /\ e.first .. b \in SUBSET (Nat \ {0}) /\ IsFiniteSet(e.first .. b)
    <2>1. b \in Int
        BY <1>1
    <2> HIDE DEF b
    <2>2. IsFiniteSet(e.first .. b)
        BY <1>1, <2>1, FS_Interval
    <2> QED
        BY <1>1, <2>1, <2>2
<1>3. ASSUME NEW n \in e.first .. b
      PROVE  s[n] \in Kept /\ Right(s[n], f, n, as)
    <2>1. n - e.first + 1 \in 1 .. Len(e.packed) /\ e.first + (n - e.first + 1) - 1 = n
        BY <1>1
    <2>2. s[n] = e.packed[n - e.first + 1]
        OBVIOUS
    <2>3. e.packed[n - e.first + 1] \in Kept
        BY <1>1, <2>1
    <2>4. Right(e.packed[n - e.first + 1], f, n, as)
        BY <2>1 DEF PackedRight
    <2> HIDE DEF s
    <2> QED
        BY <2>2, <2>3, <2>4
<1>4. DOMAIN s = e.first .. b
    OBVIOUS
<1>5. s \in [e.first .. b -> Kept]
    BY <1>3
<1> HIDE DEF s, b
<1>6. s \in UNION {[ns -> Kept] : ns \in SUBSET (Nat \ {0})}
    BY <1>2, <1>5
<1> QED
    BY <1>2, <1>3, <1>4, <1>6 DEF SparseRight, s, b

LEMMA HolesBetween ==
    ASSUME NEW f, NEW as, NEW sparse, NEW lo \in Entries, NEW hi \in Entries, NEW gap \in Nat,
           SparseRight(sparse, f, as), PackedRight(lo, f, as), PackedRight(hi, f, as),
           lo.first # 0, hi.first = After(lo) + gap,
           \A n \in as : \/ n \in DOMAIN sparse
                         \/ n \in lo.first .. After(lo) - 1
                         \/ n \in hi.first .. After(hi) - 1
    PROVE  Fits([sparse |-> sparse, first |-> lo.first,
                 packed |-> lo.packed \o [i \in 1 .. gap |-> Hole] \o hi.packed], f, as)
<1> DEFINE p == lo.packed
           q == hi.packed
           holes == [i \in 1 .. gap |-> Hole]
           r == p \o holes \o q
           x == [sparse |-> sparse, first |-> lo.first, packed |-> r]
           a == lo.first
           k == Len(p)
           l == Len(q)
<1>1. /\ a \in Nat /\ a # 0 /\ p \in Seq(Kept) /\ q \in Seq(Kept) /\ k \in Nat /\ l \in Nat
      /\ After(lo) = a + k /\ After(hi) = a + k + gap + l /\ hi.first = a + k + gap
    BY DEF Entries, After
<1>2. holes \in Seq(Kept) /\ Len(holes) = gap
    <2>1. holes \in [1 .. gap -> Kept]
        BY DEF Kept
    <2> HIDE DEF holes
    <2> QED
        BY <2>1
<1>3. \A i \in 1 .. gap : holes[i] = Hole
    OBVIOUS
<1> HIDE DEF p, q, holes, a, k, l
<1>4. /\ r \in Seq(Kept) /\ Len(r) = k + gap + l
      /\ \A i \in 1 .. k : r[i] = p[i]
      /\ \A i \in 1 .. gap : r[k + i] = holes[i]
      /\ \A i \in 1 .. l : r[k + gap + i] = q[i]
    <2>1. p \o holes \in Seq(Kept) /\ Len(p \o holes) = k + gap
        BY <1>1, <1>2 DEF k
    <2>2. \A u, v \in Seq(Kept) : \A j \in 1 .. Len(v) : (u \o v)[Len(u) + j] = v[j]
        OBVIOUS
    <2>3. \A u, v \in Seq(Kept) : \A j \in 1 .. Len(u) : (u \o v)[j] = u[j]
        OBVIOUS
    <2>4. \A u, v \in Seq(Kept) : u \o v \in Seq(Kept) /\ Len(u \o v) = Len(u) + Len(v)
        OBVIOUS
    <2>5. r \in Seq(Kept) /\ Len(r) = k + gap + l
        BY <1>1, <2>1, <2>4 DEF l
    <2>6. ASSUME NEW i \in 1 .. k
          PROVE  r[i] = p[i]
        <3>1. i \in 1 .. Len(p) /\ i \in 1 .. Len(p \o holes)
            BY <1>1, <2>1 DEF k
        <3>2. (p \o holes)[i] = p[i]
            BY <1>1, <1>2, <2>3, <3>1
        <3> QED
            BY <1>1, <2>1, <2>3, <3>1, <3>2
    <2>7. ASSUME NEW i \in 1 .. gap
          PROVE  r[k + i] = holes[i]
        <3>1. i \in 1 .. Len(holes) /\ k + i \in 1 .. Len(p \o holes)
            BY <1>1, <1>2, <2>1
        <3>2. (p \o holes)[k + i] = holes[i]
            BY <1>1, <1>2, <2>2, <3>1 DEF k
        <3> QED
            BY <1>1, <2>1, <2>3, <3>1, <3>2
    <2>8. ASSUME NEW i \in 1 .. l
          PROVE  r[k + gap + i] = q[i]
        <3>1. (p \o holes \o q)[Len(p \o holes) + i] = q[i]
            BY <1>1, <2>1, <2>2 DEF l
        <3> QED
            BY <2>1, <3>1
    <2> QED
        BY <2>5, <2>6, <2>7, <2>8
<1>5. x.sparse = sparse /\ x.first = a /\ x.packed = r /\ After(x) = a + (k + gap + l)
    BY <1>4 DEF After, a
<1>6. x \in Entries
    BY <1>1, <1>4 DEF Entries, SparseRight, a
<1>7. PackedRight(x, f, as)
    <2> SUFFICES ASSUME NEW i \in 1 .. k + gap + l
                 PROVE  Right(r[i], f, a + i - 1, as)
        BY <1>4, <1>5 DEF PackedRight
    <2> HIDE DEF r, x
    <2>1. CASE i \in 1 .. k
        BY <1>4, <2>1 DEF PackedRight, a, k, p
    <2>2. CASE i - k \in 1 .. gap
        <3>1. k + (i - k) = i
            BY <1>1
        <3>2. r[k + (i - k)] = holes[i - k] /\ holes[i - k] = Hole
            BY <1>3, <1>4, <2>2
        <3> QED
            BY <3>1, <3>2 DEF Right
    <2>3. CASE i - k - gap \in 1 .. l
        <3>1. k + gap + (i - k - gap) = i /\ hi.first + (i - k - gap) - 1 = a + i - 1
            BY <1>1
        <3>2. r[k + gap + (i - k - gap)] = q[i - k - gap]
            BY <1>4, <2>3
        <3>3. Right(q[i - k - gap], f, hi.first + (i - k - gap) - 1, as)
            BY <2>3 DEF PackedRight, q, l
        <3> QED
            BY <3>1, <3>2, <3>3
    <2>4. i \in 1 .. k \/ i - k \in 1 .. gap \/ i - k - gap \in 1 .. l
        BY <1>1
    <2> QED
        BY <2>1, <2>2, <2>3, <2>4
<1>8. ASSUME NEW n \in as
      PROVE  Known(x, n)
    <2> HIDE DEF x, r
    <2>1. n \in DOMAIN sparse \/ n \in a .. After(lo) - 1 \/ n \in hi.first .. After(hi) - 1
        BY DEF a
    <2>2. n \in a .. After(lo) - 1 => n \in a .. a + (k + gap + l) - 1
        BY <1>1
    <2>3. n \in hi.first .. After(hi) - 1 => n \in a .. a + (k + gap + l) - 1
        BY <1>1
    <2>4. n \in DOMAIN sparse \/ n \in a .. a + (k + gap + l) - 1
        BY <2>1, <2>2, <2>3
    <2>5. x.first .. After(x) - 1 = a .. a + (k + gap + l) - 1 /\ x.sparse = sparse
        <3>1. x.first = a /\ After(x) = a + (k + gap + l) /\ x.sparse = sparse
            BY <1>5
        <3> QED
            BY <1>1, <3>1
    <2> QED
        BY <2>4, <2>5 DEF Known
<1>9. x.first # 0
    BY <1>1, <1>5
<1> HIDE DEF x, r
<1>10. Fits(x, f, as)
    BY <1>5, <1>6, <1>7, <1>8, <1>9 DEF Fits
<1> QED
    BY <1>10 DEF x, r, p, q, holes

LEMMA JoinFits ==
    ASSUME NEW f, NEW as, NEW sparse, NEW lo \in Entries, NEW hi \in Entries,
           SparseRight(sparse, f, as), PackedRight(lo, f, as), PackedRight(hi, f, as),
           lo.first # 0, hi.first # 0,
           \A n \in as : \/ n \in DOMAIN sparse
                         \/ n \in lo.first .. After(lo) - 1
                         \/ n \in hi.first .. After(hi) - 1
    PROVE  Fits(Join(sparse, lo, hi), f, as)
<1> DEFINE gap == hi.first - After(lo)
           small == gap < HoleLimit \/ HoleLimit * gap < After(hi) - lo.first
           rest == [n \in hi.first .. After(hi) - 1 |-> hi.packed[n - hi.first + 1]]
           wide == [sparse |-> sparse, first |-> lo.first,
                    packed |-> lo.packed \o [i \in 1 .. gap |-> Hole] \o hi.packed]
           split == [sparse |-> Over(rest, sparse), first |-> lo.first, packed |-> lo.packed]
<1> HIDE DEF gap, small, rest, wide, split
<1>1. Join(sparse, lo, hi) = IF gap >= 0 /\ (gap = 0 \/ small) THEN wide ELSE split
    BY DEF Join, gap, small, rest, wide, split
<1>2. ASSUME gap >= 0
      PROVE  Fits(wide, f, as)
    <2>1. After(lo) \in Nat /\ hi.first \in Nat
        BY DEF Entries, After
    <2>2. gap \in Nat /\ hi.first = After(lo) + gap
        BY <1>2, <2>1 DEF gap
    <2>3. Fits([sparse |-> sparse, first |-> lo.first,
                packed |-> lo.packed \o [i \in 1 .. gap |-> Hole] \o hi.packed], f, as)
        BY <2>2, HolesBetween
    <2> QED
        BY <2>3 DEF wide
<1>3. Fits(split, f, as)
    <2>1. SparseRight(rest, f, as) /\ DOMAIN rest = hi.first .. After(hi) - 1
        BY Unpacked DEF rest
    <2>2. /\ SparseRight(Over(rest, sparse), f, as)
          /\ DOMAIN Over(rest, sparse) = DOMAIN rest \cup DOMAIN sparse
        <3>1. as \cup as = as
            OBVIOUS
        <3>2. SparseRight(Over(rest, sparse), f, as \cup as)
            BY <2>1, OverlayRight
        <3>3. DOMAIN Over(rest, sparse) = DOMAIN rest \cup DOMAIN sparse
            BY OverDomain
        <3> QED
            BY <3>1, <3>2, <3>3
    <2>3. split.sparse = Over(rest, sparse) /\ split.first = lo.first /\ split.packed = lo.packed
          /\ After(split) = After(lo)
        BY DEF split, After
    <2>4. split \in Entries
        BY <2>2 DEF split, Entries, SparseRight
    <2>5. PackedRight(split, f, as)
        BY <2>3 DEF PackedRight
    <2>6. \A n \in as : Known(split, n)
        BY <2>1, <2>2, <2>3 DEF Known
    <2> QED
        BY <2>2, <2>3, <2>4, <2>5, <2>6 DEF Fits
<1> QED
    BY <1>1, <1>2, <1>3

LEMMA SparseFits ==
    ASSUME NEW f, NEW as, NEW x \in Entries, NEW sparse, SparseRight(sparse, f, as),
           x.first = 0 => x.packed = <<>>, PackedRight(x, f, as),
           \A n \in as : n \in DOMAIN sparse \/ n \in x.first .. After(x) - 1
    PROVE  Fits([x EXCEPT !.sparse = sparse], f, as)
<1> DEFINE z == [x EXCEPT !.sparse = sparse]
<1>1. z.sparse = sparse /\ z.first = x.first /\ z.packed = x.packed /\ After(z) = After(x)
    BY DEF Entries, After
<1>2. z \in Entries
    BY DEF Entries, SparseRight
<1> HIDE DEF z
<1>3. PackedRight(z, f, as)
    BY <1>1 DEF PackedRight
<1>4. \A n \in as : Known(z, n)
    BY <1>1 DEF Known
<1>5. Fits(z, f, as)
    BY <1>1, <1>2, <1>3, <1>4 DEF Fits
<1> QED
    BY <1>5 DEF z

LEMMA MergeFits ==
    ASSUME NEW f, NEW A, NEW B, NEW e, NEW g, Fits(e, f, A), Fits(g, f, B)
    PROVE  Fits(MergeSource(e, g), f, A \cup B)
<1> DEFINE sparse == Over(g.sparse, e.sparse)
           as == A \cup B
<1>1. SparseRight(sparse, f, as) /\ DOMAIN sparse = DOMAIN e.sparse \cup DOMAIN g.sparse
    <2>1. SparseRight(e.sparse, f, A) /\ SparseRight(g.sparse, f, B)
        BY DEF Fits
    <2>2. SparseRight(sparse, f, B \cup A)
        BY <2>1, OverlayRight
    <2>3. DOMAIN sparse = DOMAIN g.sparse \cup DOMAIN e.sparse
        BY OverDomain
    <2>4. B \cup A = as /\ DOMAIN g.sparse \cup DOMAIN e.sparse = DOMAIN e.sparse \cup DOMAIN g.sparse
        OBVIOUS
    <2> HIDE DEF sparse, as
    <2> QED
        BY <2>2, <2>4, <2>3
<1>2. PackedRight(e, f, as) /\ PackedRight(g, f, as)
    <2>1. A \subseteq as /\ B \subseteq as
        OBVIOUS
    <2> HIDE DEF as
    <2> QED
        BY <2>1, PackedMonotone DEF Fits
<1>3. \A n \in as : \/ n \in DOMAIN sparse
                    \/ n \in e.first .. After(e) - 1
                    \/ n \in g.first .. After(g) - 1
    <2>1. \A n \in A : Known(e, n)
        BY DEF Fits
    <2>2. \A n \in B : Known(g, n)
        BY DEF Fits
    <2> HIDE DEF sparse
    <2> QED
        BY <1>1, <2>1, <2>2 DEF Known
<1>4. e \in Entries /\ g \in Entries
    BY DEF Fits
<1> HIDE DEF sparse, as
<1>5. \A x : x.first = 0 /\ x.packed = <<>> => x.first .. After(x) - 1 = {}
    BY DEF After
<1>6. CASE g.first = 0
    <2>1. g.first .. After(g) - 1 = {}
        BY <1>5, <1>6 DEF Fits
    <2>2. e.first = 0 => e.packed = <<>>
        BY DEF Fits
    <2>3. Fits([e EXCEPT !.sparse = sparse], f, as)
        BY <1>1, <1>2, <1>3, <1>4, <2>1, <2>2, SparseFits
    <2> QED
        BY <1>6, <2>3 DEF MergeSource, sparse, as
<1>7. CASE g.first # 0 /\ e.first = 0
    <2>1. e.first .. After(e) - 1 = {}
        BY <1>5, <1>7 DEF Fits
    <2>2. g.first = 0 => g.packed = <<>>
        BY DEF Fits
    <2>3. Fits([g EXCEPT !.sparse = sparse], f, as)
        BY <1>1, <1>2, <1>3, <1>4, <2>1, <2>2, SparseFits
    <2> QED
        BY <1>7, <2>3 DEF MergeSource, sparse, as
<1>8. CASE g.first # 0 /\ e.first # 0
    <2>1. Fits(Join(sparse, e, g), f, as)
        BY <1>1, <1>2, <1>3, <1>4, <1>8, JoinFits
    <2>2. Fits(Join(sparse, g, e), f, as)
        BY <1>1, <1>2, <1>3, <1>4, <1>8, JoinFits
    <2>3. \/ MergeSource(e, g) = Join(sparse, e, g)
          \/ MergeSource(e, g) = Join(sparse, g, e)
        BY <1>8 DEF MergeSource, sparse
    <2> QED
        BY <2>1, <2>2, <2>3 DEF as
<1> QED
    BY <1>6, <1>7, <1>8

-----------------------------------------------------------------------------
(* The index                                                               *)

LEMMA RanByProcess ==
    ASSUME NEW n \in Nat, NEW p \in Processes
    PROVE  RanBy(n)[p] \in Processes
<1> DEFINE B == {q \in Processes : RanBy(n)[q] \notin Processes}
<1> SUFFICES ASSUME B # {}
             PROVE  FALSE
    OBVIOUS
<1>1. PICK q \in B : Parent[q] # NoParent => Parent[q].process \notin B
    <2>1. B \in SUBSET Processes
        OBVIOUS
    <2> HIDE DEF B
    <2> QED
        BY <2>1, Oldest
<1>2. q \in Processes /\ RanBy(n)[q] \notin Processes
    BY <1>1
<1>3. Parent[q] # NoParent => RanBy(n)[Parent[q].process] \in Processes
    BY <1>1, <1>2, ParentIs
<1> QED
    BY <1>2, <1>3, RanByIs

LEMMA AddedRight ==
    ASSUME NEW f \in Files, NEW ns \in SUBSET Numbers
    PROVE  SparseRight([n \in ns |-> Source(f.process, n)], f, ns)
<1> DEFINE s == [n \in ns |-> Source(f.process, n)]
<1>1. f.process \in Processes
    BY DEF Files
<1>2. ns \in SUBSET (Nat \ {0}) /\ IsFiniteSet(ns)
    BY IndexAssumption, FS_Subset
<1>3. \A n \in ns : Source(f.process, n) \in Kept
    BY <1>1, <1>2, RanByProcess DEF Source, Kept
<1>4. DOMAIN s = ns /\ s \in [ns -> Kept] /\ \A n \in ns : s[n] = Source(f.process, n)
    BY <1>3
<1> HIDE DEF s
<1>5. \A n \in ns : Right(s[n], f, n, ns)
    BY <1>4 DEF Right
<1>6. s \in UNION {[ms -> Kept] : ms \in SUBSET (Nat \ {0})}
    BY <1>2, <1>4
<1>7. SparseRight(s, f, ns)
    BY <1>2, <1>4, <1>5, <1>6 DEF SparseRight
<1> QED
    BY <1>7 DEF s

(* The numbers of a file whose sources reached a holder.                   *)
Arrived(o, f) == {n \in Numbers : <<f, n>> \in added[o]}

(* Only evals that the file can have arrived, and the entry of every file  *)
(* of a holder whose index was never packed over a gap fits what arrived.  *)
IndexShape ==
    /\ all = [o \in Holders |-> [f \in Files |-> all[o][f]]]
    /\ added = [o \in Holders |-> added[o]]
    /\ \A o \in Holders : \A f \in Files : Arrived(o, f) \subseteq Possible(f)
    /\ \A o \in Holders : added[o] \subseteq Files \X Numbers
IndexFits ==
    \A o \in Holders \ skewed : \A f \in Files : Fits(all[o][f], f, Arrived(o, f))
IndexInv == IndexShape /\ IndexFits

LEMMA IndexInvInit == IndexInit => IndexInv
<1> SUFFICES ASSUME IndexInit
             PROVE  IndexInv
    OBVIOUS
<1>1. /\ \A o \in Holders : added[o] = {} /\ \A f \in Files : all[o][f] = Nothing
      /\ all = [o \in Holders |-> [f \in Files |-> all[o][f]]]
      /\ added = [o \in Holders |-> added[o]]
    BY DEF IndexInit
<1>2. \A o \in Holders : \A f \in Files : Arrived(o, f) = {}
    BY <1>1 DEF Arrived
<1> QED
    BY <1>1, <1>2, NothingFits DEF IndexInv, IndexShape, IndexFits

LEMMA AddSourcesInv ==
    ASSUME IndexInv, NEW o \in Holders, NEW f \in Files, NEW ns \in SUBSET Possible(f),
           AddSources(o, f, ns)
    PROVE  IndexInv'
<1> DEFINE e == all[o][f]
           s == Over([n \in ns |-> Source(f.process, n)], e.sparse)
<1>1. /\ \A h \in Holders : \A g \in Files :
            all'[h][g] = IF h = o /\ g = f THEN [e EXCEPT !.sparse = s] ELSE all[h][g]
      /\ all' = [h \in Holders |-> [g \in Files |-> all'[h][g]]]
    <2> HIDE DEF s
    <2>1. all' = [all EXCEPT ![o][f].sparse = s]
        BY DEF AddSources, s
    <2>2. all = [h \in Holders |-> [g \in Files |-> all[h][g]]]
        BY DEF IndexInv, IndexShape
    <2> QED
        BY <2>1, <2>2
<1>2. /\ \A h \in Holders : added'[h] = IF h = o THEN added[o] \cup {<<f, n>> : n \in ns}
                                        ELSE added[h]
      /\ added' = [h \in Holders |-> added'[h]] /\ skewed' = skewed
    BY DEF IndexInv, IndexShape, AddSources
<1>3. ns \subseteq Numbers
    BY DEF Possible
<1>4. \A h \in Holders : \A g \in Files :
         Arrived(h, g)' = IF h = o /\ g = f THEN Arrived(h, g) \cup ns ELSE Arrived(h, g)
    BY <1>2, <1>3 DEF Arrived
<1>5. IndexShape'
    <2>1. \A h \in Holders : \A g \in Files : Arrived(h, g)' \subseteq Possible(g)
        BY <1>4 DEF IndexInv, IndexShape
    <2>2. \A h \in Holders : added'[h] \subseteq Files \X Numbers
        BY <1>2, <1>3 DEF IndexInv, IndexShape
    <2> QED
        BY <1>1, <1>2, <2>1, <2>2 DEF IndexShape
<1>6. ASSUME o \notin skewed
      PROVE  Fits([e EXCEPT !.sparse = s], f, Arrived(o, f) \cup ns)
    <2>1. Fits(e, f, Arrived(o, f))
        BY <1>6 DEF IndexInv, IndexFits
    <2>2. SparseRight([n \in ns |-> Source(f.process, n)], f, ns)
        BY <1>3, AddedRight
    <2>3. SparseRight(s, f, ns \cup Arrived(o, f))
        BY <2>1, <2>2, OverlayRight DEF Fits
    <2>4. DOMAIN s = ns \cup DOMAIN e.sparse
        <3>1. DOMAIN [n \in ns |-> Source(f.process, n)] = ns
            OBVIOUS
        <3> HIDE DEF e
        <3> QED
            BY <3>1, OverDomain
    <2> HIDE DEF s, e
    <2>5. ns \cup Arrived(o, f) = Arrived(o, f) \cup ns
        OBVIOUS
    <2>6. PackedRight(e, f, Arrived(o, f) \cup ns)
        BY <2>1, PackedMonotone DEF Fits
    <2>7. \A n \in Arrived(o, f) \cup ns : n \in DOMAIN s \/ n \in e.first .. After(e) - 1
        BY <2>1, <2>4 DEF Fits, Known
    <2>8. e \in Entries /\ (e.first = 0 => e.packed = <<>>)
        BY <2>1 DEF Fits
    <2>9. SparseRight(s, f, Arrived(o, f) \cup ns)
        BY <2>3, <2>5
    <2> QED
        BY <2>6, <2>7, <2>8, <2>9, SparseFits
<1> HIDE DEF e, s
<1>7. IndexFits'
    <2> SUFFICES ASSUME NEW h \in Holders, h \notin skewed, NEW g \in Files
                 PROVE  Fits(all'[h][g], g, Arrived(h, g)')
        BY <1>2 DEF IndexFits
    <2>1. CASE h = o /\ g = f
        BY <1>1, <1>4, <1>6, <2>1
    <2>2. CASE ~(h = o /\ g = f)
        BY <1>1, <1>4, <2>2 DEF IndexInv, IndexFits
    <2> QED
        BY <2>1, <2>2
<1> QED
    BY <1>5, <1>7 DEF IndexInv

LEMMA PackDataInv ==
    ASSUME IndexInv, NEW o \in Holders, PackData(o)
    PROVE  IndexInv'
<1>1. /\ \A h \in Holders : \A f \in Files :
            all'[h][f] = IF h = o THEN Pack(all[o][f]) ELSE all[h][f]
      /\ all' = [h \in Holders |-> [f \in Files |-> all'[h][f]]]
      /\ added' = added
    BY DEF IndexInv, IndexShape, PackData
<1>2. \A h \in Holders : \A f \in Files : Arrived(h, f)' = Arrived(h, f)
    BY <1>1 DEF Arrived
<1>3. IndexShape'
    BY <1>1, <1>2 DEF IndexInv, IndexShape
<1>4. \A h \in Holders \ skewed' :
         h \notin skewed /\ (h = o => \A f \in Files : ~PacksOverGap(all[o][f]))
    BY DEF PackData
<1>5. IndexFits'
    <2> SUFFICES ASSUME NEW h \in Holders \ skewed', NEW f \in Files
                 PROVE  Fits(all'[h][f], f, Arrived(h, f)')
        BY DEF IndexFits
    <2>1. Fits(all[h][f], f, Arrived(h, f))
        BY <1>4 DEF IndexInv, IndexFits
    <2>2. h = o => Fits(Pack(all[h][f]), f, Arrived(h, f))
        BY <1>4, <2>1, PackFits
    <2> QED
        BY <1>1, <1>2, <2>1, <2>2
<1> QED
    BY <1>3, <1>5 DEF IndexInv

LEMMA LoadAndMergeInv ==
    ASSUME IndexInv, NEW o \in Holders, NEW from \in Holders, LoadAndMerge(o, from)
    PROVE  IndexInv'
<1> DEFINE merged(f) == MergeSource(all[o][f], all[from][f])
<1>1. /\ \A h \in Holders : \A f \in Files :
            all'[h][f] = IF h = o THEN Pack(merged(f)) ELSE all[h][f]
      /\ all' = [h \in Holders |-> [f \in Files |-> all'[h][f]]]
    <2>1. all' = [all EXCEPT ![o] = [f \in Files |-> Pack(merged(f))]]
        BY DEF LoadAndMerge
    <2> HIDE DEF merged
    <2> QED
        BY <2>1 DEF IndexInv, IndexShape
<1>2. /\ \A h \in Holders : added'[h] = IF h = o THEN added[o] \cup added[from] ELSE added[h]
      /\ added' = [h \in Holders |-> added'[h]]
    BY DEF IndexInv, IndexShape, LoadAndMerge
<1>3. \A h \in Holders : \A f \in Files :
         Arrived(h, f)' = IF h = o THEN Arrived(o, f) \cup Arrived(from, f) ELSE Arrived(h, f)
    BY <1>2 DEF Arrived
<1>4. IndexShape'
    <2>1. \A h \in Holders : \A f \in Files : Arrived(h, f)' \subseteq Possible(f)
        BY <1>3 DEF IndexInv, IndexShape
    <2>2. \A h \in Holders : added'[h] \subseteq Files \X Numbers
        BY <1>2 DEF IndexInv, IndexShape
    <2> QED
        BY <1>1, <1>2, <2>1, <2>2 DEF IndexShape
<1>5. \A h \in Holders \ skewed' :
         /\ h \notin skewed
         /\ h = o => from \notin skewed /\ \A f \in Files : ~PacksOverGap(merged(f))
    BY DEF LoadAndMerge
<1>6. IndexFits'
    <2> SUFFICES ASSUME NEW h \in Holders \ skewed', NEW f \in Files
                 PROVE  Fits(all'[h][f], f, Arrived(h, f)')
        BY DEF IndexFits
    <2>1. Fits(all[h][f], f, Arrived(h, f))
        BY <1>5 DEF IndexInv, IndexFits
    <2>2. ASSUME h = o
          PROVE  Fits(Pack(merged(f)), f, Arrived(o, f) \cup Arrived(from, f))
        <3>1. Fits(all[from][f], f, Arrived(from, f))
            BY <1>5, <2>2 DEF IndexInv, IndexFits
        <3>2. Fits(merged(f), f, Arrived(o, f) \cup Arrived(from, f))
            BY <2>1, <2>2, <3>1, MergeFits
        <3>3. ~PacksOverGap(merged(f))
            BY <1>5, <2>2
        <3> HIDE DEF merged
        <3> QED
            BY <3>2, <3>3, PackFits
    <2> HIDE DEF merged
    <2> QED
        BY <1>1, <1>3, <2>1, <2>2
<1> QED
    BY <1>4, <1>6 DEF IndexInv

LEMMA DeleteProcessInv ==
    ASSUME IndexInv, NEW o \in Holders, NEW p \in Processes, DeleteProcess(o, p)
    PROVE  IndexInv'
<1>1. /\ \A h \in Holders : \A f \in Files :
            all'[h][f] = IF h = o /\ f.process = p THEN Nothing ELSE all[h][f]
      /\ all' = [h \in Holders |-> [f \in Files |-> all'[h][f]]]
      /\ skewed' = skewed
    BY DEF IndexInv, IndexShape, DeleteProcess
<1>2. /\ \A h \in Holders : added'[h] = IF h = o THEN {x \in added[o] : x[1].process # p}
                                        ELSE added[h]
      /\ added' = [h \in Holders |-> added'[h]]
    BY DEF IndexInv, IndexShape, DeleteProcess
<1>3. \A h \in Holders : \A f \in Files :
         Arrived(h, f)' = IF h = o /\ f.process = p THEN {} ELSE Arrived(h, f)
    BY <1>2 DEF Arrived
<1>4. IndexShape'
    <2>1. \A h \in Holders : \A f \in Files : Arrived(h, f)' \subseteq Possible(f)
        BY <1>3 DEF IndexInv, IndexShape
    <2>2. \A h \in Holders : added'[h] \subseteq Files \X Numbers
        BY <1>2 DEF IndexInv, IndexShape
    <2> QED
        BY <1>1, <1>2, <2>1, <2>2 DEF IndexShape
<1>5. IndexFits'
    <2> SUFFICES ASSUME NEW h \in Holders, h \notin skewed, NEW f \in Files
                 PROVE  Fits(all'[h][f], f, Arrived(h, f)')
        BY <1>1 DEF IndexFits
    <2>1. Fits(all[h][f], f, Arrived(h, f))
        BY DEF IndexInv, IndexFits
    <2> QED
        BY <1>1, <1>3, <2>1, NothingFits
<1> QED
    BY <1>4, <1>5 DEF IndexInv

LEMMA IndexInvNext == IndexInv /\ [IndexNext]_indexVars => IndexInv'
<1> SUFFICES ASSUME IndexInv, [IndexNext]_indexVars
             PROVE  IndexInv'
    OBVIOUS
<1>1. CASE UNCHANGED indexVars
    <2>1. all' = all /\ added' = added /\ skewed' = skewed
        BY <1>1 DEF indexVars
    <2> QED
        BY <2>1 DEF IndexInv, IndexShape, IndexFits, Arrived
<1>2. ASSUME NEW o \in Holders, NEW f \in Files, NEW k \in 1 .. MaxAdded,
             NEW ns \in kSubset(k, Possible(f)), AddSources(o, f, ns)
      PROVE  IndexInv'
    <2>1. ns \in SUBSET Possible(f)
        BY <1>2 DEF kSubset
    <2> QED
        BY <1>2, <2>1, AddSourcesInv
<1>3. ASSUME NEW o \in Holders, PackData(o)
      PROVE  IndexInv'
    BY <1>3, PackDataInv
<1>4. ASSUME NEW o \in Holders, NEW from \in Holders, LoadAndMerge(o, from)
      PROVE  IndexInv'
    BY <1>4, LoadAndMergeInv
<1>5. ASSUME NEW o \in Holders, NEW p \in Processes, DeleteProcess(o, p)
      PROVE  IndexInv'
    BY <1>5, DeleteProcessInv
<1> QED
    BY <1>1, <1>2, <1>3, <1>4, <1>5 DEF IndexNext

LEMMA LookupsFollow == IndexInv => LookupsRight
<1> SUFFICES ASSUME IndexInv, NEW o \in Holders \ skewed, NEW p \in Processes, NEW n \in Numbers
             PROVE  LET h == HashByName(o, p, n)
                        known == \E f \in Line[LastFile(p)] : <<f, n>> \in added[o]
                    IN  IF known /\ ~(h = Hole /\ Masked(o, p, n)) THEN h = Source(p, n)
                        ELSE h = Hole
    BY DEF LookupsRight
<1> DEFINE f == LastFile(p)
           as == [g \in Files |-> Arrived(o, g)]
           h == HashByName(o, p, n)
<1>1. f \in Files /\ f.process = p /\ n \in Nat
    <2>1. LastOrdinal[p] \in 1 .. LastOrdinal[p]
        BY IndexAssumption
    <2> QED
        BY <2>1, IndexAssumption DEF LastFile, Files
<1>2. Line[f] \subseteq Files
    BY <1>1, LineFiles
<1>3. \A g \in Files : as[g] \subseteq Possible(g)
    BY DEF IndexInv, IndexShape
<1>4. \A g \in Files : Fits(all[o][g], g, as[g])
    BY DEF IndexInv, IndexFits
<1>5. \A g \in Files : n \in as[g] <=> <<g, n>> \in added[o]
    BY DEF Arrived
<1> HIDE DEF as
<1>6. \A g \in Files : Known(all[o][g], n) => Right(HashIn(all[o][g], n), g, n, as[g])
    BY <1>4, FitsHash
<1> HIDE DEF f
<1>7. Finds(all[o], as, f, n)
    BY <1>1, <1>3, <1>6, LookupFinds
<1>8. h = HashFrom(all[o], n)[f]
    BY DEF HashByName, f
<1> HIDE DEF h
<1>9. CASE h # Hole
    <2>1. \E g \in Line[f] : n \in as[g] /\ h = Source(p, n)
        BY <1>1, <1>7, <1>8, <1>9 DEF Finds
    <2>2. h = Source(p, n) /\ \E g \in Line[f] : <<g, n>> \in added[o]
        BY <1>2, <1>5, <2>1
    <2> QED
        BY <1>9, <2>2 DEF f, h
<1>10. CASE h = Hole
    <2>1. ASSUME NEW g \in Line[f], <<g, n>> \in added[o]
          PROVE  Masked(o, p, n)
        <3>1. Known(all[o][g], n)
            BY <1>2, <1>4, <1>5, <2>1 DEF Fits
        <3>2. \E d \in Line[f] : Known(all[o][d], n) /\ HashIn(all[o][d], n) = Hole
            BY <1>7, <1>8, <1>10, <3>1 DEF Finds
        <3> QED
            BY <3>2 DEF Masked, f
    <2> QED
        BY <1>10, <2>1 DEF f, h
<1> QED
    BY <1>9, <1>10

(* Whatever was packed and merged in which order, a lookup of an eval      *)
(* finds the source that the process or the ancestor that ran it gave it,  *)
(* for all genealogies, numbers of holders and evals (EvalSource.pm).      *)
THEOREM LookupsAreRight == IndexSpec => []LookupsRight
<1>1. IndexInit => IndexInv
    BY IndexInvInit
<1>2. IndexInv /\ [IndexNext]_indexVars => IndexInv'
    BY IndexInvNext
<1>3. IndexInv => LookupsRight
    BY LookupsFollow
<1> QED
    BY <1>1, <1>2, <1>3, PTL DEF IndexSpec

=============================================================================
