---------------------------- MODULE SourceStorage ----------------------------
(***************************************************************************)
(* Where the sources of evals are kept (EvalSourceStorage.pm).             *)
(*                                                                         *)
(* A source is a file named after its hash.  pack_files() moves loose      *)
(* files into archives, lists the archives in a manifest, and deletes the  *)
(* files and directories that are left.  Writers, packers and readers are  *)
(* processes of their own; nothing but the order of their steps protects   *)
(* them from each other.                                                   *)
(*                                                                         *)
(* The two levels of directories above a file are one here, and archives   *)
(* have a directory that is never empty again once it holds a manifest.    *)
(***************************************************************************)
EXTENDS Integers, FiniteSets, Functions

CONSTANTS
    Hashes,      \* the sources, by their hash
    Dirs,        \* the directories their files are in
    DirOf,       \* the one of each
    Writers, Packers, Readers,
    Names,       \* names of archives, a random number each
    Events       \* what happens, a subset of AllEvents

(* overlap: packers run at the same time                                   *)
(* collide: two of them choose the same name for an archive                *)
(* crash:   packers are killed                                             *)
AllEvents == {"overlap", "collide", "crash"}

ASSUME StorageAssumption ==
    /\ DirOf \in [Hashes -> Dirs]
    /\ Events \subseteq AllEvents

VARIABLES
    loose,      \* sources that are files
    dirs,       \* directories there are
    archives,   \* the archives there are, with the sources each holds
    unfinished, \* archives under their temporary names
    manifest,   \* the archives the manifest lists, none if there is no manifest
    writer,     \* what each writer does
    packer,     \* what each packer does
    reader,     \* what each reader does, and the manifest it loaded
    stored,     \* history: sources that were added
    alone,      \* history: the packer that no other ran beside so far
    overlapped, \* history: packers ran at the same time, and none ran alone since
    unsure,     \* history: readers whose manifest may be one of overlapping packers
    missed      \* history: sources that were stored and not found

vars == <<loose, dirs, archives, unfinished, manifest, writer, packer, reader, stored,
          alone, overlapped, unsure, missed>>
files == <<loose, dirs, archives, unfinished, manifest>>
history == <<alone, overlapped>>

-----------------------------------------------------------------------------
(* Files                                                                   *)

(* Temporary files keep a directory, too.                                  *)
Empty(d) ==
    /\ \A h \in loose : DirOf[h] # d
    /\ \A w \in Writers : writer[w].at = "rename" => DirOf[writer[w].hash] # d

(* _load_manifest(): the sources in the archives that are listed and       *)
(* exist, with the archive of each.                                        *)
Listed == manifest \cap DOMAIN archives
LoadManifest ==
    [h \in UNION {archives[a] : a \in Listed} |-> CHOOSE a \in Listed : h \in archives[a]]

Nowhere == <<>>

(* A file that is written or renamed takes the place of one of that name.  *)
Added(zips, name, part) ==
    [n \in DOMAIN zips \cup {name} |-> IF n = name THEN part ELSE zips[n]]

Init ==
    /\ loose = {} /\ dirs = {} /\ archives = Nowhere /\ unfinished = Nowhere
    /\ manifest = {}
    /\ writer \in [Writers -> [at : {"idle"}, hash : {CHOOSE h \in Hashes : TRUE}]]
    /\ packer = [p \in Packers |-> [at |-> "idle"]]
    /\ reader = [r \in Readers |-> [at |-> "idle", map |-> Nowhere]]
    /\ stored = {} /\ alone = {} /\ overlapped = FALSE
    /\ unsure = {} /\ missed = {}

-----------------------------------------------------------------------------
(* add_source_string()                                                     *)

WriterDoes(w, at) == writer' = [writer EXCEPT ![w].at = at]
WriterOnly == UNCHANGED <<archives, unfinished, manifest, packer, reader, history, unsure, missed>>

Mkpath(w, h) ==
    /\ writer[w].at = "idle"
    /\ writer' = [writer EXCEPT ![w] = [at |-> "check", hash |-> h]]
    /\ dirs' = dirs \cup {DirOf[h]}
    /\ UNCHANGED <<loose, stored>> /\ WriterOnly

(* A file that exists is not written again.                                *)
CheckFile(w) ==
    /\ writer[w].at = "check"
    /\ IF writer[w].hash \in loose
       THEN WriterDoes(w, "idle") /\ stored' = stored \cup {writer[w].hash}
       ELSE WriterDoes(w, "create") /\ UNCHANGED stored
    /\ UNCHANGED <<loose, dirs>> /\ WriterOnly

(* write_file() dies if the directory is gone.                             *)
CreateFile(w) ==
    /\ writer[w].at = "create"
    /\ WriterDoes(w, IF DirOf[writer[w].hash] \in dirs THEN "rename" ELSE "idle")
    /\ UNCHANGED <<loose, dirs, stored>> /\ WriterOnly

RenameFile(w) ==
    /\ writer[w].at = "rename"
    /\ WriterDoes(w, "idle")
    /\ loose' = loose \cup {writer[w].hash}
    /\ stored' = stored \cup {writer[w].hash}
    /\ UNCHANGED dirs /\ WriterOnly

-----------------------------------------------------------------------------
(* pack_files()                                                            *)

PackerOnly == UNCHANGED <<writer, reader, stored, unsure, missed>>
Running(p) == packer[p].at # "idle"
Others(p) == {q \in Packers \ {p} : Running(q)}
PackerStops(p) == packer' = [packer EXCEPT ![p] = [at |-> "idle"]]

StartPacking(p) ==
    /\ packer[p].at = "idle"
    /\ Others(p) = {} \/ "overlap" \in Events
    /\ packer' = [packer EXCEPT ![p] = [at |-> "glob", map |-> DOMAIN LoadManifest]]
    /\ alone' = IF Others(p) = {} THEN {p} ELSE {}
    /\ overlapped' = (overlapped \/ Others(p) # {})
    /\ UNCHANGED files /\ PackerOnly

(* The loose files; a few are left where they are, unless forced.          *)
GlobFiles(p) ==
    /\ packer[p].at = "glob"
    /\ \/ packer' = [packer EXCEPT ![p] =
             [at |-> "archive", found |-> loose, rest |-> loose \ packer[p].map]]
       \/ PackerStops(p)
    /\ UNCHANGED <<files, history>> /\ PackerOnly

(* addFile() adds nothing if the file is gone.                             *)
SkipMissing(p) ==
    /\ packer[p].at = "archive"
    /\ \E h \in packer[p].rest \ loose : packer' = [packer EXCEPT ![p].rest = @ \ {h}]
    /\ UNCHANGED <<files, history>> /\ PackerOnly

(* _save_archive(): an archive takes some of the files, the rest go to the *)
(* next one.  The name was free when it was chosen.                        *)
Saving(q, a) == packer[q].at \in {"write", "rename"} /\ packer[q].name = a
ChooseName(p) ==
    /\ packer[p].at = "archive"
    /\ \E part \in SUBSET (packer[p].rest \cap loose) \ {{}}, a \in Names \ DOMAIN archives :
          /\ (\E q \in Others(p) : Saving(q, a)) => "collide" \in Events
          /\ packer' = [packer EXCEPT ![p] =
                [at |-> "write", found |-> @.found, rest |-> @.rest, name |-> a, part |-> part]]
    /\ dirs' = dirs \cup {"archives"}
    /\ UNCHANGED <<loose, archives, unfinished, manifest, history>> /\ PackerOnly

(* writeToFileNamed() reads the files, and fails if one is gone.           *)
WriteArchive(p) ==
    /\ packer[p].at = "write"
    /\ IF packer[p].part \subseteq loose
       THEN /\ packer' = [packer EXCEPT ![p].at = "rename"]
            /\ unfinished' = Added(unfinished, packer[p].name, packer[p].part)
       ELSE PackerStops(p) /\ UNCHANGED unfinished
    /\ UNCHANGED <<loose, dirs, archives, manifest, history>> /\ PackerOnly

(* autodie's rename() dies if another packer renamed the file.             *)
RenameArchive(p) ==
    /\ packer[p].at = "rename"
    /\ LET a == packer[p].name IN
       IF a \in DOMAIN unfinished
       THEN /\ archives' = Added(archives, a, unfinished[a])
            /\ unfinished' = Restrict(unfinished, DOMAIN unfinished \ {a})
            /\ packer' = [packer EXCEPT ![p] =
                  [at |-> "archive", found |-> @.found, rest |-> @.rest \ @.part]]
       ELSE PackerStops(p) /\ UNCHANGED <<archives, unfinished>>
    /\ UNCHANGED <<loose, dirs, manifest, history>> /\ PackerOnly

(* _build_manifest() dies without a directory for it.                      *)
GlobArchives(p) ==
    /\ packer[p].at = "archive" /\ packer[p].rest = {}
    /\ IF "archives" \in dirs
       THEN packer' = [packer EXCEPT ![p] =
               [at |-> "manifest", found |-> @.found, zips |-> DOMAIN archives]]
       ELSE PackerStops(p)
    /\ UNCHANGED <<files, history>> /\ PackerOnly

(* A packer that ran alone up to here lists every archive.                 *)
WriteManifest(p) ==
    /\ packer[p].at = "manifest"
    /\ manifest' = packer[p].zips
    /\ packer' = [packer EXCEPT ![p] = [at |-> "unlink", found |-> @.found]]
    /\ overlapped' = (overlapped /\ p \notin alone)
    /\ UNCHANGED <<loose, dirs, archives, unfinished, alone>> /\ PackerOnly

(* Mutants of UnlinkFile: files are deleted as soon as their archives are  *)
(* written; every file there is now is deleted.                            *)
UnlinkEarly(p) ==
    /\ packer[p].at \in {"manifest", "unlink"}
    /\ \E h \in packer[p].found :
          /\ loose' = loose \ {h}
          /\ packer' = [packer EXCEPT ![p].found = @ \ {h}]
    /\ UNCHANGED <<dirs, archives, unfinished, manifest, history>> /\ PackerOnly
UnlinkAll(p) ==
    /\ packer[p].at = "unlink" /\ packer[p].found # {}
    /\ loose' = {}
    /\ packer' = [packer EXCEPT ![p].found = {}]
    /\ UNCHANGED <<dirs, archives, unfinished, manifest, history>> /\ PackerOnly

(* The files that were found, one after the other.                         *)
UnlinkFile(p) ==
    /\ packer[p].at = "unlink"
    /\ \E h \in packer[p].found :
          /\ loose' = loose \ {h}
          /\ packer' = [packer EXCEPT ![p].found = @ \ {h}]
    /\ UNCHANGED <<dirs, archives, unfinished, manifest, history>> /\ PackerOnly

RemoveDirs(p) ==
    /\ packer[p].at = "unlink" /\ packer[p].found = {}
    /\ dirs' = dirs \ {d \in Dirs : Empty(d)}
    /\ PackerStops(p)
    /\ UNCHANGED <<loose, archives, unfinished, manifest, history>> /\ PackerOnly

KillPacker(p) ==
    /\ "crash" \in Events /\ Running(p)
    /\ PackerStops(p)
    /\ UNCHANGED <<files, history>> /\ PackerOnly

-----------------------------------------------------------------------------
(* get_source_by_hash()                                                    *)

ReaderOnly == UNCHANGED <<files, writer, packer, stored, history>>
ReaderDoes(r, at) == reader' = [reader EXCEPT ![r].at = at]

(* A source is looked up that was added before.                            *)
StartLookup(r) ==
    /\ reader[r].at = "idle"
    /\ \E h \in stored :
          reader' = [reader EXCEPT ![r] = [at |-> "first", map |-> @.map, hash |-> h]]
    /\ ReaderOnly /\ UNCHANGED <<unsure, missed>>

(* _get_source_by_hash(): in an archive, or a file, which is opened then.  *)
Packed(r) == reader[r].hash \in DOMAIN reader[r].map
InArchive(r) == reader[r].hash \in archives[reader[r].map[reader[r].hash]]
IsFile(r) == reader[r].hash \in loose

LookUp(r, here, otherwise) ==
    /\ reader[r].at = here
    /\ LET next == IF Packed(r) THEN "idle" ELSE IF IsFile(r) THEN "open" ELSE otherwise
           empty == IF Packed(r) THEN ~InArchive(r) ELSE next = "idle" IN
       /\ ReaderDoes(r, next)
       /\ missed' = IF empty /\ r \notin unsure THEN missed \cup {reader[r].hash} ELSE missed
    /\ ReaderOnly /\ UNCHANGED unsure

(* Mutant of FirstLookup: the manifest is never loaded again.              *)
FirstLookupOnly(r) == LookUp(r, "first", "idle")

FirstLookup(r) == LookUp(r, "first", "load")

(* read_file() dies if the file is gone.                                   *)
OpenFile(r) ==
    /\ reader[r].at = "open"
    /\ ReaderDoes(r, "idle")
    /\ ReaderOnly /\ UNCHANGED <<unsure, missed>>

ReloadManifest(r) ==
    /\ reader[r].at = "load"
    /\ reader' = [reader EXCEPT ![r].at = "second", ![r].map = LoadManifest]
    /\ unsure' = IF overlapped THEN unsure \cup {r} ELSE unsure \ {r}
    /\ ReaderOnly /\ UNCHANGED missed

SecondLookup(r) == LookUp(r, "second", "idle")

Next ==
    \/ \E w \in Writers :
          (\E h \in Hashes : Mkpath(w, h)) \/ CheckFile(w) \/ CreateFile(w) \/ RenameFile(w)
    \/ \E p \in Packers :
          \/ StartPacking(p) \/ GlobFiles(p) \/ SkipMissing(p) \/ ChooseName(p)
          \/ WriteArchive(p) \/ RenameArchive(p) \/ GlobArchives(p) \/ WriteManifest(p) \/ UnlinkFile(p)
          \/ RemoveDirs(p) \/ KillPacker(p)
    \/ \E r \in Readers :
          \/ StartLookup(r) \/ FirstLookup(r) \/ OpenFile(r) \/ ReloadManifest(r)
          \/ SecondLookup(r)

Spec == Init /\ [][Next]_vars

-----------------------------------------------------------------------------
(* Properties                                                              *)

(* Every source that was added is a file or in an archive the manifest     *)
(* lists, at each step of writers and packers and after packers that were  *)
(* killed.  Packers that overlap may hide some, until one runs alone.      *)
SourcesFindable ==
    ~overlapped => stored \subseteq loose \cup DOMAIN LoadManifest

(* No source is lost, not even if packers overlap or are killed: a file is *)
(* deleted only when an archive that stays has the source.                 *)
NothingLost == stored \subseteq loose \cup UNION {archives[a] : a \in DOMAIN archives}

(* A lookup that begins after a source was added does not come back empty, *)
(* wherever packers move the source in between, and whatever manifest the  *)
(* reader loaded before, unless it loads one while packers overlap.        *)
LookupsSucceed == missed = {}
-----------------------------------------------------------------------------
(* The inductive invariant of module EvalProofs.                           *)

Archived == UNION {archives[a] : a \in DOMAIN archives}
Findable == UNION {archives[a] : a \in Listed}

Fields(at) ==
    CASE at = "idle" -> {"at"}
      [] at = "glob" -> {"at", "map"}
      [] at = "archive" -> {"at", "found", "rest"}
      [] at \in {"write", "rename"} -> {"at", "found", "rest", "name", "part"}
      [] at = "manifest" -> {"at", "found", "zips"}
      [] at = "unlink" -> {"at", "found"}

ShapeInv ==
    /\ DOMAIN writer = Writers /\ DOMAIN packer = Packers /\ DOMAIN reader = Readers
    /\ \A w \in Writers : DOMAIN writer[w] = {"at", "hash"}
    /\ \A p \in Packers :
          /\ packer[p].at \in {"idle", "glob", "archive", "write", "rename", "manifest", "unlink"}
          /\ DOMAIN packer[p] = Fields(packer[p].at)
    /\ \A r \in Readers :
          /\ reader[r].at \in {"idle", "first", "open", "load", "second"}
          /\ {"at", "map"} \subseteq DOMAIN reader[r]
          /\ reader[r].at # "idle" => "hash" \in DOMAIN reader[r]

(* A packer that saves an archive has a name of its own for it, and the    *)
(* file is the one it wrote.                                               *)
NamesOK(p) ==
    packer[p].at \in {"write", "rename"} =>
        /\ packer[p].name \notin DOMAIN archives
        /\ \A q \in Packers \ {p} : ~Saving(q, packer[p].name)
        /\ packer[p].at = "rename" =>
              packer[p].name \in DOMAIN unfinished /\ unfinished[packer[p].name] = packer[p].part

(* What a packer found is archived, or a file that it will archive.        *)
FoundOK(p) ==
    /\ packer[p].at = "glob" => packer[p].map \subseteq Archived
    /\ packer[p].at \in {"archive", "write", "rename"} =>
          /\ packer[p].found \subseteq loose \cup Archived
          /\ packer[p].found \ packer[p].rest \subseteq Archived
    /\ packer[p].at \in {"manifest", "unlink"} => packer[p].found \subseteq Archived

(* A packer that runs alone lists all archives.                            *)
AloneOK(p) ==
    /\ Running(p) /\ p \in alone => Others(p) = {}
    /\ Running(p) /\ ~overlapped => p \in alone
ListsAll(p) ==
    /\ packer[p].at = "manifest" /\ p \in alone => packer[p].zips = DOMAIN archives
    /\ packer[p].at = "unlink" /\ p \in alone => packer[p].found \subseteq Findable

(* A manifest that a reader loaded stays right, and what it did not find   *)
(* among the files is archived, and listed once packers run alone.         *)
ReaderOK(r) ==
    /\ \A h \in DOMAIN reader[r].map :
          reader[r].map[h] \in DOMAIN archives /\ h \in archives[reader[r].map[h]]
    /\ reader[r].at = "first" => reader[r].hash \in stored
    /\ reader[r].at = "load" =>
          reader[r].hash \in Archived /\ (~overlapped => reader[r].hash \in Findable)
    /\ reader[r].at = "second" /\ r \notin unsure => reader[r].hash \in DOMAIN reader[r].map

PackersInv == \A p \in Packers : NamesOK(p) /\ FoundOK(p) /\ AloneOK(p) /\ ListsAll(p)
ReadersInv == \A r \in Readers : ReaderOK(r)

IInv ==
    /\ ShapeInv /\ PackersInv /\ ReadersInv
    /\ NothingLost /\ SourcesFindable /\ LookupsSucceed
=============================================================================
