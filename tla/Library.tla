------------------------------- MODULE Library -------------------------------
(***************************************************************************)
(* The library index (library.go): the files of the download folder, the   *)
(* index kept in memory, the scan that rebuilds it while downloads add     *)
(* files and a cleanup removes some, and the copy of the index on disk,    *)
(* which several goroutines save through one temporary file.  Cleanup and  *)
(* trash are those of library_dedup.go.                                    *)
(*                                                                         *)
(* A file is the recording its tags name and one number for its size and   *)
(* modification time; a file that is written again has a new number.       *)
(***************************************************************************)
EXTENDS Naturals, FiniteSets

CONSTANTS
    Path,       \* the audio files the library can hold, numbered in the order of their names
    LibDir,     \* the folders a scan can be asked for
    Under,      \* Under[d] is the set of paths below folder d
    Home,       \* serverDownloadDir(), the folder when the index has none
    Recording,  \* what the tags of a file can name
    ByName,     \* an entry titled after its file name: the tags were unreadable
    NoFile,     \* no file, no entry
    Rank,       \* Rank[p] is formatRank of the file name
    MaxLibOps   \* bound: downloads, scans, reports, cleanups and restarts

ASSUME LibraryAssumption ==
    /\ Path \subseteq Nat /\ Path # {} /\ IsFiniteSet(Path)
    /\ Home \in LibDir
    /\ Under \in [LibDir -> SUBSET Path]
    /\ Rank \in [Path -> Nat]
    /\ ByName \notin Recording
    /\ NoFile \notin [rec : Recording \cup {ByName}, stat : Nat]
    /\ MaxLibOps \in Nat

VARIABLES
    disk,       \* the library's files
    trash,      \* what moveFile put under .spotiflac-trash, whole or not yet
    entries,    \* libraryIndex.entries
    libDir,     \* libraryIndex.dir
    scan,       \* the goroutine of ScanLibrary
    note,       \* noteLibraryFile, called by the one queue worker
    timer,      \* a save is due (saveTimer)
    saver,      \* the calls of save() that run
    tmpFile,    \* library-index.json.tmp
    indexFile,  \* library-index.json
    report,     \* the paths the last FindDuplicates offered for removal, and who stays
    clean,      \* the running CleanupDuplicates
    libOps,     \* operations so far, of all kinds; numbers the files' writes too
    quiet,      \* history: nothing touched files or index since the scan began
    overlap,    \* history: two saves ran at the same time, or a save failed
    owed        \* history: the files a cleanup in trash mode has set out to move

libVars == <<disk, trash, entries, libDir, scan, note, timer, saver, tmpFile,
             indexFile, report, clean, libOps, quiet, overlap, owed>>

File == [rec : Recording \cup {ByName}, stat : 0..MaxLibOps]
Entry == File \cup {NoFile}
Index == [Path -> Entry]
Empty == [p \in Path |-> NoFile]

Saver == {"timer", "scan", "clean"}
Nothing == [dir |-> "", entries |-> Empty]
IdleSaver == [pc |-> "idle", snap |-> Nothing, fd |-> "none"]

(* What a file of the index holds: a snapshot, or not one that parses. *)
Whole(snap) == [state |-> "whole", snap |-> snap]
Partial == [state |-> "partial", snap |-> Nothing]
Missing == [state |-> "missing", snap |-> Nothing]

NoScan == [pc |-> "idle", dir |-> Home, known |-> Empty, files |-> Empty,
           todo |-> {}, found |-> Empty]
NoNote == [pc |-> "idle", path |-> CHOOSE p \in Path : TRUE, file |-> NoFile]
NoClean == [pc |-> "idle", mode |-> "trash", todo |-> {}, path |-> CHOOSE p \in Path : TRUE,
            root |-> Home, removed |-> {}, recs |-> {}, fresh |-> FALSE]
NoReport == [drop |-> {}, keep |-> {}]

(* The process starts: load() takes the index of an earlier run, which was
   that of the folder then, or finds none. *)
LibraryInit ==
    /\ disk \in {Empty} \cup {[p \in Path |-> [rec |-> r, stat |-> 0]] : r \in Recording}
    /\ indexFile \in {Missing, Whole([dir |-> Home, entries |-> disk])}
    /\ entries = indexFile.snap.entries /\ libDir = indexFile.snap.dir
    /\ trash = {} /\ scan = NoScan /\ note = NoNote
    /\ timer = FALSE /\ saver = [s \in Saver |-> IdleSaver]
    /\ tmpFile = Missing
    /\ report = NoReport /\ clean = NoClean
    /\ libOps = 0 /\ quiet = FALSE /\ overlap = FALSE /\ owed = {}

Op == libOps < MaxLibOps /\ libOps' = libOps + 1
-----------------------------------------------------------------------------
(* The download worker writes a file; its old content is gone by intent. *)
FileLands(p) ==
    /\ Op
    /\ note.pc = "idle"
    /\ \E r \in Recording : disk' = [disk EXCEPT ![p] = [rec |-> r, stat |-> libOps + 1]]
    /\ note' = [pc |-> "stat", path |-> p, file |-> NoFile]
    /\ owed' = {o \in owed : o.path # p}
    /\ quiet' = FALSE
    /\ clean' = [clean EXCEPT !.fresh = FALSE]
    /\ UNCHANGED <<trash, entries, libDir, scan, timer, saver, tmpFile, indexFile,
                   report, overlap>>

(* noteLibraryFile reads the file it was given, without the lock. *)
NoteReads ==
    /\ note.pc = "stat"
    /\ note' = IF disk[note.path] = NoFile
               THEN NoNote
               ELSE [note EXCEPT !.pc = "read", !.file = disk[note.path]]
    /\ UNCHANGED <<disk, trash, entries, libDir, scan, timer, saver, tmpFile, indexFile,
                   report, clean, libOps, quiet, overlap, owed>>

\* mutant: the index changes and no save is due
NoteInsertsUnsaved ==
    /\ note.pc = "read"
    /\ entries' = [entries EXCEPT ![note.path] = note.file]
    /\ libDir' = IF libDir = "" THEN Home ELSE libDir
    /\ note' = NoNote
    /\ quiet' = FALSE
    /\ UNCHANGED <<disk, trash, scan, timer, saver, tmpFile, indexFile, report, clean,
                   libOps, overlap, owed>>

(* ... then adds it to the index, and puts the save off by five seconds. *)
NoteInserts ==
    /\ note.pc = "read"
    /\ entries' = [entries EXCEPT ![note.path] = note.file]
    /\ libDir' = IF libDir = "" THEN Home ELSE libDir
    /\ timer' = TRUE
    /\ note' = NoNote
    /\ quiet' = FALSE
    /\ UNCHANGED <<disk, trash, scan, saver, tmpFile, indexFile, report, clean, libOps,
                   overlap, owed>>
-----------------------------------------------------------------------------
(* ScanLibrary: refused while a scan runs; only the folder's own index is reused. *)
ScanStart(d) ==
    /\ Op
    /\ scan.pc = "idle"
    /\ scan' = [NoScan EXCEPT !.pc = "walk", !.dir = d,
                              !.known = IF libDir = d THEN entries ELSE Empty]
    /\ quiet' = TRUE
    /\ UNCHANGED <<disk, trash, entries, libDir, note, timer, saver, tmpFile, indexFile,
                   report, clean, overlap, owed>>

(* The audio files below d; hidden folders, the trash among them, are skipped. *)
Walk(d) == [p \in Path |-> IF p \in Under[d] THEN disk[p] ELSE NoFile]

ScanWalk ==
    /\ scan.pc = "walk"
    /\ LET files == Walk(scan.dir)
       IN  scan' = [scan EXCEPT !.pc = "read", !.files = files,
                                !.todo = {p \in Path : files[p] # NoFile}]
    /\ UNCHANGED <<disk, trash, entries, libDir, note, timer, saver, tmpFile, indexFile,
                   report, clean, libOps, quiet, overlap, owed>>

\* mutant: what is known is not read again, whatever its size and time
ReusableAlways(known, file) == known # NoFile

(* A known file of the same size and time is not read again.               *)
Reusable(known, file) == known # NoFile /\ known.stat = file.stat

\* mutant: an entry without tags has no title at all
UntitledEntry(p, file) ==
    [rec |-> IF disk[p] = NoFile THEN NoFile ELSE disk[p].rec, stat |-> file.stat]

(* The walk's size and time with the tags of the moment the file is read.  *)
ReadEntry(p, file) ==
    [rec |-> IF disk[p] = NoFile THEN ByName ELSE disk[p].rec, stat |-> file.stat]

ScanRead(p) ==
    /\ scan.pc = "read"
    /\ p \in scan.todo
    /\ scan' = [scan EXCEPT
                  !.todo = @ \ {p},
                  !.found[p] = IF Reusable(scan.known[p], scan.files[p])
                               THEN scan.known[p]
                               ELSE ReadEntry(p, scan.files[p])]
    /\ UNCHANGED <<disk, trash, entries, libDir, note, timer, saver, tmpFile, indexFile,
                   report, clean, libOps, quiet, overlap, owed>>

(* The scan's result replaces the index, whatever was noted or forgotten
   meanwhile.  scanning is cleared here, so another scan may begin before the
   save that is due now; one publishes only once the save before has ended. *)
ScanPublish ==
    /\ scan.pc = "read"
    /\ scan.todo = {}
    /\ saver["scan"].pc = "idle"
    /\ entries' = scan.found
    /\ libDir' = scan.dir
    /\ scan' = NoScan
    /\ saver' = [saver EXCEPT !["scan"].pc = "due"]
    /\ UNCHANGED <<disk, trash, note, timer, tmpFile, indexFile, report, clean,
                   libOps, quiet, overlap, owed>>
-----------------------------------------------------------------------------
(* save(): snapshot under the read lock, write the temporary file, rename. *)
MayStart(s) ==
    \/ s = "timer" /\ timer /\ saver[s].pc = "idle"
    \/ s # "timer" /\ saver[s].pc = "due"

Running(s) == saver[s].pc \in {"open", "write", "rename"}

SaveStart(s) ==
    /\ MayStart(s)
    /\ saver' = [saver EXCEPT ![s] = [pc |-> "open", snap |-> [dir |-> libDir, entries |-> entries], fd |-> "none"]]
    /\ timer' = (timer /\ s # "timer")
    /\ overlap' = (overlap \/ \E o \in Saver : Running(o))
    /\ UNCHANGED <<disk, trash, entries, libDir, scan, note, tmpFile, indexFile, report,
                   clean, libOps, quiet, owed>>

\* mutant: the index is written in place
SaveOpenInPlace(s) ==
    /\ saver[s].pc = "open"
    /\ saver' = [saver EXCEPT ![s].pc = "write", ![s].fd = "index"]
    /\ indexFile' = Partial
    /\ UNCHANGED <<disk, trash, entries, libDir, scan, note, timer, tmpFile, report,
                   clean, libOps, quiet, overlap, owed>>

(* os.WriteFile truncates what is there, or creates the file. *)
SaveOpen(s) ==
    /\ saver[s].pc = "open"
    /\ saver' = [saver EXCEPT ![s].pc = "write", ![s].fd = "tmp"]
    /\ tmpFile' = Partial
    /\ UNCHANGED <<disk, trash, entries, libDir, scan, note, timer, indexFile, report,
                   clean, libOps, quiet, overlap, owed>>

(* What one write makes of a file another save may have written already.   *)
Written(old, snap) == {Whole(snap)} \cup IF old \in {Partial, Whole(snap)} THEN {} ELSE {Partial}

SaveWrite(s) ==
    /\ saver[s].pc = "write"
    /\ saver' = [saver EXCEPT ![s].pc = "rename"]
    /\ CASE saver[s].fd = "tmp" ->
              tmpFile' \in Written(tmpFile, saver[s].snap) /\ UNCHANGED indexFile
         [] saver[s].fd = "index" ->
              indexFile' \in Written(indexFile, saver[s].snap) /\ UNCHANGED tmpFile
         [] OTHER -> UNCHANGED <<tmpFile, indexFile>>
    /\ UNCHANGED <<disk, trash, entries, libDir, scan, note, timer, report, clean, libOps,
                   quiet, overlap, owed>>

(* A cleanup returns when its save is over. *)
SaverEnds(s) == clean' = IF s = "clean" THEN NoClean ELSE clean

(* The open files follow their names: tmp becomes the index, the old index is unlinked. *)
SaveRename(s) ==
    /\ saver[s].pc = "rename"
    /\ IF tmpFile = Missing
       THEN /\ saver' = [saver EXCEPT ![s] = IdleSaver]
            /\ UNCHANGED <<tmpFile, indexFile>>
       ELSE /\ indexFile' = tmpFile
            /\ tmpFile' = Missing
            /\ saver' = [o \in Saver |->
                           IF o = s THEN IdleSaver
                           ELSE [saver[o] EXCEPT !.fd = CASE @ = "tmp" -> "index"
                                                          [] @ = "index" -> "gone"
                                                          [] OTHER -> @]]
    /\ SaverEnds(s)
    /\ UNCHANGED <<disk, trash, entries, libDir, scan, note, timer, report, libOps, quiet,
                   overlap, owed>>

(* A write that fails leaves the temporary file and is not mentioned to anybody. *)
SaveFails(s) ==
    /\ Op
    /\ saver[s].pc = "write"
    /\ saver' = [saver EXCEPT ![s] = IdleSaver]
    /\ SaverEnds(s)
    /\ overlap' = TRUE
    /\ UNCHANGED <<disk, trash, entries, libDir, scan, note, timer, tmpFile, indexFile,
                   report, quiet, owed>>
-----------------------------------------------------------------------------
(* FindDuplicates offers all but the best copy of each recording; two files
   that are known by their names only have different ones. *)
Copies(p) == {q \in Path : entries[q] # NoFile /\ entries[p] # NoFile
                             /\ entries[q].rec = entries[p].rec /\ entries[p].rec # ByName}
Better(q, p) == \/ Rank[q] > Rank[p]
                \/ Rank[q] = Rank[p] /\ entries[q].stat > entries[p].stat
                \/ Rank[q] = Rank[p] /\ entries[q].stat = entries[p].stat /\ q < p
\* mutant: every copy of a recording there are two of
EveryCopy == {p \in Path : Copies(p) \ {p} # {}}

Droppable == {p \in Path : \E q \in Copies(p) : q # p /\ Better(q, p)}
Keepers == {p \in Path : Copies(p) # {} /\ \A q \in Copies(p) \ {p} : Better(p, q)}

FindDuplicates ==
    /\ Op
    /\ report' = [drop |-> Droppable, keep |-> Keepers]
    /\ UNCHANGED <<disk, trash, entries, libDir, scan, note, timer, saver, tmpFile,
                   indexFile, clean, quiet, overlap, owed>>

Fresh == /\ report = [drop |-> Droppable, keep |-> Keepers]
         /\ \A p \in Path : entries[p] # NoFile => disk[p] = entries[p]

Root == IF libDir = "" THEN Home ELSE libDir

(* The user confirms the offer, now or after the library has changed.      *)
CleanStart(m) ==
    /\ Op
    /\ clean.pc = "idle"
    /\ report.drop # {}
    /\ clean' = [NoClean EXCEPT !.pc = "next", !.mode = m, !.todo = report.drop,
                                !.root = Root, !.fresh = Fresh]
    /\ UNCHANGED <<disk, trash, entries, libDir, scan, note, timer, saver, tmpFile,
                   indexFile, report, quiet, overlap, owed>>

(* Not below the root, not there, or it cannot be removed: reported as failed,
   and on to the next. *)
CleanSkips(p) ==
    /\ clean.pc = "next"
    /\ p \in clean.todo
    /\ clean' = [clean EXCEPT !.todo = @ \ {p}]
    /\ UNCHANGED <<disk, trash, entries, libDir, scan, note, timer, saver, tmpFile,
                   indexFile, report, libOps, quiet, overlap, owed>>

Acceptable(p) == clean.pc = "next" /\ p \in clean.todo /\ p \in Under[clean.root] /\ disk[p] # NoFile

CleanDeletes(p) ==
    /\ Acceptable(p)
    /\ clean.mode = "delete"
    /\ disk' = [disk EXCEPT ![p] = NoFile]
    /\ clean' = [clean EXCEPT !.todo = @ \ {p}, !.removed = @ \cup {p},
                              !.recs = @ \cup {disk[p].rec}]
    /\ owed' = {o \in owed : o.path # p}
    /\ quiet' = FALSE
    /\ UNCHANGED <<trash, entries, libDir, scan, note, timer, saver, tmpFile, indexFile,
                   report, libOps, overlap>>

(* moveFile: a rename when source and trash are on one file system. *)
MoveRenames(p) ==
    /\ Acceptable(p)
    /\ clean.mode = "trash"
    /\ trash' = trash \cup {[path |-> p, file |-> disk[p], whole |-> TRUE]}
    /\ disk' = [disk EXCEPT ![p] = NoFile]
    /\ clean' = [clean EXCEPT !.todo = @ \ {p}, !.removed = @ \cup {p},
                              !.recs = @ \cup {disk[p].rec}]
    /\ owed' = owed \cup {[path |-> p, file |-> disk[p]]}
    /\ quiet' = FALSE
    /\ UNCHANGED <<entries, libDir, scan, note, timer, saver, tmpFile, indexFile, report,
                   libOps, overlap>>

\* mutant: the source is removed before it is copied
MoveCopiesLast(p) ==
    /\ Acceptable(p)
    /\ clean.mode = "trash"
    /\ disk' = [disk EXCEPT ![p] = NoFile]
    /\ trash' = trash \cup {[path |-> p, file |-> disk[p], whole |-> FALSE]}
    /\ clean' = [clean EXCEPT !.pc = "copying", !.todo = @ \ {p}, !.path = p]
    /\ owed' = owed \cup {[path |-> p, file |-> disk[p]]}
    /\ UNCHANGED <<entries, libDir, scan, note, timer, saver, tmpFile, indexFile, report,
                   libOps, quiet, overlap>>

(* ... else a copy, which is complete before the source is removed. *)
MoveCopies(p) ==
    /\ Acceptable(p)
    /\ clean.mode = "trash"
    /\ trash' = trash \cup {[path |-> p, file |-> disk[p], whole |-> FALSE]}
    /\ clean' = [clean EXCEPT !.pc = "copying", !.todo = @ \ {p}, !.path = p]
    /\ owed' = owed \cup {[path |-> p, file |-> disk[p]]}
    /\ UNCHANGED <<disk, entries, libDir, scan, note, timer, saver, tmpFile, indexFile,
                   report, libOps, quiet, overlap>>

Copying == {t \in trash : t.path = clean.path /\ ~t.whole}

MoveCopied ==
    /\ clean.pc = "copying"
    /\ trash' = (trash \ Copying) \cup {[t EXCEPT !.whole = TRUE] : t \in Copying}
    /\ clean' = [clean EXCEPT !.pc = "copied"]
    /\ UNCHANGED <<disk, entries, libDir, scan, note, timer, saver, tmpFile, indexFile,
                   report, libOps, quiet, overlap, owed>>

MoveCopyFails ==
    /\ clean.pc = "copying"
    /\ trash' = trash \ Copying
    /\ clean' = [clean EXCEPT !.pc = "next"]
    /\ UNCHANGED <<disk, entries, libDir, scan, note, timer, saver, tmpFile, indexFile,
                   report, libOps, quiet, overlap, owed>>

(* The source goes, or it cannot be removed and the call reports a failure. *)
MoveRemoves ==
    /\ clean.pc = "copied"
    /\ \/ /\ disk' = [disk EXCEPT ![clean.path] = NoFile]
          /\ disk[clean.path] # NoFile
          /\ clean' = [clean EXCEPT !.pc = "next", !.removed = @ \cup {clean.path},
                                    !.recs = @ \cup {disk[clean.path].rec}]
          /\ quiet' = FALSE
       \/ /\ clean' = [clean EXCEPT !.pc = "next"]
          /\ UNCHANGED <<disk, quiet>>
    /\ UNCHANGED <<trash, entries, libDir, scan, note, timer, saver, tmpFile, indexFile,
                   report, libOps, overlap, owed>>

(* forgetLibraryFiles, for what was removed; with nothing removed the call ends. *)
Forget(removed) == [p \in Path |-> IF p \in removed THEN NoFile ELSE entries[p]]

CleanForgets ==
    /\ clean.pc = "next"
    /\ clean.todo = {}
    /\ IF clean.removed = {}
       THEN clean' = NoClean /\ UNCHANGED <<entries, saver, quiet>>
       ELSE /\ entries' = Forget(clean.removed)
            /\ clean' = [clean EXCEPT !.pc = "save"]
            /\ saver' = [saver EXCEPT !["clean"].pc = "due"]
            /\ quiet' = FALSE
    /\ UNCHANGED <<disk, trash, libDir, scan, note, timer, tmpFile, indexFile, report,
                   libOps, overlap, owed>>

(* EmptyLibraryTrash deletes for good, what a running cleanup copies included. *)
EmptyTrash ==
    /\ Op
    /\ trash # {}
    /\ trash' = {}
    /\ owed' = {}
    /\ UNCHANGED <<disk, entries, libDir, scan, note, timer, saver, tmpFile, indexFile,
                   report, clean, quiet, overlap>>
-----------------------------------------------------------------------------
(* load(): an index that does not parse is as good as none. *)
Loaded == indexFile.snap

(* The process dies anywhere and starts again. *)
LibraryRestart ==
    /\ Op
    /\ entries' = Loaded.entries /\ libDir' = Loaded.dir
    /\ scan' = NoScan /\ note' = NoNote /\ timer' = FALSE
    /\ saver' = [s \in Saver |-> IdleSaver]
    /\ report' = NoReport /\ clean' = NoClean
    /\ quiet' = FALSE
    /\ UNCHANGED <<disk, trash, tmpFile, indexFile, overlap, owed>>

LibraryNext ==
    \/ \E p \in Path : \/ FileLands(p) \/ ScanRead(p) \/ CleanSkips(p)
                       \/ CleanDeletes(p) \/ MoveRenames(p) \/ MoveCopies(p)
    \/ \E d \in LibDir : ScanStart(d)
    \/ \E s \in Saver : SaveStart(s) \/ SaveOpen(s) \/ SaveWrite(s) \/ SaveRename(s)
                          \/ SaveFails(s)
    \/ \E m \in {"trash", "delete"} : CleanStart(m)
    \/ NoteReads \/ NoteInserts \/ ScanWalk \/ ScanPublish \/ FindDuplicates
    \/ MoveCopied \/ MoveCopyFails \/ MoveRemoves \/ CleanForgets \/ EmptyTrash
    \/ LibraryRestart

LibrarySpec == LibraryInit /\ [][LibraryNext]_libVars
-----------------------------------------------------------------------------
Snapshot == [dir : LibDir \cup {""}, entries : Index]
Content == {Missing, Partial} \cup [state : {"whole"}, snap : Snapshot]

(* Every variable keeps its type.  The index never holds what no file held:
   entries come from reads of files and from snapshots of other entries. *)
LibraryTypeOK ==
    /\ disk \in Index /\ entries \in Index
    /\ trash \subseteq [path : Path, file : File, whole : BOOLEAN]
    /\ owed \subseteq [path : Path, file : File]
    /\ libDir \in LibDir \cup {""}
    /\ scan \in [pc : {"idle", "walk", "read"}, dir : LibDir,
                 known : Index, files : Index, todo : SUBSET Path, found : Index]
    /\ note \in [pc : {"idle", "stat", "read"}, path : Path, file : Entry]
    /\ saver \in [Saver -> [pc : {"idle", "due", "open", "write", "rename"}, snap : Snapshot,
                            fd : {"none", "tmp", "index", "gone"}]]
    /\ tmpFile \in Content /\ indexFile \in Content
    /\ report \in [drop : SUBSET Path, keep : SUBSET Path]
    /\ clean \in [pc : {"idle", "next", "copying", "copied", "save"},
                  mode : {"trash", "delete"}, todo : SUBSET Path, path : Path,
                  root : LibDir, removed : SUBSET Path, recs : SUBSET (Recording \cup {ByName}),
                  fresh : BOOLEAN]
    /\ libOps \in 0..MaxLibOps
    /\ timer \in BOOLEAN /\ quiet \in BOOLEAN /\ overlap \in BOOLEAN

(* save() goes through a temporary file so that a process that dies in the
   middle of it leaves an index that parses: unless two saves ran at once (they
   share that file) the index on disk is absent or whole, at every step. *)
IndexFileIsWhole == overlap \/ indexFile # Partial

(* Whoever changes the index sees to a save that begins after the change: with
   no save due or running, what a restart would load is the index in memory,
   unless two saves overlapped or one failed. *)
Settled == ~timer /\ \A s \in Saver : saver[s].pc = "idle"
IndexFileCatchesUp ==
    Settled /\ ~overlap => indexFile.snap = [dir |-> libDir, entries |-> entries]

(* A scan forgets what was noted while it ran, and remembers what was removed;
   the next scan nothing interferes with repairs all of it: its index is the
   folder, file by file, whatever it reused of the former index. *)
QuietScanIsExact ==
    quiet /\ scan.pc = "idle" /\ saver["scan"].pc # "idle" => entries = Walk(libDir)

(* The trash makes a cleanup reversible: a file a cleanup has set out to move
   is in the library or whole in the trash, also when the copy across file
   systems fails half way or the process dies in it, until it is replaced by a
   download or the trash is emptied. *)
TrashKeepsTheFile ==
    \A o \in owed : \/ disk[o.path] = o.file
                    \/ [path |-> o.path, file |-> o.file, whole |-> TRUE] \in trash

(* A cleanup that follows an offer made from the present index, of files that
   are as the index says, leaves a copy of every recording it removed. *)
CleanupLeavesACopy ==
    clean.fresh => \A r \in clean.recs : \E p \in Path : disk[p] # NoFile /\ disk[p].rec = r
==============================================================================
