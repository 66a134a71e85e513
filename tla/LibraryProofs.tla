------------------------------- MODULE LibraryProofs -------------------------------
(*****************************************************************************)
(* Proofs about the audio files: the library's index with its scans, saves   *)
(* and cleanups, an attempt to obtain a track, from what it finds to what it *)
(* leaves, the renaming of several, and the pure functions, for tracks and   *)
(* files, that answer one question in several ways.                          *)
(*****************************************************************************)
EXTENDS Library, TrackFiles, Renaming, Answers, SiftingProofs,
        FiniteSetTheorems, TLAPS

-----------------------------------------------------------------------------
(* The records the library's goroutines keep.                              *)
TagNames == Recording \cup {ByName}
ScanRecord == [pc : {"idle", "walk", "read"}, dir : LibDir,
               known : Index, files : Index, todo : SUBSET Path, found : Index]
NoteRecord == [pc : {"idle", "stat", "read"}, path : Path, file : Entry]
SaverPc == {"idle", "due", "open", "write", "rename"}
Descriptor == {"none", "tmp", "index", "gone"}
SaverRecord == [pc : SaverPc, snap : Snapshot, fd : Descriptor]
CleanPc == {"idle", "next", "copying", "copied", "save"}
CleanRecord == [pc : CleanPc, mode : {"trash", "delete"}, todo : SUBSET Path, path : Path,
                root : LibDir, removed : SUBSET Path, recs : SUBSET TagNames, fresh : BOOLEAN]
ReportRecord == [drop : SUBSET Path, keep : SUBSET Path]
TrashRecord == [path : Path, file : File, whole : BOOLEAN]
OwedRecord == [path : Path, file : File]

LibTyped ==
    /\ disk \in Index /\ entries \in Index
    /\ trash \subseteq TrashRecord /\ owed \subseteq OwedRecord
    /\ libDir \in LibDir \cup {""}
    /\ scan \in ScanRecord /\ note \in NoteRecord
    /\ saver \in [Saver -> SaverRecord]
    /\ tmpFile \in Content /\ indexFile \in Content
    /\ report \in ReportRecord /\ clean \in CleanRecord
    /\ libOps \in 0..MaxLibOps
    /\ timer \in BOOLEAN /\ quiet \in BOOLEAN /\ overlap \in BOOLEAN

(* The scan reads what its walk has found.                                 *)
ScanReadsFound == \A p \in scan.todo : scan.files[p] # NoFile

(* Saves that do not overlap take turns with the temporary file.           *)
SavesTakeTurns ==
    ~overlap =>
        /\ indexFile # Partial
        /\ \A s, o \in Saver : Running(s) /\ Running(o) => s = o
        /\ \A s \in Saver : /\ saver[s].pc = "write" => saver[s].fd = "tmp" /\ tmpFile = Partial
                            /\ saver[s].pc = "rename" =>
                                 saver[s].fd = "tmp" /\ tmpFile = Whole(saver[s].snap)

(* What is in memory is on disk, or a save of it is due or under way.      *)
InMemory == [dir |-> libDir, entries |-> entries]
SaveIsComing ==
    ~overlap => \/ indexFile.snap = InMemory /\ \A s \in Saver : ~Running(s)
                \/ timer
                \/ \E s \in Saver : saver[s].pc = "due" \/ (Running(s) /\ saver[s].snap = InMemory)

(* Who has an entry e for a path p.                                        *)
HasEntry(p, e) ==
    \/ e = entries[p] \/ e = indexFile.snap.entries[p] \/ e = tmpFile.snap.entries[p]
    \/ \E s \in Saver : e = saver[s].snap.entries[p]
    \/ e = scan.known[p] \/ e = scan.files[p] \/ e = scan.found[p]
    \/ p = note.path /\ e = note.file

(* A file's number tells which it is: an entry with the number of the file that
   is there has its tags. *)
TellsFile(file, n, e) ==
    e # NoFile => e.stat <= n /\ (file # NoFile /\ file.stat = e.stat => e = file)
NumbersTell ==
    \A p \in Path : /\ disk[p] # NoFile => disk[p].stat <= libOps
                    /\ \A e \in Entry : HasEntry(p, e) => TellsFile(disk[p], libOps, e)

(* A scan that nothing has interfered with finds what is there.            *)
QuietScanFinds ==
    quiet =>
        /\ scan.pc = "walk" => scan.found = Empty
        /\ scan.pc = "read" => /\ scan.files = Walk(scan.dir)
                               /\ \A p \in Path \ scan.todo : scan.found[p] = scan.files[p]
        /\ scan.pc = "idle" /\ saver["scan"].pc # "idle" => entries = Walk(libDir)

(* A copy across file systems is of the file that is owed.                 *)
CopyIsOwed ==
    \A o \in owed : o.path = clean.path =>
        /\ clean.pc = "copying" => \E b \in BOOLEAN :
             [path |-> o.path, file |-> o.file, whole |-> b] \in trash
        /\ clean.pc = "copied" => [path |-> o.path, file |-> o.file, whole |-> TRUE] \in trash

(* The files a cleanup may still remove, and the recordings of the others. *)
InDanger == clean.todo \cup (IF clean.pc \in {"copying", "copied"} THEN {clean.path} ELSE {})
SafeRecs == {disk[k].rec : k \in {j \in Path \ InDanger : disk[j] # NoFile}}
CopyIsSafe ==
    clean.fresh => /\ clean.recs \subseteq SafeRecs
                   /\ \A p \in InDanger : disk[p] # NoFile => disk[p].rec \in SafeRecs

LibraryInv ==
    /\ LibTyped /\ ScanReadsFound
    /\ SavesTakeTurns /\ SaveIsComing
    /\ NumbersTell /\ QuietScanFinds
    /\ TrashKeepsTheFile /\ CopyIsOwed /\ CopyIsSafe
-----------------------------------------------------------------------------
(* What the start values are.                                              *)
LEMMA StartValues ==
  /\ Empty \in Index /\ Nothing \in Snapshot
  /\ NoScan \in ScanRecord /\ NoNote \in NoteRecord /\ NoClean \in CleanRecord /\ NoReport \in ReportRecord
  /\ IdleSaver \in SaverRecord
  /\ Partial \in Content /\ Missing \in Content /\ Partial # Missing
  <1>1. Empty \in Index BY DEF Empty, Index, Entry
  <1>2. Nothing \in Snapshot BY <1>1 DEF Nothing, Snapshot
  <1>3. Home \in LibDir /\ (CHOOSE p \in Path : TRUE) \in Path
    BY LibraryAssumption DEF LibraryAssumption
  <1>4. NoScan \in ScanRecord BY <1>1, <1>3 DEF NoScan, ScanRecord
  <1>5. NoNote \in NoteRecord BY <1>3 DEF NoNote, NoteRecord, Entry
  <1>6. NoClean \in CleanRecord BY <1>3 DEF NoClean, CleanRecord, CleanPc
  <1>7. NoReport \in ReportRecord BY DEF NoReport, ReportRecord
  <1>8. IdleSaver \in SaverRecord BY <1>2 DEF IdleSaver, SaverRecord, SaverPc, Descriptor
  <1>9. Partial \in Content /\ Missing \in Content BY DEF Content
  <1>10. Partial # Missing BY DEF Partial, Missing
  <1> QED BY <1>1, <1>2, <1>4, <1>5, <1>6, <1>7, <1>8, <1>9, <1>10

(* What can be read from the index file.                                   *)
LEMMA ContentIs ==
  /\ \A c \in Content : c.snap \in Snapshot /\ c.snap.entries \in Index /\ c.snap.dir \in LibDir \cup {""}
  /\ \A n \in Snapshot : Whole(n) \in Content /\ Whole(n) # Partial /\ Whole(n) # Missing /\
       Whole(n).snap = n
  <1>1. ASSUME NEW c \in Content PROVE c.snap \in Snapshot
    BY StartValues DEF Content, Missing, Partial
  <1>2. \A n \in Snapshot : n.entries \in Index /\ n.dir \in LibDir \cup {""} BY DEF Snapshot
  <1>3. ASSUME NEW n \in Snapshot
        PROVE  Whole(n) \in Content /\ Whole(n) # Partial /\ Whole(n) # Missing /\ Whole(n).snap = n
    BY DEF Content, Whole, Partial, Missing
  <1> QED BY <1>1, <1>2, <1>3

(* A file is not none.                                                     *)
LEMMA FileIs ==
  /\ NoFile \notin File
  /\ \A f \in File : f.rec \in TagNames /\ f.stat \in 0..MaxLibOps /\ f.stat \in Nat
  /\ \A r \in TagNames, n \in 0..MaxLibOps : [rec |-> r, stat |-> n] \in File
  <1>1. ASSUME NoFile \in File PROVE FALSE
    <2>1. NoFile \in [rec : Recording \cup {ByName}, stat : Nat] BY <1>1 DEF File
    <2> QED BY <2>1, LibraryAssumption DEF LibraryAssumption
  <1> QED BY <1>1, LibraryAssumption DEF File, TagNames, LibraryAssumption

(* The record of a cleanup, as its steps change it.                        *)
LEMMA CleanEdits ==
  /\ \A c \in CleanRecord, b \in BOOLEAN : [c EXCEPT !.fresh = b] \in CleanRecord
  /\ \A c \in CleanRecord, t \in SUBSET Path : [c EXCEPT !.todo = t] \in CleanRecord
  /\ \A c \in CleanRecord, x \in CleanPc : [c EXCEPT !.pc = x] \in CleanRecord
  /\ \A c \in CleanRecord, t \in SUBSET Path, r \in SUBSET Path, s \in SUBSET TagNames :
       [c EXCEPT !.todo = t, !.removed = r, !.recs = s] \in CleanRecord
  /\ \A c \in CleanRecord, x \in CleanPc, t \in SUBSET Path, p \in Path :
       [c EXCEPT !.pc = x, !.todo = t, !.path = p] \in CleanRecord
  /\ \A c \in CleanRecord, x \in CleanPc, r \in SUBSET Path, s \in SUBSET TagNames :
       [c EXCEPT !.pc = x, !.removed = r, !.recs = s] \in CleanRecord
  /\ \A c \in CleanRecord, x \in CleanPc, m \in {"trash", "delete"}, t \in SUBSET Path, d \in LibDir,
       b \in BOOLEAN :
       [c EXCEPT !.pc = x, !.mode = m, !.todo = t, !.root = d, !.fresh = b] \in CleanRecord
  <1>1. \A c \in CleanRecord, b \in BOOLEAN : [c EXCEPT !.fresh = b] \in CleanRecord
    BY DEF CleanRecord
  <1>2. \A c \in CleanRecord, t \in SUBSET Path : [c EXCEPT !.todo = t] \in CleanRecord
    BY DEF CleanRecord
  <1>3. \A c \in CleanRecord, x \in CleanPc : [c EXCEPT !.pc = x] \in CleanRecord BY DEF CleanRecord
  <1>4. \A c \in CleanRecord, r \in SUBSET Path : [c EXCEPT !.removed = r] \in CleanRecord
    BY DEF CleanRecord
  <1>5. \A c \in CleanRecord, s \in SUBSET TagNames : [c EXCEPT !.recs = s] \in CleanRecord
    BY DEF CleanRecord
  <1>6. \A c \in CleanRecord, p \in Path : [c EXCEPT !.path = p] \in CleanRecord BY DEF CleanRecord
  <1>7. \A c \in CleanRecord, m \in {"trash", "delete"} : [c EXCEPT !.mode = m] \in CleanRecord
    BY DEF CleanRecord
  <1>8. \A c \in CleanRecord, d \in LibDir : [c EXCEPT !.root = d] \in CleanRecord
    BY DEF CleanRecord
  <1>9. ASSUME NEW c \in CleanRecord, NEW t \in SUBSET Path, NEW r \in SUBSET Path,
                 NEW s \in SUBSET TagNames
        PROVE [c EXCEPT !.todo = t, !.removed = r, !.recs = s] \in CleanRecord
    <2>1. [[[c EXCEPT !.todo = t] EXCEPT !.removed = r] EXCEPT !.recs = s] \in CleanRecord
      BY <1>2, <1>4, <1>5, Zenon
    <2>2. [[[c EXCEPT !.todo = t] EXCEPT !.removed = r] EXCEPT !.recs = s] = [c EXCEPT !.todo = t,
            !.removed = r, !.recs = s]
      BY DEF CleanRecord
    <2> QED BY <2>1, <2>2, Zenon
  <1>10. ASSUME NEW c \in CleanRecord, NEW x \in CleanPc, NEW t \in SUBSET Path, NEW p \in Path
         PROVE [c EXCEPT !.pc = x, !.todo = t, !.path = p] \in CleanRecord
    <2>1. [[[c EXCEPT !.pc = x] EXCEPT !.todo = t] EXCEPT !.path = p] \in CleanRecord
      BY <1>2, <1>3, <1>6, Zenon
    <2>2. [[[c EXCEPT !.pc = x] EXCEPT !.todo = t] EXCEPT !.path = p] = [c EXCEPT !.pc = x, !.todo = t,
            !.path = p]
      BY DEF CleanRecord
    <2> QED BY <2>1, <2>2, Zenon
  <1>11. ASSUME NEW c \in CleanRecord, NEW x \in CleanPc, NEW r \in SUBSET Path, NEW s \in SUBSET TagNames
         PROVE [c EXCEPT !.pc = x, !.removed = r, !.recs = s] \in CleanRecord
    <2>1. [[[c EXCEPT !.pc = x] EXCEPT !.removed = r] EXCEPT !.recs = s] \in CleanRecord
      BY <1>3, <1>4, <1>5, Zenon
    <2>2. [[[c EXCEPT !.pc = x] EXCEPT !.removed = r] EXCEPT !.recs = s] = [c EXCEPT !.pc = x,
            !.removed = r, !.recs = s]
      BY DEF CleanRecord
    <2> QED BY <2>1, <2>2, Zenon
  <1>12. ASSUME NEW c \in CleanRecord, NEW x \in CleanPc, NEW m \in {"trash", "delete"},
                  NEW t \in SUBSET Path,
                NEW d \in LibDir, NEW b \in BOOLEAN
         PROVE [c EXCEPT !.pc = x, !.mode = m, !.todo = t, !.root = d, !.fresh = b] \in CleanRecord
    <2>1. [[[[[c EXCEPT !.pc = x] EXCEPT !.mode = m] EXCEPT !.todo = t] EXCEPT !.root = d] EXCEPT !.fresh = b] \in CleanRecord
      BY <1>1, <1>2, <1>3, <1>7, <1>8, Zenon
    <2>2. [[[[[c EXCEPT !.pc = x] EXCEPT !.mode = m] EXCEPT !.todo = t] EXCEPT !.root = d] EXCEPT !.fresh = b]
            = [c EXCEPT !.pc = x, !.mode = m, !.todo = t, !.root = d, !.fresh = b]
      BY DEF CleanRecord
    <2> QED BY <2>1, <2>2, Zenon
  <1> QED BY <1>1, <1>2, <1>3, <1>9, <1>10, <1>11, <1>12, Zenon
-----------------------------------------------------------------------------
(* An operation is counted within the bound.                               *)
LEMMA OneMoreOp ==
  ASSUME NEW n \in 0..MaxLibOps, n < MaxLibOps
  PROVE  n + 1 \in 0..MaxLibOps
  BY LibraryAssumption DEF LibraryAssumption

(* Each step keeps the types.                                              *)
LEMMA LibTypedStep ==
  ASSUME LibTyped, ScanReadsFound, [LibraryNext]_libVars
  PROVE  LibTyped'
  <1> USE DEF LibTyped
  <1>0. /\ \A p \in Path : disk[p] \in Entry /\ entries[p] \in Entry /\
             (disk[p] # NoFile => disk[p] \in File)
        /\ MaxLibOps \in Nat
        /\ clean.todo \in SUBSET Path /\ clean.removed \in SUBSET Path /\ clean.recs \in SUBSET TagNames
        /\ clean.path \in Path /\ clean.root \in LibDir /\ clean.fresh \in BOOLEAN
        /\ report.drop \in SUBSET Path
        /\ NoFile \in Entry /\ File \subseteq Entry
    BY LibraryAssumption DEF Index, Entry, CleanRecord, ReportRecord, LibraryAssumption
  <1>o. Op => libOps' \in 0..MaxLibOps /\ libOps + 1 \in 0..MaxLibOps
    <2>1. MaxLibOps \in Nat BY LibraryAssumption DEF LibraryAssumption
    <2>2. ASSUME NEW n \in 0..MaxLibOps, n < MaxLibOps PROVE n + 1 \in 0..MaxLibOps
      BY <2>2, OneMoreOp
    <2>3. libOps \in 0..MaxLibOps OBVIOUS
    <2> QED BY <2>2, <2>3 DEF Op
  <1>s. \A s \in Saver : saver[s] \in SaverRecord OBVIOUS
  <1>1. ASSUME NEW p \in Path, FileLands(p) PROVE LibTyped'
    <2>1. libOps' \in 0..MaxLibOps /\ libOps + 1 \in 0..MaxLibOps
      BY <1>1, <1>o DEF FileLands
    <2>2. disk' \in Index
      BY <1>1, <1>0, <2>1, FileIs DEF FileLands, Index, TagNames
    <2>3. note' \in NoteRecord
      BY <1>1, <1>0 DEF FileLands, NoteRecord
    <2>4. clean' \in CleanRecord
      <3>1. [clean EXCEPT !.fresh = FALSE] \in CleanRecord BY CleanEdits, Zenon
      <3> QED BY <1>1, <3>1 DEF FileLands
    <2>5. owed' \in SUBSET OwedRecord
      BY <1>1 DEF FileLands
    <2> QED BY <1>1, <2>1, <2>2, <2>3, <2>4, <2>5, <1>0 DEF FileLands
  <1>2. ASSUME NoteReads PROVE LibTyped'
    <2>1. note' \in NoteRecord
      <3>1. NoNote \in NoteRecord BY StartValues
      <3>2. note.path \in Path BY DEF NoteRecord
      <3>3. [note EXCEPT !.pc = "read", !.file = disk[note.path]] \in NoteRecord
        BY <1>0, <3>2 DEF NoteRecord
      <3> QED BY <1>2, <3>1, <3>3 DEF NoteReads
    <2> QED BY <1>2, <2>1, <1>0 DEF NoteReads
  <1>3. ASSUME NoteInserts PROVE LibTyped'
    <2>1. note.path \in Path /\ note.file \in Entry
      BY DEF NoteRecord
    <2>2. entries' \in Index
      BY <1>3, <2>1 DEF NoteInserts, Index
    <2>3. note' \in NoteRecord
      BY <1>3, StartValues DEF NoteInserts
    <2>4. libDir' \in LibDir \cup {""}
      BY <1>3, LibraryAssumption DEF NoteInserts, LibraryAssumption
    <2> QED BY <1>3, <2>1, <2>2, <2>3, <2>4, <1>0 DEF NoteInserts
  <1>4. ASSUME NEW d \in LibDir, ScanStart(d) PROVE LibTyped'
    <2>1. libOps' \in 0..MaxLibOps
      BY <1>4, <1>o DEF ScanStart
    <2>2. scan' \in ScanRecord
      <3>1. PICK k \in Index : k = IF libDir = d THEN entries ELSE Empty BY StartValues
      <3>2. ASSUME NEW c \in ScanRecord PROVE [c EXCEPT !.pc = "walk", !.dir = d] \in ScanRecord
        BY DEF ScanRecord
      <3>3. ASSUME NEW c \in ScanRecord PROVE [c EXCEPT !.known = k] \in ScanRecord
        BY DEF ScanRecord
      <3>4. PICK c \in ScanRecord : c = NoScan BY StartValues
      <3>5. [c EXCEPT !.pc = "walk", !.dir = d,
              !.known = k] = [[c EXCEPT !.pc = "walk", !.dir = d] EXCEPT !.known = k]
        BY DEF ScanRecord
      <3>6. [c EXCEPT !.pc = "walk", !.dir = d, !.known = k] \in ScanRecord
        BY <3>2, <3>3, <3>5, Zenon
      <3> QED BY <1>4, <3>1, <3>4, <3>6 DEF ScanStart
    <2> QED BY <1>4, <2>1, <2>2, <1>0 DEF ScanStart
  <1>5. ASSUME ScanWalk PROVE LibTyped'
    <2>1. scan' \in ScanRecord
      <3>1. PICK k \in Index : k = Walk(scan.dir)
        <4>1. scan.dir \in LibDir BY DEF ScanRecord
        <4>2. Walk(scan.dir) \in Index BY <1>0, <4>1 DEF Walk, Index
        <4> QED BY <4>2
      <3>2. PICK t \in SUBSET Path : t = {p \in Path : k[p] # NoFile} OBVIOUS
      <3>3. ASSUME NEW c \in ScanRecord PROVE [c EXCEPT !.pc = "read", !.files = k] \in ScanRecord
        BY DEF ScanRecord
      <3>4. ASSUME NEW c \in ScanRecord PROVE [c EXCEPT !.todo = t] \in ScanRecord BY DEF ScanRecord
      <3>5. [scan EXCEPT !.pc = "read", !.files = k,
              !.todo = t] = [[scan EXCEPT !.pc = "read", !.files = k] EXCEPT !.todo = t]
        BY DEF ScanRecord
      <3>6. [scan EXCEPT !.pc = "read", !.files = k, !.todo = t] \in ScanRecord
        BY <3>3, <3>4, <3>5, Zenon
      <3> QED BY <1>5, <3>1, <3>2, <3>6 DEF ScanWalk
    <2> QED BY <1>5, <2>1, <1>0 DEF ScanWalk
  <1>6. ASSUME NEW p \in Path, ScanRead(p) PROVE LibTyped'
    <2>1. scan' \in ScanRecord
      <3>1. PICK e : e = IF Reusable(scan.known[p], scan.files[p]) THEN scan.known[p] ELSE ReadEntry(p,
              scan.files[p])
        OBVIOUS
      <3>2. e \in Entry
        <4>1. scan.known[p] \in Entry /\ scan.files[p] \in Entry BY DEF ScanRecord, Index
        <4>2. scan.files[p] \in File BY <1>6, <4>1 DEF ScanRead, ScanReadsFound, Entry
        <4>3. ReadEntry(p, scan.files[p]) \in File BY <1>0, <4>2, FileIs DEF ReadEntry, TagNames
        <4> QED BY <1>0, <3>1, <4>1, <4>3
      <3>3. ASSUME NEW c \in ScanRecord, NEW t \in SUBSET Path
            PROVE [c EXCEPT !.todo = t, !.found[p] = e] \in ScanRecord
        BY <3>2 DEF ScanRecord, Index
      <3>4. scan.todo \ {p} \in SUBSET Path BY DEF ScanRecord
      <3>5. scan' = [scan EXCEPT !.todo = scan.todo \ {p}, !.found[p] = e]
        BY <1>6, <3>1 DEF ScanRead
      <3> QED BY <3>3, <3>4, <3>5
    <2> QED BY <1>6, <2>1, <1>0 DEF ScanRead
  <1>7. ASSUME ScanPublish PROVE LibTyped'
    <2>1. scan.found \in Index /\ scan.dir \in LibDir
      BY DEF ScanRecord
    <2>2. scan' \in ScanRecord
      BY <1>7, StartValues DEF ScanPublish
    <2>3. saver' \in [Saver -> SaverRecord]
      BY <1>7 DEF ScanPublish, SaverRecord, SaverPc
    <2> QED BY <1>7, <2>1, <2>2, <2>3, <1>0 DEF ScanPublish
  <1>8. ASSUME NEW s \in Saver, SaveStart(s) PROVE LibTyped'
    <2>1. saver' \in [Saver -> SaverRecord]
      <3>1. [pc |-> "open", snap |-> [dir |-> libDir, entries |-> entries], fd |-> "none"] \in SaverRecord
        BY DEF SaverRecord, SaverPc, Descriptor, Snapshot
      <3> QED BY <1>8, <3>1 DEF SaveStart
    <2>2. timer' \in BOOLEAN /\ overlap' \in BOOLEAN
      BY <1>8 DEF SaveStart
    <2> QED BY <1>8, <2>1, <2>2, <1>0 DEF SaveStart
  <1>9. ASSUME NEW s \in Saver, SaveOpen(s) PROVE LibTyped'
    <2>1. saver' \in [Saver -> SaverRecord]
      BY <1>9 DEF SaveOpen, SaverRecord, SaverPc, Descriptor
    <2>2. tmpFile' \in Content
      BY <1>9, StartValues DEF SaveOpen
    <2> QED BY <1>9, <2>1, <2>2, <1>0 DEF SaveOpen
  <1>10. ASSUME NEW s \in Saver, SaveWrite(s) PROVE LibTyped'
    <2>1. saver' \in [Saver -> SaverRecord]
      BY <1>10 DEF SaveWrite, SaverRecord, SaverPc
    <2>2. \A c : Written(c, saver[s].snap) \subseteq Content
      BY <1>s, ContentIs, StartValues DEF Written, SaverRecord
    <2>3. tmpFile' \in Content /\ indexFile' \in Content
      BY <1>10, <2>2 DEF SaveWrite
    <2> QED BY <1>10, <2>1, <2>2, <2>3, <1>0 DEF SaveWrite
  <1>11. ASSUME NEW s \in Saver, SaveRename(s) PROVE LibTyped'
    <2>1. saver' \in [Saver -> SaverRecord]
      <3>1. ASSUME NEW o \in Saver, NEW d \in Descriptor PROVE [saver[o] EXCEPT !.fd = d] \in SaverRecord
        BY <1>s DEF SaverRecord
      <3>2. ASSUME NEW o \in Saver
            PROVE [saver[o] EXCEPT !.fd = CASE saver[o].fd = "tmp" -> "index" [] saver[o].fd = "index" -> "gone"
                                            [] OTHER -> saver[o].fd] \in SaverRecord
        <4>1. saver[o].fd \in Descriptor BY <1>s DEF SaverRecord
        <4>2. (CASE saver[o].fd = "tmp" -> "index" [] saver[o].fd = "index" -> "gone" [] OTHER -> saver[o].fd) \in Descriptor
          BY <4>1 DEF Descriptor
        <4> QED BY <3>1, <4>2
      <3>3. IdleSaver \in SaverRecord BY StartValues
      <3> QED BY <1>11, <3>2, <3>3 DEF SaveRename
    <2>2. tmpFile' \in Content /\ indexFile' \in Content
      BY <1>11, StartValues DEF SaveRename
    <2>3. clean' \in CleanRecord
      BY <1>11, StartValues DEF SaveRename, SaverEnds
    <2> QED BY <1>11, <2>1, <2>2, <2>3, <1>0 DEF SaveRename
  <1>12. ASSUME NEW s \in Saver, SaveFails(s) PROVE LibTyped'
    <2>1. libOps' \in 0..MaxLibOps
      BY <1>12, <1>o DEF SaveFails
    <2>2. saver' \in [Saver -> SaverRecord]
      BY <1>12, StartValues DEF SaveFails
    <2>3. clean' \in CleanRecord
      BY <1>12, StartValues DEF SaveFails, SaverEnds
    <2> QED BY <1>12, <2>1, <2>2, <2>3, <1>0 DEF SaveFails
  <1>13. ASSUME FindDuplicates PROVE LibTyped'
    <2>1. libOps' \in 0..MaxLibOps
      BY <1>13, <1>o DEF FindDuplicates
    <2>2. report' \in ReportRecord
      BY <1>13 DEF FindDuplicates, ReportRecord, Droppable, Keepers
    <2> QED BY <1>13, <2>1, <2>2, <1>0 DEF FindDuplicates
  <1>14. ASSUME NEW m \in {"trash", "delete"}, CleanStart(m) PROVE LibTyped'
    <2>1. libOps' \in 0..MaxLibOps
      BY <1>14, <1>o DEF CleanStart
    <2>2. clean' \in CleanRecord
      <3>1. Root \in LibDir BY LibraryAssumption DEF Root, LibraryAssumption
      <3>2. Fresh \in BOOLEAN BY DEF Fresh
      <3>3. "next" \in CleanPc BY DEF CleanPc
      <3>4. [NoClean EXCEPT !.pc = "next", !.mode = m, !.todo = report.drop, !.root = Root,
              !.fresh = Fresh] \in CleanRecord
        BY <1>0, <3>1, <3>2, <3>3, CleanEdits, StartValues, Zenon
      <3> QED BY <1>14, <3>4 DEF CleanStart
    <2> QED BY <1>14, <2>1, <2>2, <1>0 DEF CleanStart
  <1>15. ASSUME NEW p \in Path, CleanSkips(p) PROVE LibTyped'
    <2>1. clean.todo \ {p} \in SUBSET Path
      BY <1>0
    <2>2. clean' \in CleanRecord
      <3>1. [clean EXCEPT !.todo = clean.todo \ {p}] \in CleanRecord
        BY <1>0, <2>1, CleanEdits, Zenon
      <3> QED BY <1>15, <3>1 DEF CleanSkips
    <2> QED BY <1>15, <2>1, <2>2, <1>0 DEF CleanSkips
  <1>16. ASSUME NEW p \in Path, CleanDeletes(p) PROVE LibTyped'
    <2>1. /\ disk[p] \in File /\ disk[p].rec \in TagNames /\ clean.todo \ {p} \in SUBSET Path
          /\ clean.removed \cup {p} \in SUBSET Path /\ clean.recs \cup {disk[p].rec} \in SUBSET TagNames
      BY <1>16, <1>0, FileIs DEF CleanDeletes, Acceptable
    <2>2. clean' \in CleanRecord
      <3>1. [clean EXCEPT !.todo = clean.todo \ {p}, !.removed = clean.removed \cup {p},
                          !.recs = clean.recs \cup {disk[p].rec}] \in CleanRecord
        BY <1>0, <2>1, CleanEdits, Zenon
      <3> QED BY <1>16, <3>1 DEF CleanDeletes
    <2>3. disk' \in Index
      BY <1>16, <1>0 DEF CleanDeletes, Index
    <2> QED BY <1>16, <2>1, <2>2, <2>3, <1>0 DEF CleanDeletes
  <1>17. ASSUME NEW p \in Path, MoveRenames(p) PROVE LibTyped'
    <2>1. /\ disk[p] \in File /\ disk[p].rec \in TagNames /\ clean.todo \ {p} \in SUBSET Path
          /\ clean.removed \cup {p} \in SUBSET Path /\ clean.recs \cup {disk[p].rec} \in SUBSET TagNames
      BY <1>17, <1>0, FileIs DEF MoveRenames, Acceptable
    <2>2. clean' \in CleanRecord
      <3>1. [clean EXCEPT !.todo = clean.todo \ {p}, !.removed = clean.removed \cup {p},
                          !.recs = clean.recs \cup {disk[p].rec}] \in CleanRecord
        BY <1>0, <2>1, CleanEdits, Zenon
      <3> QED BY <1>17, <3>1 DEF MoveRenames
    <2>3. disk' \in Index
      BY <1>17, <1>0 DEF MoveRenames, Index
    <2>4. trash' \in SUBSET TrashRecord /\ owed' \in SUBSET OwedRecord
      <3>1. [path |-> p, file |-> disk[p], whole |-> TRUE] \in TrashRecord BY <2>1 DEF TrashRecord
      <3>2. [path |-> p, file |-> disk[p]] \in OwedRecord BY <2>1 DEF OwedRecord
      <3>3. trash \subseteq TrashRecord /\ owed \subseteq OwedRecord OBVIOUS
      <3> QED BY <1>17, <3>1, <3>2, <3>3 DEF MoveRenames
    <2> QED BY <1>17, <2>1, <2>2, <2>3, <2>4, <1>0 DEF MoveRenames
  <1>18. ASSUME NEW p \in Path, MoveCopies(p) PROVE LibTyped'
    <2>1. disk[p] \in File /\ clean.todo \ {p} \in SUBSET Path /\ "copying" \in CleanPc
      BY <1>18, <1>0 DEF MoveCopies, Acceptable, CleanPc
    <2>2. clean' \in CleanRecord
      <3>1. [clean EXCEPT !.pc = "copying", !.todo = clean.todo \ {p}, !.path = p] \in CleanRecord
        BY <1>0, <2>1, CleanEdits, Zenon
      <3> QED BY <1>18, <3>1 DEF MoveCopies
    <2>3. trash' \in SUBSET TrashRecord /\ owed' \in SUBSET OwedRecord
      <3>1. [path |-> p, file |-> disk[p], whole |-> FALSE] \in TrashRecord BY <2>1 DEF TrashRecord
      <3>2. [path |-> p, file |-> disk[p]] \in OwedRecord BY <2>1 DEF OwedRecord
      <3>3. trash \subseteq TrashRecord /\ owed \subseteq OwedRecord OBVIOUS
      <3> QED BY <1>18, <3>1, <3>2, <3>3 DEF MoveCopies
    <2> QED BY <1>18, <2>1, <2>2, <2>3, <1>0 DEF MoveCopies
  <1>19. ASSUME MoveCopied PROVE LibTyped'
    <2>1. clean' \in CleanRecord
      <3>1. "copied" \in CleanPc BY DEF CleanPc
      <3>2. [clean EXCEPT !.pc = "copied"] \in CleanRecord BY <1>0, <3>1, CleanEdits, Zenon
      <3> QED BY <1>19, <3>2 DEF MoveCopied
    <2>2. trash' \in SUBSET TrashRecord
      <3>1. \A t \in TrashRecord : [t EXCEPT !.whole = TRUE] \in TrashRecord BY DEF TrashRecord
      <3> QED BY <1>19, <3>1 DEF MoveCopied, Copying
    <2> QED BY <1>19, <2>1, <2>2, <1>0 DEF MoveCopied
  <1>20. ASSUME MoveCopyFails PROVE LibTyped'
    <2>1. clean' \in CleanRecord
      <3>1. "next" \in CleanPc BY DEF CleanPc
      <3>2. [clean EXCEPT !.pc = "next"] \in CleanRecord BY <1>0, <3>1, CleanEdits, Zenon
      <3> QED BY <1>20, <3>2 DEF MoveCopyFails
    <2>2. trash' \in SUBSET TrashRecord
      BY <1>20 DEF MoveCopyFails
    <2> QED BY <1>20, <2>1, <2>2, <1>0 DEF MoveCopyFails
  <1>21. ASSUME MoveRemoves PROVE LibTyped'
    <2>1. clean' \in CleanRecord
      <3>1. "next" \in CleanPc BY DEF CleanPc
      <3>2. [clean EXCEPT !.pc = "next"] \in CleanRecord BY <1>0, <3>1, CleanEdits, Zenon
      <3>3. ASSUME disk[clean.path] # NoFile
            PROVE [clean EXCEPT !.pc = "next", !.removed = clean.removed \cup {clean.path},
                                !.recs = clean.recs \cup {disk[clean.path].rec}] \in CleanRecord
        <4>1. /\ clean.removed \cup {clean.path} \in SUBSET Path
              /\ clean.recs \cup {disk[clean.path].rec} \in SUBSET TagNames
          BY <1>0, <3>3, FileIs
        <4> QED BY <1>0, <3>1, <4>1, CleanEdits, Zenon
      <3> QED BY <1>21, <3>2, <3>3 DEF MoveRemoves
    <2>2. disk' \in Index /\ quiet' \in BOOLEAN
      BY <1>21, <1>0 DEF MoveRemoves, Index
    <2> QED BY <1>21, <2>1, <2>2, <1>0 DEF MoveRemoves
  <1>22. ASSUME CleanForgets PROVE LibTyped'
    <2>1. clean' \in CleanRecord
      <3>1. "save" \in CleanPc BY DEF CleanPc
      <3>2. [clean EXCEPT !.pc = "save"] \in CleanRecord BY <1>0, <3>1, CleanEdits, Zenon
      <3> QED BY <1>22, <3>2, StartValues DEF CleanForgets
    <2>2. entries' \in Index
      BY <1>22, <1>0 DEF CleanForgets, Forget, Index
    <2>3. saver' \in [Saver -> SaverRecord] /\ quiet' \in BOOLEAN
      BY <1>22, ZenonT(40) DEF CleanForgets, SaverRecord, SaverPc
    <2> QED BY <1>22, <2>1, <2>2, <2>3, <1>0 DEF CleanForgets
  <1>23. ASSUME EmptyTrash PROVE LibTyped'
    <2>1. libOps' \in 0..MaxLibOps
      BY <1>23, <1>o DEF EmptyTrash
    <2> QED BY <1>23, <2>1, <1>0 DEF EmptyTrash
  <1>24. ASSUME LibraryRestart PROVE LibTyped'
    <2>1. libOps' \in 0..MaxLibOps
      BY <1>24, <1>o DEF LibraryRestart
    <2>2. entries' \in Index /\ libDir' \in LibDir \cup {""}
      BY <1>24, ContentIs DEF LibraryRestart, Loaded
    <2>3. /\ scan' \in ScanRecord /\ note' \in NoteRecord /\ report' \in ReportRecord
          /\ clean' \in CleanRecord /\ saver' \in [Saver -> SaverRecord]
      BY <1>24, StartValues DEF LibraryRestart
    <2> QED BY <1>24, <2>1, <2>2, <2>3, <1>0 DEF LibraryRestart
  <1>25. CASE UNCHANGED libVars BY <1>25 DEF libVars
  <1> QED
    BY <1>1, <1>2, <1>3, <1>4, <1>5, <1>6, <1>7, <1>8, <1>9, <1>10, <1>11, <1>12, <1>13, <1>14,
         <1>15, <1>16, <1>17, <1>18, <1>19, <1>20, <1>21, <1>22, <1>23, <1>24, <1>25 DEF LibraryNext
-----------------------------------------------------------------------------
(* The walk puts on the list what it has found.                            *)
LEMMA FoundStep ==
  ASSUME LibraryInv, LibTyped', [LibraryNext]_libVars
  PROVE  ScanReadsFound'
  <1> USE DEF LibraryInv
  <1>1. ASSUME \/ (\E p \in Path : FileLands(p) \/ CleanSkips(p) \/ CleanDeletes(p) \/ MoveRenames(p) \/
                    MoveCopies(p))
               \/ (\E s \in Saver : SaveStart(s) \/ SaveOpen(s) \/ SaveWrite(s) \/ SaveRename(s) \/
                    SaveFails(s))
               \/ (\E m \in {"trash", "delete"} : CleanStart(m))
               \/ NoteReads \/ NoteInserts \/ FindDuplicates \/ MoveCopied \/ MoveCopyFails \/
                    MoveRemoves \/ CleanForgets \/ EmptyTrash
               \/ UNCHANGED libVars
        PROVE UNCHANGED <<scan>>
    BY <1>1 DEF libVars, FileLands, CleanSkips, CleanDeletes, MoveRenames, MoveCopies, SaveStart,
           SaveOpen, SaveWrite, SaveRename, SaveFails, CleanStart, NoteReads, NoteInserts,
           FindDuplicates, MoveCopied, MoveCopyFails, MoveRemoves, CleanForgets, EmptyTrash
  <1>2. UNCHANGED <<scan>> => ScanReadsFound' BY DEF ScanReadsFound
  <1>3. ASSUME NEW d \in LibDir, ScanStart(d) PROVE ScanReadsFound'
    <2>1. scan'.todo = {}
      BY <1>3 DEF ScanStart, NoScan
    <2> QED BY <2>1 DEF ScanReadsFound
  <1>4. ASSUME ScanWalk PROVE ScanReadsFound'
    <2>1. scan'.files = Walk(scan.dir) /\ scan'.todo = {p \in Path : scan'.files[p] # NoFile}
      BY <1>4 DEF ScanWalk, LibTyped, ScanRecord
    <2> QED BY <2>1 DEF ScanReadsFound
  <1>5. ASSUME NEW p \in Path, ScanRead(p) PROVE ScanReadsFound'
    <2>1. scan'.files = scan.files /\ scan'.todo = scan.todo \ {p}
      BY <1>5 DEF ScanRead, LibTyped, ScanRecord
    <2> QED BY <2>1 DEF ScanReadsFound
  <1>6. ASSUME ScanPublish PROVE ScanReadsFound'
    BY <1>6 DEF ScanPublish, NoScan, ScanReadsFound
  <1>7. ASSUME LibraryRestart PROVE ScanReadsFound'
    BY <1>7 DEF LibraryRestart, NoScan, ScanReadsFound
  <1> QED BY <1>1, <1>2, <1>3, <1>4, <1>5, <1>6, <1>7 DEF LibraryNext

(* A saver is idle, due or runs.                                           *)
LEMMA SaverIs ==
  ASSUME LibTyped
  PROVE  \A s \in Saver : /\ saver[s] \in SaverRecord
                          /\ saver[s].snap \in Snapshot
                          /\ saver[s].pc \in SaverPc
  BY DEF LibTyped, SaverRecord

(* A save that begins alone has the temporary file to itself.              *)
LEMMA TurnsStep ==
  ASSUME LibraryInv, LibTyped', [LibraryNext]_libVars
  PROVE  SavesTakeTurns'
  <1> USE DEF LibraryInv
  <1>1. ASSUME \/ (\E p \in Path : FileLands(p) \/ ScanRead(p) \/ CleanSkips(p) \/ CleanDeletes(p) \/
                    MoveRenames(p) \/ MoveCopies(p))
               \/ (\E d \in LibDir : ScanStart(d))
               \/ (\E m \in {"trash", "delete"} : CleanStart(m))
               \/ NoteReads \/ NoteInserts \/ ScanWalk \/ FindDuplicates \/ MoveCopied \/ MoveCopyFails \/
                    MoveRemoves \/ EmptyTrash
               \/ UNCHANGED libVars
        PROVE UNCHANGED <<saver, tmpFile, indexFile, overlap>>
    BY <1>1 DEF libVars, FileLands, ScanRead, CleanSkips, CleanDeletes, MoveRenames, MoveCopies,
           ScanStart, CleanStart, NoteReads, NoteInserts, ScanWalk, FindDuplicates, MoveCopied,
           MoveCopyFails, MoveRemoves, EmptyTrash
  <1>2. UNCHANGED <<saver, tmpFile, indexFile, overlap>> => SavesTakeTurns'
    BY DEF SavesTakeTurns, Running
  <1>3. ASSUME ScanPublish PROVE SavesTakeTurns'
    <2>1. \A o \in Saver : saver'[o].pc = (IF o = "scan" THEN "due" ELSE saver[o].pc) /\
            saver'[o].fd = saver[o].fd
                            /\ saver'[o].snap = saver[o].snap
      BY <1>3 DEF ScanPublish, LibTyped, SaverRecord
    <2>2. UNCHANGED <<tmpFile, indexFile, overlap>> BY <1>3 DEF ScanPublish
    <2> QED BY <2>1, <2>2 DEF SavesTakeTurns, Running
  <1>4. ASSUME CleanForgets PROVE SavesTakeTurns'
    <2>1. \A o \in Saver : /\ saver'[o].pc \in {saver[o].pc, "due"} /\ saver'[o].fd = saver[o].fd
                            /\ saver'[o].snap = saver[o].snap
      <3>1. CASE clean.removed = {} BY <1>4, <3>1 DEF CleanForgets
      <3>2. CASE clean.removed # {}
        <4>1. saver' = [saver EXCEPT !["clean"].pc = "due"] BY <1>4, <3>2 DEF CleanForgets
        <4> QED BY <4>1, SaverIs DEF LibTyped, SaverRecord
      <3> QED BY <3>1, <3>2
    <2>2. UNCHANGED <<tmpFile, indexFile, overlap>> BY <1>4 DEF CleanForgets
    <2> QED BY <2>1, <2>2 DEF SavesTakeTurns, Running
  <1>5. ASSUME NEW s \in Saver, SaveStart(s) PROVE SavesTakeTurns'
    <2>1. \A o \in Saver :
            saver'[o] = IF o = s THEN [pc |-> "open", snap |-> [dir |-> libDir, entries |-> entries],
            fd |-> "none"]
                                        ELSE saver[o]
      BY <1>5 DEF SaveStart, LibTyped
    <2>2. UNCHANGED <<tmpFile, indexFile>> /\ (overlap' <=> overlap \/ \E o \in Saver : Running(o))
      BY <1>5 DEF SaveStart
    <2>3. saver'[s].pc = "open" BY <2>1
    <2> QED BY <2>1, <2>2, <2>3 DEF SavesTakeTurns, Running
  <1>6. ASSUME NEW s \in Saver, SaveOpen(s) PROVE SavesTakeTurns'
    <2>1. \A o \in Saver : /\ saver'[o].pc = (IF o = s THEN "write" ELSE saver[o].pc)
                            /\ saver'[o].fd = (IF o = s THEN "tmp" ELSE saver[o].fd)
                            /\ saver'[o].snap = saver[o].snap
      BY <1>6 DEF SaveOpen, LibTyped, SaverRecord
    <2>2. UNCHANGED <<indexFile, overlap>> /\ tmpFile' = Partial /\ Running(s)
      BY <1>6 DEF SaveOpen, Running
    <2> QED BY <2>1, <2>2 DEF SavesTakeTurns, Running
  <1>7. ASSUME NEW s \in Saver, SaveWrite(s) PROVE SavesTakeTurns'
    <2>1. \A o \in Saver : /\ saver'[o].pc = (IF o = s THEN "rename" ELSE saver[o].pc)
                            /\ saver'[o].fd = saver[o].fd
                            /\ saver'[o].snap = saver[o].snap
      BY <1>7 DEF SaveWrite, LibTyped, SaverRecord
    <2>2. UNCHANGED overlap /\ Running(s) BY <1>7 DEF SaveWrite, Running
    <2>3. ~overlap => saver[s].fd = "tmp" /\ tmpFile = Partial BY <1>7 DEF SaveWrite, SavesTakeTurns
    <2>4. ~overlap => tmpFile' = Whole(saver[s].snap) /\ indexFile' = indexFile
      BY <1>7, <2>3 DEF SaveWrite, Written
    <2> QED BY <2>1, <2>2, <2>3, <2>4 DEF SavesTakeTurns, Running
  <1>8. ASSUME NEW s \in Saver, SaveRename(s) PROVE SavesTakeTurns'
    <2>1. Running(s) /\ UNCHANGED overlap BY <1>8 DEF SaveRename, Running
    <2>2. ASSUME ~overlap PROVE SavesTakeTurns'
      <3>1. tmpFile = Whole(saver[s].snap) BY <1>8, <2>2 DEF SaveRename, SavesTakeTurns
      <3>2. tmpFile # Missing /\ tmpFile # Partial BY <3>1, SaverIs, ContentIs
      <3>3. indexFile' = tmpFile BY <1>8, <3>2 DEF SaveRename
      <3>4. \A o \in Saver : saver'[o].pc = IF o = s THEN "idle" ELSE saver[o].pc
        BY <1>8, <3>2, SaverIs DEF SaveRename, IdleSaver, SaverRecord
      <3>5. \A o \in Saver : o # s => ~Running(o) BY <2>1, <2>2 DEF SavesTakeTurns
      <3>6. \A o \in Saver : ~Running(o)' BY <3>4, <3>5 DEF Running
      <3> QED BY <3>2, <3>3, <3>6 DEF SavesTakeTurns, Running
    <2> QED BY <2>1, <2>2 DEF SavesTakeTurns
  <1>9. ASSUME NEW s \in Saver, SaveFails(s) PROVE SavesTakeTurns'
    BY <1>9 DEF SaveFails, SavesTakeTurns
  <1>10. ASSUME LibraryRestart PROVE SavesTakeTurns'
    BY <1>10 DEF LibraryRestart, SavesTakeTurns, Running, IdleSaver
  <1> QED BY <1>1, <1>2, <1>3, <1>4, <1>5, <1>6, <1>7, <1>8, <1>9, <1>10 DEF LibraryNext

(* Whoever changes the index has it saved after the change.                *)
LEMMA ComingStep ==
  ASSUME LibraryInv, LibTyped', [LibraryNext]_libVars
  PROVE  SaveIsComing'
  <1> USE DEF LibraryInv
  <1>1. ASSUME \/ (\E p \in Path : FileLands(p) \/ ScanRead(p) \/ CleanSkips(p) \/ CleanDeletes(p) \/
                    MoveRenames(p) \/ MoveCopies(p))
               \/ (\E d \in LibDir : ScanStart(d))
               \/ (\E m \in {"trash", "delete"} : CleanStart(m))
               \/ NoteReads \/ ScanWalk \/ FindDuplicates \/ MoveCopied \/ MoveCopyFails \/ MoveRemoves \/
                    EmptyTrash
               \/ UNCHANGED libVars
        PROVE UNCHANGED <<saver, tmpFile, indexFile, overlap, timer, entries, libDir>>
    BY <1>1 DEF libVars, FileLands, ScanRead, CleanSkips, CleanDeletes, MoveRenames, MoveCopies,
           ScanStart, CleanStart, NoteReads, ScanWalk, FindDuplicates, MoveCopied, MoveCopyFails,
           MoveRemoves, EmptyTrash
  <1>2. UNCHANGED <<saver, tmpFile, indexFile, overlap, timer, entries, libDir>> => SaveIsComing'
    BY DEF SaveIsComing, InMemory, Running
  <1>3. ASSUME NoteInserts PROVE SaveIsComing'
    BY <1>3 DEF NoteInserts, SaveIsComing
  <1>4. ASSUME ScanPublish PROVE SaveIsComing'
    <2>1. saver'["scan"].pc = "due" BY <1>4 DEF ScanPublish, LibTyped, SaverRecord, Saver
    <2> QED BY <2>1 DEF SaveIsComing, Saver
  <1>5. ASSUME CleanForgets PROVE SaveIsComing'
    <2>1. CASE clean.removed = {}
      <3>1. UNCHANGED <<saver, tmpFile, indexFile, overlap, timer, entries, libDir>>
        BY <1>5, <2>1 DEF CleanForgets
      <3> QED BY <1>2, <3>1
    <2>2. CASE clean.removed # {}
      <3>1. saver'["clean"].pc = "due"
          BY <1>5, <2>2, ZenonT(40) DEF CleanForgets, LibTyped, SaverRecord, Saver
      <3> QED BY <3>1 DEF SaveIsComing, Saver
    <2> QED BY <2>1, <2>2
  <1>6. ASSUME NEW s \in Saver, SaveStart(s) PROVE SaveIsComing'
    <2>1. saver'[s] = [pc |-> "open", snap |-> InMemory, fd |-> "none"]
      BY <1>6 DEF SaveStart, LibTyped, InMemory
    <2>2. UNCHANGED <<entries, libDir>> BY <1>6 DEF SaveStart
    <2>3. InMemory' = InMemory BY <2>2 DEF InMemory
    <2>4. saver'[s].pc = "open" /\ saver'[s].snap = InMemory' BY <2>1, <2>3
    <2> QED BY <2>4 DEF SaveIsComing, Running
  <1>7. ASSUME NEW s \in Saver, SaveOpen(s) PROVE SaveIsComing'
    <2>1. \A o \in Saver : /\ saver'[o].pc = (IF o = s THEN "write" ELSE saver[o].pc)
                            /\ saver'[o].snap = saver[o].snap
      BY <1>7 DEF SaveOpen, LibTyped, SaverRecord
    <2>2. UNCHANGED <<indexFile, overlap, timer, entries, libDir>> /\ saver[s].pc = "open"
      BY <1>7 DEF SaveOpen
    <2>3. InMemory' = InMemory BY <2>2 DEF InMemory
    <2>4. \A o \in Saver : (Running(o)' <=> Running(o)) /\ (saver'[o].pc = "due" <=> saver[o].pc = "due")
      BY <2>1, <2>2 DEF Running
    <2> QED BY <2>1, <2>2, <2>3, <2>4 DEF SaveIsComing
  <1>8. ASSUME NEW s \in Saver, SaveWrite(s) PROVE SaveIsComing'
    <2>1. \A o \in Saver : /\ saver'[o].pc = (IF o = s THEN "rename" ELSE saver[o].pc)
                            /\ saver'[o].snap = saver[o].snap
      BY <1>8 DEF SaveWrite, LibTyped, SaverRecord
    <2>2. UNCHANGED <<overlap, timer, entries, libDir>> /\ saver[s].pc = "write"
      BY <1>8 DEF SaveWrite
    <2>3. InMemory' = InMemory BY <2>2 DEF InMemory
    <2>4. \A o \in Saver : (Running(o)' <=> Running(o)) /\ (saver'[o].pc = "due" <=> saver[o].pc = "due")
      BY <2>1, <2>2 DEF Running
    <2>5. ~overlap => UNCHANGED indexFile BY <1>8 DEF SaveWrite, SavesTakeTurns
    <2> QED BY <2>1, <2>2, <2>3, <2>4, <2>5 DEF SaveIsComing
  <1>9. ASSUME NEW s \in Saver, SaveRename(s) PROVE SaveIsComing'
    <2>1. Running(s) /\ saver[s].pc = "rename" /\ UNCHANGED <<overlap, timer, entries, libDir>>
      BY <1>9 DEF SaveRename, Running
    <2>2. InMemory' = InMemory BY <2>1 DEF InMemory
    <2>3. ASSUME ~overlap PROVE SaveIsComing'
      <3>1. tmpFile = Whole(saver[s].snap) BY <1>9, <2>3 DEF SaveRename, SavesTakeTurns
      <3>2. tmpFile # Missing /\ tmpFile.snap = saver[s].snap BY <3>1, SaverIs, ContentIs
      <3>3. indexFile' = tmpFile BY <1>9, <3>2 DEF SaveRename
      <3>4. \A o \in Saver : saver'[o].pc = IF o = s THEN "idle" ELSE saver[o].pc
        BY <1>9, <3>2, SaverIs DEF SaveRename, IdleSaver, SaverRecord
      <3>5. \A o \in Saver : Running(o) => o = s BY <2>1, <2>3 DEF SavesTakeTurns
      <3>6. /\ \A o \in Saver : ~Running(o)'
            /\ \A o \in Saver : saver[o].pc = "due" => saver'[o].pc = "due"
        BY <2>1, <3>4, <3>5 DEF Running
      <3>7. CASE timer BY <3>7, <2>1 DEF SaveIsComing
      <3>8. CASE \E o \in Saver : saver[o].pc = "due" BY <3>8, <3>6 DEF SaveIsComing
      <3>9. CASE saver[s].snap = InMemory BY <3>9, <2>2, <3>2, <3>3, <3>6 DEF SaveIsComing
      <3>10. timer \/ (\E o \in Saver : saver[o].pc = "due") \/ saver[s].snap = InMemory
        BY <2>1, <2>3, <3>5 DEF SaveIsComing
      <3> QED BY <3>7, <3>8, <3>9, <3>10
    <2> QED BY <2>1, <2>3 DEF SaveIsComing
  <1>10. ASSUME NEW s \in Saver, SaveFails(s) PROVE SaveIsComing'
    BY <1>10 DEF SaveFails, SaveIsComing
  <1>11. ASSUME LibraryRestart PROVE SaveIsComing'
    <2>1. indexFile' = indexFile /\ entries' = indexFile.snap.entries /\ libDir' = indexFile.snap.dir
      BY <1>11 DEF LibraryRestart, Loaded
    <2>2. indexFile.snap \in Snapshot BY ContentIs DEF LibTyped
    <2>3. indexFile.snap = [dir |-> indexFile.snap.dir, entries |-> indexFile.snap.entries]
      BY <2>2 DEF Snapshot
    <2>4. \A o \in Saver : ~Running(o)' BY <1>11 DEF LibraryRestart, Running, IdleSaver
    <2> QED BY <2>1, <2>3, <2>4 DEF SaveIsComing, InMemory
  <1> QED BY <1>1, <1>2, <1>3, <1>4, <1>5, <1>6, <1>7, <1>8, <1>9, <1>10, <1>11 DEF LibraryNext

-----------------------------------------------------------------------------
(* What a step does to files and numbers: files stay, go, or come with a number of their own. *)
Grown ==
    /\ libOps' \in {libOps, libOps + 1}
    /\ \A p \in Path : \/ disk'[p] = disk[p] \/ disk'[p] = NoFile
                       \/ disk'[p] \in File /\ disk'[p].stat = libOps + 1 /\ libOps' = libOps + 1

(* A file that is written has a number no file had before.                 *)
LEMMA GrownStep ==
  ASSUME LibTyped, [LibraryNext]_libVars
  PROVE  Grown
  <1>0. libOps \in 0..MaxLibOps /\ disk \in Index BY DEF LibTyped
  <1>1. ASSUME \/ (\E p \in Path : ScanRead(p) \/ CleanSkips(p) \/ MoveCopies(p))
               \/ (\E s \in Saver : SaveStart(s) \/ SaveOpen(s) \/ SaveWrite(s) \/ SaveRename(s))
               \/ NoteReads \/ NoteInserts \/ ScanWalk \/ ScanPublish \/ MoveCopied \/ MoveCopyFails \/
                    CleanForgets
               \/ UNCHANGED libVars
        PROVE  UNCHANGED <<disk, libOps>>
    BY <1>1 DEF libVars, ScanRead, CleanSkips, MoveCopies, SaveStart, SaveOpen, SaveWrite,
           SaveRename, NoteReads, NoteInserts, ScanWalk, ScanPublish, MoveCopied, MoveCopyFails,
           CleanForgets
  <1>2. ASSUME \/ (\E d \in LibDir : ScanStart(d))
               \/ (\E s \in Saver : SaveFails(s))
               \/ FindDuplicates \/ EmptyTrash \/ LibraryRestart
               \/ (\E m \in {"trash", "delete"} : CleanStart(m))
        PROVE  UNCHANGED disk /\ libOps' = libOps + 1
    BY <1>2 DEF Op, ScanStart, SaveFails, FindDuplicates, CleanStart, EmptyTrash, LibraryRestart
  <1>3. ASSUME NEW p \in Path, FileLands(p) PROVE Grown
    <2>1. PICK r \in Recording : disk' = [disk EXCEPT ![p] = [rec |-> r, stat |-> libOps + 1]]
      BY <1>3 DEF FileLands
    <2>2. libOps' = libOps + 1 /\ libOps < MaxLibOps BY <1>3 DEF FileLands, Op
    <2>3. libOps + 1 \in 0..MaxLibOps BY <1>0, <2>2, OneMoreOp
    <2>4. [rec |-> r, stat |-> libOps + 1] \in File BY <2>3, FileIs DEF TagNames
    <2>5. \A q \in Path : disk'[q] = IF q = p THEN [rec |-> r, stat |-> libOps + 1] ELSE disk[q]
      BY <1>0, <2>1 DEF Index
    <2>6. PICK f \in File : f = [rec |-> r, stat |-> libOps + 1] BY <2>4
    <2>7. f.stat = libOps + 1 BY <2>6
    <2> QED BY <2>2, <2>5, <2>6, <2>7 DEF Grown
  <1>4. ASSUME (\E p \in Path : CleanDeletes(p) \/ MoveRenames(p)) \/ MoveRemoves
        PROVE  Grown
    <2>1. libOps' = libOps BY <1>4 DEF CleanDeletes, MoveRenames, MoveRemoves
    <2>2. disk' = disk \/ \E p \in Path : disk' = [disk EXCEPT ![p] = NoFile]
      BY <1>4 DEF CleanDeletes, MoveRenames, MoveRemoves, CleanRecord, LibTyped
    <2> QED BY <1>0, <2>1, <2>2 DEF Grown, Index
  <1> QED BY <1>1, <1>2, <1>3, <1>4 DEF LibraryNext, Grown

(* Where an entry that somebody has after a step comes from.               *)
Sourced(p, e) ==
    \/ HasEntry(p, e) \/ e = NoFile
    \/ disk' = disk /\ e = disk[p]
    \/ disk' = disk /\ scan.files[p] # NoFile /\ e = ReadEntry(p, scan.files[p])
AllSourced == \A p \in Path, e \in Entry : HasEntry(p, e)' => Sourced(p, e)

(* Entries are copied, or read from the files that are there.              *)
LEMMA SourcedStep ==
  ASSUME LibraryInv, LibTyped', [LibraryNext]_libVars
  PROVE  AllSourced
  <1> USE DEF LibraryInv
  <1>1. ASSUME \/ (\E p \in Path : CleanSkips(p) \/ CleanDeletes(p) \/ MoveRenames(p) \/ MoveCopies(p))
               \/ (\E m \in {"trash", "delete"} : CleanStart(m))
               \/ FindDuplicates \/ MoveCopied \/ MoveCopyFails \/ MoveRemoves \/ EmptyTrash
               \/ UNCHANGED libVars
        PROVE UNCHANGED <<entries, indexFile, tmpFile, saver, scan, note>>
    BY <1>1 DEF libVars, CleanSkips, CleanDeletes, MoveRenames, MoveCopies, CleanStart,
           FindDuplicates, MoveCopied, MoveCopyFails, MoveRemoves, EmptyTrash
  <1>2. UNCHANGED <<entries, indexFile, tmpFile, saver, scan, note>> => AllSourced
    BY DEF HasEntry, Sourced, AllSourced
  <1>3. ASSUME NEW p \in Path, FileLands(p) PROVE AllSourced
    <2>1. note'.file = NoFile BY <1>3 DEF FileLands
    <2>2. UNCHANGED <<entries, indexFile, tmpFile, saver, scan>> BY <1>3 DEF FileLands
    <2> QED BY <2>1, <2>2 DEF HasEntry, Sourced, AllSourced
  <1>4. ASSUME NoteReads PROVE AllSourced
    <2>1. note'.file = NoFile \/ (note'.path = note.path /\ note'.file = disk[note.path])
      BY <1>4 DEF NoteReads, NoNote, LibTyped, NoteRecord
    <2>2. UNCHANGED <<disk, entries, indexFile, tmpFile, saver, scan>> BY <1>4 DEF NoteReads
    <2> QED BY <2>1, <2>2 DEF HasEntry, Sourced, AllSourced
  <1>5. ASSUME NoteInserts PROVE AllSourced
    <2>1. \A p \in Path : entries'[p] = IF p = note.path THEN note.file ELSE entries[p]
      BY <1>5 DEF NoteInserts, LibTyped, Index
    <2>2. note'.file = NoFile BY <1>5 DEF NoteInserts, NoNote
    <2>3. UNCHANGED <<disk, indexFile, tmpFile, saver, scan>> BY <1>5 DEF NoteInserts
    <2> QED BY <2>1, <2>2, <2>3 DEF HasEntry, Sourced, AllSourced
  <1>6. ASSUME NEW d \in LibDir, ScanStart(d) PROVE AllSourced
    <2>1. scan'.known \in {entries, Empty} /\ scan'.files = Empty /\ scan'.found = Empty
      BY <1>6 DEF ScanStart, NoScan
    <2>2. UNCHANGED <<entries, indexFile, tmpFile, saver, note>> BY <1>6 DEF ScanStart
    <2>3. \A p \in Path : scan'.known[p] \in {entries[p], NoFile} /\ scan'.files[p] = NoFile /\
            scan'.found[p] = NoFile
      BY <2>1 DEF Empty
    <2> QED BY <2>2, <2>3 DEF HasEntry, Sourced, AllSourced
  <1>7. ASSUME ScanWalk PROVE AllSourced
    <2>1. scan'.known = scan.known /\ scan'.files = Walk(scan.dir) /\ scan'.found = scan.found
      BY <1>7 DEF ScanWalk, LibTyped, ScanRecord
    <2>2. UNCHANGED <<disk, entries, indexFile, tmpFile, saver, note>> BY <1>7 DEF ScanWalk
    <2>3. \A p \in Path : scan'.files[p] \in {disk[p], NoFile} BY <2>1 DEF Walk
    <2> QED BY <2>1, <2>2, <2>3 DEF HasEntry, Sourced, AllSourced
  <1>8. ASSUME NEW p \in Path, ScanRead(p) PROVE AllSourced
    <2>1. scan'.known = scan.known /\ scan'.files = scan.files
      BY <1>8 DEF ScanRead, LibTyped, ScanRecord
    <2>2. \A q \in Path :
            scan'.found[q] = IF q = p THEN IF Reusable(scan.known[p], scan.files[p]) THEN scan.known[p]
                                                       ELSE ReadEntry(p, scan.files[p])
                                             ELSE scan.found[q]
      BY <1>8 DEF ScanRead, LibTyped, ScanRecord, Index
    <2>3. UNCHANGED <<disk, entries, indexFile, tmpFile, saver, note>> BY <1>8 DEF ScanRead
    <2>4. scan.files[p] # NoFile BY <1>8 DEF ScanRead, ScanReadsFound
    <2> QED BY <2>1, <2>2, <2>3, <2>4 DEF HasEntry, Sourced, AllSourced
  <1>9. ASSUME ScanPublish PROVE AllSourced
    <2>1. entries' = scan.found /\ scan' = NoScan BY <1>9 DEF ScanPublish
    <2>2. \A s \in Saver : saver'[s].snap = saver[s].snap
      BY <1>9, SaverIs DEF ScanPublish, LibTyped, SaverRecord
    <2>3. UNCHANGED <<indexFile, tmpFile, note>> BY <1>9 DEF ScanPublish
    <2>4. \A p \in Path : scan'.known[p] = NoFile /\ scan'.files[p] = NoFile /\ scan'.found[p] = NoFile
      BY <2>1 DEF NoScan, Empty
    <2> QED BY <2>1, <2>2, <2>3, <2>4 DEF HasEntry, Sourced, AllSourced
  <1>10. ASSUME NEW s \in Saver, SaveStart(s) PROVE AllSourced
    <2>1. \A o \in Saver : saver'[o].snap.entries = IF o = s THEN entries ELSE saver[o].snap.entries
      BY <1>10 DEF SaveStart, LibTyped
    <2>2. UNCHANGED <<entries, indexFile, tmpFile, scan, note>> BY <1>10 DEF SaveStart
    <2> QED BY <2>1, <2>2 DEF HasEntry, Sourced, AllSourced
  <1>11. ASSUME NEW s \in Saver, SaveOpen(s) PROVE AllSourced
    <2>1. \A o \in Saver : saver'[o].snap = saver[o].snap
      BY <1>11, SaverIs DEF SaveOpen, LibTyped, SaverRecord
    <2>2. tmpFile' = Partial /\ UNCHANGED <<entries, indexFile, scan, note>> BY <1>11 DEF SaveOpen
    <2>3. \A p \in Path : tmpFile'.snap.entries[p] = NoFile BY <2>2 DEF Partial, Nothing, Empty
    <2> QED BY <2>1, <2>2, <2>3 DEF HasEntry, Sourced, AllSourced
  <1>12. ASSUME NEW s \in Saver, SaveWrite(s) PROVE AllSourced
    <2>1. \A o \in Saver : saver'[o].snap = saver[o].snap
      BY <1>12, SaverIs DEF SaveWrite, LibTyped, SaverRecord
    <2>2. UNCHANGED <<entries, scan, note>> BY <1>12 DEF SaveWrite
    <2>3. ASSUME NEW old \in Content, NEW new \in Written(old, saver[s].snap), NEW p \in Path
          PROVE  new.snap.entries[p] \in {saver[s].snap.entries[p], NoFile}
      <3>1. new = Whole(saver[s].snap) \/ new = Partial BY <2>3 DEF Written
      <3>2. Whole(saver[s].snap).snap = saver[s].snap BY DEF Whole
      <3>3. Partial.snap.entries[p] = NoFile BY DEF Partial, Nothing, Empty
      <3> QED BY <3>1, <3>2, <3>3
    <2>4. \A p \in Path : /\ tmpFile'.snap.entries[p] \in {tmpFile.snap.entries[p],
                               saver[s].snap.entries[p], NoFile}
                         /\ indexFile'.snap.entries[p] \in {indexFile.snap.entries[p],
                              saver[s].snap.entries[p], NoFile}
      <3>1. /\ tmpFile' = tmpFile \/ tmpFile' \in Written(tmpFile, saver[s].snap)
            /\ indexFile' = indexFile \/ indexFile' \in Written(indexFile, saver[s].snap)
        BY <1>12 DEF SaveWrite
      <3> QED BY <3>1, <2>3 DEF LibTyped
    <2> QED BY <2>1, <2>2, <2>4 DEF HasEntry, Sourced, AllSourced
  <1>13. ASSUME NEW s \in Saver, SaveRename(s) PROVE AllSourced
    <2>1. \A o \in Saver : saver'[o].snap \in {saver[o].snap, Nothing}
      <3>0. IdleSaver.snap = Nothing BY DEF IdleSaver
      <3>1. CASE tmpFile = Missing
        <4>1. \A o \in Saver : saver'[o] = IdleSaver \/ saver'[o] = saver[o]
          BY <1>13, <3>1 DEF SaveRename, LibTyped
        <4> QED BY <4>1, <3>0
      <3>2. CASE tmpFile # Missing
        <4>1. ASSUME NEW o \in Saver
              PROVE  saver'[o] = IdleSaver \/ \E x : saver'[o] = [saver[o] EXCEPT !.fd = x]
          BY <1>13, <3>2 DEF SaveRename
        <4>2. ASSUME NEW r \in SaverRecord, NEW x PROVE [r EXCEPT !.fd = x].snap = r.snap
          BY DEF SaverRecord
        <4>3. ASSUME NEW o \in Saver, saver'[o] # IdleSaver PROVE saver'[o].snap = saver[o].snap
          <5>1. PICK x : saver'[o] = [saver[o] EXCEPT !.fd = x] BY <4>1, <4>3
          <5>2. PICK r \in SaverRecord : r = saver[o] BY SaverIs
          <5> QED BY <4>2, <5>1, <5>2
        <4> QED BY <4>3, <3>0
      <3> QED BY <3>1, <3>2
    <2>2. UNCHANGED <<entries, scan, note>> BY <1>13 DEF SaveRename
    <2>3. /\ indexFile' \in {indexFile, tmpFile} /\ tmpFile' \in {tmpFile, Missing}
      BY <1>13 DEF SaveRename
    <2>4. \A p \in Path : Missing.snap.entries[p] = NoFile /\ Nothing.entries[p] = NoFile
      BY DEF Missing, Nothing, Empty
    <2> QED BY <2>1, <2>2, <2>3, <2>4 DEF HasEntry, Sourced, AllSourced
  <1>14. ASSUME NEW s \in Saver, SaveFails(s) PROVE AllSourced
    <2>1. \A o \in Saver : saver'[o].snap \in {saver[o].snap, Nothing}
      BY <1>14, SaverIs DEF SaveFails, LibTyped, SaverRecord, IdleSaver
    <2>2. UNCHANGED <<entries, scan, note, indexFile, tmpFile>> BY <1>14 DEF SaveFails
    <2>4. \A p \in Path : Nothing.entries[p] = NoFile BY DEF Nothing, Empty
    <2> QED BY <2>1, <2>2, <2>4 DEF HasEntry, Sourced, AllSourced
  <1>15. ASSUME CleanForgets PROVE AllSourced
    <2>1. \A o \in Saver : saver'[o].snap = saver[o].snap
      <3>1. saver' = saver \/ saver' = [saver EXCEPT !["clean"].pc = "due"]
        BY <1>15 DEF CleanForgets
      <3> QED BY <3>1, SaverIs, ZenonT(40) DEF LibTyped, SaverRecord
    <2>2. UNCHANGED <<scan, note, indexFile, tmpFile>> BY <1>15 DEF CleanForgets
    <2>3. \A p \in Path : entries'[p] \in {entries[p], NoFile} BY <1>15 DEF CleanForgets, Forget
    <2> QED BY <2>1, <2>2, <2>3 DEF HasEntry, Sourced, AllSourced
  <1>16. ASSUME LibraryRestart PROVE AllSourced
    <2>1. entries' = indexFile.snap.entries /\ scan' = NoScan /\ note' = NoNote
      BY <1>16 DEF LibraryRestart, Loaded
    <2>2. \A o \in Saver : saver'[o].snap = Nothing BY <1>16 DEF LibraryRestart, IdleSaver
    <2>3. UNCHANGED <<indexFile, tmpFile>> BY <1>16 DEF LibraryRestart
    <2>4. \A p \in Path : Nothing.entries[p] = NoFile /\ NoScan.known[p] = NoFile /\
            NoScan.files[p] = NoFile
                         /\ NoScan.found[p] = NoFile
      BY DEF NoScan, Nothing, Empty
    <2>5. NoNote.file = NoFile BY DEF NoNote
    <2> QED BY <2>1, <2>2, <2>3, <2>4, <2>5 DEF HasEntry, Sourced, AllSourced
  <1> QED
    BY <1>1, <1>2, <1>3, <1>4, <1>5, <1>6, <1>7, <1>8, <1>9, <1>10, <1>11, <1>12, <1>13, <1>14,
         <1>15, <1>16 DEF LibraryNext

(* What a step makes of an entry that tells.                               *)
LEMMA NumbersStep ==
  ASSUME LibraryInv, LibTyped', [LibraryNext]_libVars
  PROVE  NumbersTell'
  <1>1. Grown /\ AllSourced BY GrownStep, SourcedStep DEF LibraryInv
  <1>2. libOps \in Nat /\ libOps' \in Nat /\ \A p \in Path : disk[p] \in Entry /\ disk'[p] \in Entry
    <2>1. /\ libOps \in 0..MaxLibOps /\ libOps' \in 0..MaxLibOps /\ disk \in Index /\ disk' \in Index
      BY DEF LibraryInv, LibTyped
    <2> QED BY <2>1 DEF Index
  <1>3. ASSUME NEW p \in Path PROVE disk'[p] # NoFile => disk'[p].stat <= libOps'
    BY <1>1, <1>2, FileIs DEF Grown, LibraryInv, NumbersTell, Entry
  <1>4. ASSUME NEW p \in Path, NEW e \in Entry, TellsFile(disk[p], libOps, e)
        PROVE  TellsFile(disk'[p], libOps', e)
    BY <1>1, <1>2, <1>4, FileIs DEF Grown, TellsFile, Entry
  <1>5. ASSUME NEW p \in Path, NEW e \in Entry, HasEntry(p, e)' PROVE TellsFile(disk'[p], libOps', e)
    <2>1. CASE HasEntry(p, e) BY <1>4, <2>1 DEF LibraryInv, NumbersTell
    <2>2. CASE e = NoFile BY <2>2 DEF TellsFile
    <2>3. CASE disk' = disk /\ e = disk[p]
      <3>1. TellsFile(disk[p], libOps, e) BY <2>3 DEF LibraryInv, NumbersTell, TellsFile
      <3> QED BY <1>4, <3>1
    <2>4. CASE disk' = disk /\ scan.files[p] # NoFile /\ e = ReadEntry(p, scan.files[p])
      <3>1. PICK f \in Entry : f = scan.files[p] BY DEF LibraryInv, LibTyped, ScanRecord, Index
      <3>2. HasEntry(p, f) BY <3>1 DEF HasEntry
      <3>3. TellsFile(disk[p], libOps, f) BY <3>2 DEF LibraryInv, NumbersTell
      <3>4. f \in File BY <2>4, <3>1 DEF Entry
      <3>5. disk[p] # NoFile => disk[p] \in File BY <1>2 DEF Entry
      <3>6. e.stat = f.stat /\ (disk[p] # NoFile => e = [rec |-> disk[p].rec, stat |-> f.stat])
        BY <2>4, <3>1 DEF ReadEntry
      <3>7. \A g \in File : g = [rec |-> g.rec, stat |-> g.stat] BY DEF File
      <3>8. e.stat <= libOps BY <2>4, <3>1, <3>3, <3>6 DEF TellsFile
      <3>9. ASSUME disk[p] # NoFile, disk[p].stat = e.stat PROVE e = disk[p]
        BY <3>5, <3>6, <3>7, <3>9
      <3>10. TellsFile(disk[p], libOps, e) BY <3>8, <3>9 DEF TellsFile
      <3> QED BY <1>4, <3>10
    <2> QED BY <1>1, <1>5, <2>1, <2>2, <2>3, <2>4 DEF AllSourced, Sourced
  <1> QED BY <1>3, <1>5 DEF NumbersTell

(* A scan that is left alone finds the folder as it is.                    *)
LEMMA QuietStep ==
  ASSUME LibraryInv, LibTyped', [LibraryNext]_libVars
  PROVE  QuietScanFinds'
  <1> USE DEF LibraryInv
  <1>1. ASSUME \/ (\E p \in Path : CleanSkips(p) \/ MoveCopies(p))
               \/ (\E m \in {"trash", "delete"} : CleanStart(m))
               \/ NoteReads \/ FindDuplicates \/ MoveCopied \/ MoveCopyFails \/ EmptyTrash
               \/ UNCHANGED libVars
        PROVE UNCHANGED <<quiet, scan, disk, entries, libDir, saver>>
    BY <1>1 DEF libVars, CleanSkips, MoveCopies, CleanStart, NoteReads, FindDuplicates, MoveCopied,
           MoveCopyFails, EmptyTrash
  <1>2. UNCHANGED <<quiet, scan, disk, entries, libDir, saver>> => QuietScanFinds'
    BY DEF QuietScanFinds, Walk
  <1>3. ASSUME NEW p \in Path, FileLands(p) PROVE QuietScanFinds'
    BY <1>3 DEF FileLands, QuietScanFinds
  <1>4. ASSUME NoteInserts PROVE QuietScanFinds'
    BY <1>4 DEF NoteInserts, QuietScanFinds
  <1>5. ASSUME NEW p \in Path, CleanDeletes(p) PROVE QuietScanFinds'
    BY <1>5 DEF CleanDeletes, QuietScanFinds
  <1>6. ASSUME NEW p \in Path, MoveRenames(p) PROVE QuietScanFinds'
    BY <1>6 DEF MoveRenames, QuietScanFinds
  <1>7. ASSUME LibraryRestart PROVE QuietScanFinds'
    BY <1>7 DEF LibraryRestart, QuietScanFinds
  <1>8. ASSUME MoveRemoves PROVE QuietScanFinds'
    <2>1. \/ quiet' = FALSE
          \/ UNCHANGED <<quiet, scan, disk, entries, libDir, saver>>
      BY <1>8 DEF MoveRemoves
    <2> QED BY <2>1, <1>2 DEF QuietScanFinds
  <1>9. ASSUME CleanForgets PROVE QuietScanFinds'
    <2>1. \/ quiet' = FALSE
          \/ UNCHANGED <<quiet, scan, disk, entries, libDir, saver>>
      BY <1>9 DEF CleanForgets
    <2> QED BY <2>1, <1>2 DEF QuietScanFinds
  <1>10. ASSUME NEW d \in LibDir, ScanStart(d) PROVE QuietScanFinds'
    <2>1. scan'.pc = "walk" /\ scan'.found = Empty BY <1>10 DEF ScanStart, NoScan
    <2> QED BY <2>1 DEF QuietScanFinds
  <1>11. ASSUME ScanWalk PROVE QuietScanFinds'
    <2>1. /\ scan'.pc = "read" /\ scan'.dir = scan.dir /\ scan'.files = Walk(scan.dir) /\
               scan'.found = scan.found
          /\ scan'.todo = {p \in Path : Walk(scan.dir)[p] # NoFile} /\ scan.pc = "walk"
      BY <1>11 DEF ScanWalk, LibTyped, ScanRecord
    <2>2. UNCHANGED <<disk, quiet>> BY <1>11 DEF ScanWalk
    <2>3. \A p \in Path \ scan'.todo : Walk(scan.dir)[p] = NoFile BY <2>1
    <2>4. \A p \in Path : Empty[p] = NoFile BY DEF Empty
    <2>5. Walk(scan.dir)' = Walk(scan'.dir) BY <2>2 DEF Walk
    <2>6. Walk(scan'.dir) = Walk(scan.dir) BY <2>1
    <2> QED BY <2>1, <2>2, <2>3, <2>4, <2>5, <2>6 DEF QuietScanFinds
  <1>12. ASSUME NEW p \in Path, ScanRead(p) PROVE QuietScanFinds'
    <2>1. /\ scan'.pc = "read" /\ scan'.dir = scan.dir /\ scan'.files = scan.files /\
               scan'.todo = scan.todo \ {p}
          /\ scan.pc = "read" /\ p \in scan.todo
      BY <1>12 DEF ScanRead, LibTyped, ScanRecord
    <2>2. \A q \in Path :
            scan'.found[q] = IF q = p THEN IF Reusable(scan.known[p], scan.files[p]) THEN scan.known[p]
                                                       ELSE ReadEntry(p, scan.files[p])
                                             ELSE scan.found[q]
      BY <1>12 DEF ScanRead, LibTyped, ScanRecord, Index
    <2>3. UNCHANGED <<disk, quiet>> BY <1>12 DEF ScanRead
    <2>4. scan.files[p] # NoFile BY <1>12 DEF ScanRead, ScanReadsFound
    <2>5. ASSUME quiet PROVE QuietScanFinds'
      <3>1. scan.files = Walk(scan.dir) /\ \A q \in Path \ scan.todo : scan.found[q] = scan.files[q]
        BY <2>1, <2>5 DEF QuietScanFinds
      <3>2. Walk(scan.dir)[p] = disk[p] /\ disk[p] # NoFile BY <2>4, <3>1 DEF Walk
      <3>3. scan.files[p] = disk[p] BY <3>1, <3>2
      <3>4. PICK k \in Entry : k = scan.known[p] BY DEF LibTyped, ScanRecord, Index
      <3>5. TellsFile(disk[p], libOps, k) BY <3>4 DEF NumbersTell, HasEntry
      <3>6. Reusable(k, disk[p]) => k = disk[p] BY <3>2, <3>5 DEF Reusable, TellsFile
      <3>7. disk[p] \in File BY <3>2 DEF LibTyped, Index, Entry
      <3>8. ReadEntry(p, disk[p]) = disk[p] BY <3>2, <3>7 DEF ReadEntry, File
      <3>9. scan'.found[p] = scan.files[p] BY <2>2, <3>3, <3>4, <3>6, <3>8
      <3>10. Walk(scan.dir)' = Walk(scan.dir) BY <2>1, <2>3 DEF Walk
      <3>11. \A q \in Path \ scan'.todo : scan'.found[q] = scan'.files[q] BY <2>1, <2>2, <3>1, <3>9
      <3> QED BY <2>1, <3>1, <3>10, <3>11 DEF QuietScanFinds
    <2> QED BY <2>3, <2>5 DEF QuietScanFinds
  <1>13. ASSUME ScanPublish PROVE QuietScanFinds'
    <2>1. /\ entries' = scan.found /\ libDir' = scan.dir /\ scan' = NoScan
          /\ scan.pc = "read" /\ scan.todo = {} /\ UNCHANGED <<disk, quiet>>
      BY <1>13 DEF ScanPublish
    <2>2. ASSUME quiet PROVE scan.found = Walk(scan.dir)
      <3>1. scan.files = Walk(scan.dir) /\ \A q \in Path : scan.found[q] = scan.files[q]
        BY <2>1, <2>2 DEF QuietScanFinds
      <3>2. scan.found \in Index /\ scan.files \in Index BY DEF LibTyped, ScanRecord
      <3> QED BY <3>1, <3>2 DEF Index
    <2>3. Walk(libDir)' = Walk(scan.dir) BY <2>1 DEF Walk
    <2>4. scan'.pc = "idle" BY <2>1 DEF NoScan
    <2> QED BY <2>1, <2>2, <2>3, <2>4 DEF QuietScanFinds
  <1>14. ASSUME NEW s \in Saver, SaveStart(s) PROVE QuietScanFinds'
    <2>1. UNCHANGED <<quiet, scan, disk, entries, libDir>> BY <1>14 DEF SaveStart
    <2>2. saver'["scan"].pc # "idle" => saver["scan"].pc # "idle"
      <3>1. "scan" \in Saver BY DEF Saver
      <3>2. saver'["scan"] = saver["scan"] \/ (s = "scan" /\ saver["scan"].pc = "due")
        BY <1>14, <3>1 DEF SaveStart, MayStart, LibTyped
      <3> QED BY <3>2
    <2> QED BY <2>1, <2>2 DEF QuietScanFinds, Walk
  <1>15. ASSUME NEW s \in Saver, SaveOpen(s) PROVE QuietScanFinds'
    <2>1. UNCHANGED <<quiet, scan, disk, entries, libDir>> BY <1>15 DEF SaveOpen
    <2>2. saver'["scan"].pc # "idle" => saver["scan"].pc # "idle"
      <3>1. "scan" \in Saver BY DEF Saver
      <3>2. saver'["scan"] = saver["scan"] \/ (s = "scan" /\ saver["scan"].pc = "open")
        BY <1>15, <3>1 DEF SaveOpen, LibTyped
      <3> QED BY <3>2
    <2> QED BY <2>1, <2>2 DEF QuietScanFinds, Walk
  <1>16. ASSUME NEW s \in Saver, SaveWrite(s) PROVE QuietScanFinds'
    <2>1. UNCHANGED <<quiet, scan, disk, entries, libDir>> BY <1>16 DEF SaveWrite
    <2>2. saver'["scan"].pc # "idle" => saver["scan"].pc # "idle"
      <3>1. "scan" \in Saver BY DEF Saver
      <3>2. saver'["scan"] = saver["scan"] \/ (s = "scan" /\ saver["scan"].pc = "write")
        BY <1>16, <3>1 DEF SaveWrite, LibTyped
      <3> QED BY <3>2
    <2> QED BY <2>1, <2>2 DEF QuietScanFinds, Walk
  <1>17. ASSUME NEW s \in Saver, SaveRename(s) PROVE QuietScanFinds'
    <2>1. UNCHANGED <<quiet, scan, disk, entries, libDir>> BY <1>17 DEF SaveRename
    <2>2. saver'["scan"].pc # "idle" => saver["scan"].pc # "idle"
      <3>1. IdleSaver.pc = "idle" BY DEF IdleSaver
      <3>2. "scan" \in Saver BY DEF Saver
      <3>3. CASE tmpFile = Missing BY <1>17, <3>1, <3>2, <3>3 DEF SaveRename, LibTyped
      <3>4. CASE tmpFile # Missing
        <4>1. saver'["scan"] = IdleSaver \/ \E x : saver'["scan"] = [saver["scan"] EXCEPT !.fd = x]
          BY <1>17, <3>2, <3>4 DEF SaveRename
        <4>2. ASSUME NEW r \in SaverRecord, NEW x PROVE [r EXCEPT !.fd = x].pc = r.pc
          BY DEF SaverRecord
        <4>3. PICK r \in SaverRecord : r = saver["scan"] BY <3>2, SaverIs
        <4> QED BY <4>1, <4>2, <4>3, <3>1, ZenonT(40)
      <3> QED BY <3>3, <3>4
    <2> QED BY <2>1, <2>2 DEF QuietScanFinds, Walk
  <1>18. ASSUME NEW s \in Saver, SaveFails(s) PROVE QuietScanFinds'
    <2>1. UNCHANGED <<quiet, scan, disk, entries, libDir>> BY <1>18 DEF SaveFails
    <2>2. saver'["scan"].pc # "idle" => saver["scan"].pc # "idle"
      <3>1. "scan" \in Saver BY DEF Saver
      <3>2. saver'["scan"] = saver["scan"] \/ saver'["scan"] = IdleSaver
        BY <1>18, <3>1 DEF SaveFails, LibTyped
      <3> QED BY <3>2 DEF IdleSaver
    <2> QED BY <2>1, <2>2 DEF QuietScanFinds, Walk
  <1> QED
    BY <1>1, <1>2, <1>3, <1>4, <1>5, <1>6, <1>7, <1>8, <1>9, <1>10, <1>11, <1>12, <1>13, <1>14,
         <1>15, <1>16, <1>17, <1>18 DEF LibraryNext

(* What is owed is still there, or copied before it goes.                  *)
LEMMA TrashStep ==
  ASSUME LibraryInv, LibTyped', [LibraryNext]_libVars
  PROVE  TrashKeepsTheFile' /\ CopyIsOwed'
  <1> USE DEF LibraryInv
  <1>1. ASSUME \/ (\E p \in Path : ScanRead(p))
               \/ (\E d \in LibDir : ScanStart(d))
               \/ (\E s \in Saver : SaveStart(s) \/ SaveOpen(s) \/ SaveWrite(s))
               \/ NoteReads \/ NoteInserts \/ ScanWalk \/ ScanPublish \/ FindDuplicates
               \/ UNCHANGED libVars
        PROVE UNCHANGED <<disk, trash, owed, clean>>
    BY <1>1 DEF libVars, ScanRead, ScanStart, SaveStart, SaveOpen, SaveWrite, NoteReads,
           NoteInserts, ScanWalk, ScanPublish, FindDuplicates
  <1>2. UNCHANGED <<disk, trash, owed, clean>> => TrashKeepsTheFile' /\ CopyIsOwed'
    BY DEF TrashKeepsTheFile, CopyIsOwed
  <1>3. ASSUME NEW p \in Path, FileLands(p) PROVE TrashKeepsTheFile' /\ CopyIsOwed'
    <2>1. clean'.pc = clean.pc /\ clean'.path = clean.path
      BY <1>3 DEF FileLands, LibTyped, CleanRecord
    <2>2. UNCHANGED trash /\ owed' = {o \in owed : o.path # p} BY <1>3 DEF FileLands
    <2>3. \A q \in Path : q # p => disk'[q] = disk[q] BY <1>3 DEF FileLands, LibTyped, Index
    <2>4. \A o \in owed : o.path \in Path BY DEF LibTyped, OwedRecord
    <2> QED BY <2>1, <2>2, <2>3, <2>4 DEF TrashKeepsTheFile, CopyIsOwed
  <1>4. ASSUME NEW p \in Path, CleanSkips(p) PROVE TrashKeepsTheFile' /\ CopyIsOwed'
    <2>1. clean'.pc = "next" BY <1>4 DEF CleanSkips, LibTyped, CleanRecord
    <2>2. UNCHANGED <<disk, trash, owed>> BY <1>4 DEF CleanSkips
    <2> QED BY <2>1, <2>2 DEF TrashKeepsTheFile, CopyIsOwed
  <1>5. ASSUME NEW m \in {"trash", "delete"}, CleanStart(m) PROVE TrashKeepsTheFile' /\ CopyIsOwed'
    <2>1. clean'.pc = "next" BY <1>5 DEF CleanStart, LibTyped, CleanRecord, NoClean
    <2>2. UNCHANGED <<disk, trash, owed>> BY <1>5 DEF CleanStart
    <2> QED BY <2>1, <2>2 DEF TrashKeepsTheFile, CopyIsOwed
  <1>6. ASSUME NEW p \in Path, CleanDeletes(p) PROVE TrashKeepsTheFile' /\ CopyIsOwed'
    <2>1. clean'.pc = "next" BY <1>6 DEF CleanDeletes, Acceptable, LibTyped, CleanRecord
    <2>2. UNCHANGED trash /\ owed' = {o \in owed : o.path # p} BY <1>6 DEF CleanDeletes
    <2>3. \A q \in Path : q # p => disk'[q] = disk[q] BY <1>6 DEF CleanDeletes, LibTyped, Index
    <2>4. \A o \in owed : o.path \in Path BY DEF LibTyped, OwedRecord
    <2> QED BY <2>1, <2>2, <2>3, <2>4 DEF TrashKeepsTheFile, CopyIsOwed
  <1>7. ASSUME NEW p \in Path, MoveRenames(p) PROVE TrashKeepsTheFile' /\ CopyIsOwed'
    <2>1. clean'.pc = "next" BY <1>7 DEF MoveRenames, Acceptable, LibTyped, CleanRecord
    <2>2. /\ trash' = trash \cup {[path |-> p, file |-> disk[p], whole |-> TRUE]}
          /\ owed' = owed \cup {[path |-> p, file |-> disk[p]]}
      BY <1>7 DEF MoveRenames
    <2>3. \A q \in Path : q # p => disk'[q] = disk[q] BY <1>7 DEF MoveRenames, LibTyped, Index
    <2>4. \A o \in owed : o.path \in Path BY DEF LibTyped, OwedRecord
    <2>5. ASSUME NEW o \in owed'
          PROVE  disk'[o.path] = o.file \/ [path |-> o.path, file |-> o.file, whole |-> TRUE] \in trash'
      <3>1. CASE o = [path |-> p, file |-> disk[p]] BY <2>2, <3>1
      <3>2. CASE o \in owed /\ o.path # p BY <2>2, <2>3, <2>4, <3>2 DEF TrashKeepsTheFile
      <3>3. CASE o \in owed /\ o.path = p
        <4>1. CASE disk[p] = o.file BY <2>2, <3>3, <4>1
        <4>2. CASE [path |-> o.path, file |-> o.file, whole |-> TRUE] \in trash BY <2>2, <4>2
        <4> QED BY <3>3, <4>1, <4>2 DEF TrashKeepsTheFile
      <3> QED BY <2>2, <3>1, <3>2, <3>3
    <2> QED BY <2>1, <2>5 DEF TrashKeepsTheFile, CopyIsOwed
  <1>8. ASSUME NEW p \in Path, MoveCopies(p) PROVE TrashKeepsTheFile' /\ CopyIsOwed'
    <2>1. clean'.pc = "copying" /\ clean'.path = p BY <1>8 DEF MoveCopies, LibTyped, CleanRecord
    <2>2. /\ trash' = trash \cup {[path |-> p, file |-> disk[p], whole |-> FALSE]}
          /\ owed' = owed \cup {[path |-> p, file |-> disk[p]]}
          /\ UNCHANGED disk
      BY <1>8 DEF MoveCopies
    <2>3. TrashKeepsTheFile'
      <3>1. ASSUME NEW o \in owed'
            PROVE  disk'[o.path] = o.file \/ [path |-> o.path, file |-> o.file, whole |-> TRUE] \in trash'
        <4>1. CASE o = [path |-> p, file |-> disk[p]] BY <2>2, <4>1
        <4>2. CASE o \in owed BY <2>2, <4>2 DEF TrashKeepsTheFile
        <4> QED BY <2>2, <4>1, <4>2
      <3> QED BY <3>1 DEF TrashKeepsTheFile
    <2>4. CopyIsOwed'
      <3>1. ASSUME NEW o \in owed', o.path = p
            PROVE  \E b \in BOOLEAN : [path |-> o.path, file |-> o.file, whole |-> b] \in trash'
        <4>1. disk[p] = o.file \/ [path |-> o.path, file |-> o.file, whole |-> TRUE] \in trash'
          BY <2>2, <2>3, <3>1 DEF TrashKeepsTheFile
        <4>2. CASE disk[p] = o.file
          <5>1. [path |-> o.path, file |-> o.file, whole |-> FALSE] \in trash' BY <2>2, <3>1, <4>2
          <5> QED BY <5>1
        <4>3. CASE [path |-> o.path, file |-> o.file, whole |-> TRUE] \in trash' BY <4>3
        <4> QED BY <4>1, <4>2, <4>3
      <3> QED BY <2>1, <3>1 DEF CopyIsOwed
    <2> QED BY <2>3, <2>4
  <1>9. ASSUME MoveCopied PROVE TrashKeepsTheFile' /\ CopyIsOwed'
    <2>1. clean.pc = "copying" /\ clean'.pc = "copied" /\ clean'.path = clean.path
      BY <1>9 DEF MoveCopied, LibTyped, CleanRecord
    <2>2. UNCHANGED <<disk, owed>> /\
            trash' = (trash \ Copying) \cup {[t EXCEPT !.whole = TRUE] : t \in Copying}
      BY <1>9 DEF MoveCopied
    <2>3. \A q, f : [path |-> q, file |-> f, whole |-> TRUE] \in trash =>
            [path |-> q, file |-> f, whole |-> TRUE] \in trash'
      BY <2>2 DEF Copying
    <2>4. TrashKeepsTheFile' BY <2>2, <2>3 DEF TrashKeepsTheFile
    <2>5. CopyIsOwed'
      <3>1. ASSUME NEW o \in owed, o.path = clean.path
            PROVE  [path |-> o.path, file |-> o.file, whole |-> TRUE] \in trash'
        <4>1. PICK b \in BOOLEAN : [path |-> o.path, file |-> o.file, whole |-> b] \in trash
          BY <2>1, <3>1 DEF CopyIsOwed
        <4>2. CASE b = TRUE BY <2>3, <4>1, <4>2
        <4>3. CASE b = FALSE
          <5>1. PICK t \in Copying : t = [path |-> o.path, file |-> o.file, whole |-> FALSE]
            BY <3>1, <4>1, <4>3 DEF Copying
          <5>2. t \in TrashRecord /\ t.path = o.path /\ t.file = o.file
            BY <5>1 DEF Copying, LibTyped
          <5>3. ASSUME NEW x \in TrashRecord
                PROVE  [x EXCEPT !.whole = TRUE] = [path |-> x.path, file |-> x.file, whole |-> TRUE]
            <6>1. PICK y : y = [x EXCEPT !.whole = TRUE] OBVIOUS
            <6>2. y \in [path : Path, file : File, whole : {TRUE}] BY <6>1 DEF TrashRecord
            <6>3. y.path = x.path /\ y.file = x.file BY <6>1 DEF TrashRecord
            <6> QED BY <6>1, <6>2, <6>3
          <5>4. [t EXCEPT !.whole = TRUE] = [path |-> o.path, file |-> o.file, whole |-> TRUE]
            BY <5>2, <5>3
          <5>5. [t EXCEPT !.whole = TRUE] \in trash' BY <2>2, <5>1
          <5> QED BY <5>4, <5>5
        <4> QED BY <4>2, <4>3
      <3> QED BY <2>1, <2>2, <3>1 DEF CopyIsOwed
    <2> QED BY <2>4, <2>5
  <1>10. ASSUME MoveCopyFails PROVE TrashKeepsTheFile' /\ CopyIsOwed'
    <2>1. clean'.pc = "next" BY <1>10 DEF MoveCopyFails, LibTyped, CleanRecord
    <2>2. UNCHANGED <<disk, owed>> /\ trash' = trash \ Copying BY <1>10 DEF MoveCopyFails
    <2>3. \A q, f : [path |-> q, file |-> f, whole |-> TRUE] \in trash =>
            [path |-> q, file |-> f, whole |-> TRUE] \in trash'
      BY <2>2 DEF Copying
    <2> QED BY <2>1, <2>2, <2>3 DEF TrashKeepsTheFile, CopyIsOwed
  <1>11. ASSUME MoveRemoves PROVE TrashKeepsTheFile' /\ CopyIsOwed'
    <2>1. clean'.pc = "next" /\ clean.pc = "copied" BY <1>11 DEF MoveRemoves, LibTyped, CleanRecord
    <2>2. UNCHANGED <<trash, owed>> /\ disk' \in {disk, [disk EXCEPT ![clean.path] = NoFile]}
      BY <1>11 DEF MoveRemoves
    <2>3. \A q \in Path : q # clean.path => disk'[q] = disk[q] BY <2>2 DEF LibTyped, Index
    <2>4. \A o \in owed : o.path \in Path BY DEF LibTyped, OwedRecord
    <2> QED BY <2>1, <2>2, <2>3, <2>4 DEF TrashKeepsTheFile, CopyIsOwed
  <1>12. ASSUME CleanForgets PROVE TrashKeepsTheFile' /\ CopyIsOwed'
    <2>1. clean'.pc \in {"idle", "save"}
      <3>1. clean' = NoClean \/ clean' = [clean EXCEPT !.pc = "save"] BY <1>12 DEF CleanForgets
      <3>2. [clean EXCEPT !.pc = "save"].pc = "save" BY DEF LibTyped, CleanRecord
      <3>3. NoClean.pc = "idle" BY DEF NoClean
      <3> QED BY <3>1, <3>2, <3>3
    <2>2. UNCHANGED <<disk, trash, owed>> BY <1>12 DEF CleanForgets
    <2> QED BY <2>1, <2>2 DEF TrashKeepsTheFile, CopyIsOwed
  <1>13. ASSUME NEW s \in Saver, SaveRename(s) PROVE TrashKeepsTheFile' /\ CopyIsOwed'
    <2>1. clean' = clean \/ clean'.pc = "idle" BY <1>13 DEF SaveRename, SaverEnds, NoClean
    <2>2. UNCHANGED <<disk, trash, owed>> BY <1>13 DEF SaveRename
    <2> QED BY <2>1, <2>2 DEF TrashKeepsTheFile, CopyIsOwed
  <1>14. ASSUME NEW s \in Saver, SaveFails(s) PROVE TrashKeepsTheFile' /\ CopyIsOwed'
    <2>1. clean' = clean \/ clean'.pc = "idle" BY <1>14 DEF SaveFails, SaverEnds, NoClean
    <2>2. UNCHANGED <<disk, trash, owed>> BY <1>14 DEF SaveFails
    <2> QED BY <2>1, <2>2 DEF TrashKeepsTheFile, CopyIsOwed
  <1>15. ASSUME EmptyTrash PROVE TrashKeepsTheFile' /\ CopyIsOwed'
    BY <1>15 DEF EmptyTrash, TrashKeepsTheFile, CopyIsOwed
  <1>16. ASSUME LibraryRestart PROVE TrashKeepsTheFile' /\ CopyIsOwed'
    <2>1. clean'.pc = "idle" /\ UNCHANGED <<disk, trash, owed>> BY <1>16 DEF LibraryRestart, NoClean
    <2> QED BY <2>1 DEF TrashKeepsTheFile, CopyIsOwed
  <1> QED
    BY <1>1, <1>2, <1>3, <1>4, <1>5, <1>6, <1>7, <1>8, <1>9, <1>10, <1>11, <1>12, <1>13, <1>14,
         <1>15, <1>16 DEF LibraryNext

-----------------------------------------------------------------------------
(* Of some copies, one is better than every other: the one with the fewest better ones. *)
LEMMA BestCopy ==
  ASSUME LibTyped, NEW S \in SUBSET Path, S # {}, \A q \in S : entries[q] # NoFile
  PROVE  \E k \in S : \A q \in S \ {k} : Better(k, q)
  <1> DEFINE Above(k) == {q \in S : Better(q, k)}
             Sizes == {Cardinality(Above(k)) : k \in S}
  <1>1. IsFiniteSet(S) BY FS_Subset, LibraryAssumption DEF LibraryAssumption
  <1>2. ASSUME NEW k \in S PROVE IsFiniteSet(Above(k)) /\ Cardinality(Above(k)) \in Nat
    <2>1. Above(k) \in SUBSET S OBVIOUS
    <2> HIDE DEF Above
    <2>2. IsFiniteSet(Above(k)) BY <1>1, <2>1, FS_Subset
    <2> QED BY <2>2, FS_CardinalityType
  <1>3. \A q \in S : Rank[q] \in Nat /\ entries[q].stat \in Nat /\ q \in Nat
    <2>1. \A q \in S : entries[q] \in File BY DEF LibTyped, Index, Entry
    <2> QED BY <2>1, FileIs, LibraryAssumption DEF LibraryAssumption
  <1>4. /\ \A q \in S : ~Better(q, q)
        /\ \A x, y, z \in S : Better(x, y) /\ Better(y, z) => Better(x, z)
        /\ \A x, y \in S : x = y \/ Better(x, y) \/ Better(y, x)
    BY <1>3 DEF Better
  <1>5. PICK k \in S : \A q \in S : Cardinality(Above(k)) <= Cardinality(Above(q))
    <2>1. Sizes \subseteq Nat /\ Sizes # {} BY <1>2
    <2> HIDE DEF Above
    <2>2. PICK n \in Sizes : \A m \in Sizes : n <= m
      <3> HIDE DEF Sizes
      <3> QED BY <2>1, LeastOf
    <2> QED BY <2>2
  <1>6. ASSUME NEW q \in S, Better(q, k) PROVE FALSE
    <2>1. Above(q) \in SUBSET Above(k) /\ q \in Above(k) /\ q \notin Above(q) BY <1>4, <1>6
    <2>2. Cardinality(Above(k)) <= Cardinality(Above(q)) BY <1>5
    <2>3. /\ IsFiniteSet(Above(k)) /\ Cardinality(Above(k)) \in Nat /\ Cardinality(Above(q)) \in Nat
      BY <1>2
    <2> HIDE DEF Above
    <2>4. Cardinality(Above(q)) <= Cardinality(Above(k)) BY <2>1, <2>3, FS_Subset
    <2>5. Cardinality(Above(q)) = Cardinality(Above(k)) BY <2>2, <2>3, <2>4
    <2>6. Above(k) = Above(q) BY <2>1, <2>3, <2>5, FS_Subset
    <2> QED BY <2>1, <2>6
  <1>7. ASSUME NEW q \in S \ {k} PROVE Better(k, q) BY <1>4, <1>6
  <1> QED BY <1>7

(* An offer made from the index as it is, of files as the index says, leaves a
   copy of what it offers. *)
LEMMA FreshIsSafe ==
  ASSUME LibTyped, Fresh, NEW p \in report.drop, disk[p] # NoFile
  PROVE  \E k \in Path \ report.drop : disk[k] # NoFile /\ disk[k].rec = disk[p].rec
  <1>1. report.drop = Droppable BY DEF Fresh
  <1>2. PICK q \in Copies(p) : q # p /\ Better(q, p) BY <1>1 DEF Droppable
  <1>3. /\ p \in Path /\ entries[p] # NoFile /\ entries[p].rec # ByName
        /\ Copies(p) = {j \in Path : entries[j] # NoFile /\ entries[j].rec = entries[p].rec}
    BY <1>1, <1>2 DEF Droppable, Copies
  <1>4. PICK k \in Copies(p) : \A j \in Copies(p) \ {k} : Better(k, j)
    <2>1. Copies(p) \in SUBSET Path /\ Copies(p) # {} /\ \A j \in Copies(p) : entries[j] # NoFile
      BY <1>2, <1>3
    <2> QED BY <2>1, BestCopy
  <1>5. k \in Path /\ entries[k] # NoFile /\ entries[k].rec = entries[p].rec /\ Copies(k) = Copies(p)
    BY <1>3, <1>4 DEF Copies
  <1>6. ASSUME NEW j \in Copies(k), j # k, Better(j, k) PROVE FALSE
    <2>1. Better(k, j) BY <1>4, <1>5, <1>6
    <2>2. entries[j] # NoFile /\ j \in Path BY <1>3, <1>5, <1>6
    <2>3. entries[j] \in File /\ entries[k] \in File BY <1>5, <2>2 DEF LibTyped, Index, Entry
    <2>4. Rank[j] \in Nat /\ Rank[k] \in Nat /\ entries[j].stat \in Nat /\ entries[k].stat \in Nat /\
            j \in Nat /\ k \in Nat
      BY <1>5, <2>2, <2>3, FileIs, LibraryAssumption DEF LibraryAssumption
    <2> QED BY <1>6, <2>1, <2>4 DEF Better
  <1>7. k \notin report.drop BY <1>1, <1>6 DEF Droppable
  <1>8. disk[k] = entries[k] /\ disk[p] = entries[p] BY <1>3, <1>5 DEF Fresh
  <1> QED BY <1>5, <1>7, <1>8

(* What makes a step of a cleanup safe.                                    *)
LEMMA StillSafe ==
  ASSUME CopyIsSafe, clean'.fresh => clean.fresh, InDanger' \subseteq InDanger,
         \A q \in Path : disk'[q] = disk[q] \/ (disk'[q] = NoFile /\ q \in InDanger),
         \A r \in clean'.recs : r \in clean.recs \/ \E q \in InDanger : disk[q] # NoFile /\ r = disk[q].rec,
         InDanger \subseteq Path
  PROVE  CopyIsSafe'
  <1>1. SafeRecs \subseteq SafeRecs'
    <2>1. ASSUME NEW r \in SafeRecs PROVE r \in SafeRecs'
      <3>1. PICK k \in Path \ InDanger : disk[k] # NoFile /\ r = disk[k].rec BY DEF SafeRecs
      <3>2. k \in Path \ InDanger' /\ disk'[k] = disk[k] BY <3>1
      <3> QED BY <3>1, <3>2 DEF SafeRecs
    <2> QED BY <2>1
  <1>2. ASSUME clean'.fresh PROVE CopyIsSafe'
    <2>1. clean.recs \subseteq SafeRecs /\ \A p \in InDanger : disk[p] # NoFile => disk[p].rec \in SafeRecs
      BY <1>2 DEF CopyIsSafe
    <2>2. ASSUME NEW r \in clean'.recs PROVE r \in SafeRecs' BY <1>1, <2>1
    <2>3. ASSUME NEW p \in InDanger', disk'[p] # NoFile PROVE disk'[p].rec \in SafeRecs'
      BY <1>1, <2>1, <2>3
    <2> QED BY <2>2, <2>3 DEF CopyIsSafe
  <1> QED BY <1>2 DEF CopyIsSafe

(* A cleanup that began fresh keeps a copy out of danger.                  *)
LEMMA SafeStep ==
  ASSUME LibraryInv, LibTyped', [LibraryNext]_libVars
  PROVE  CopyIsSafe'
  <1> USE DEF LibraryInv
  <1>1. ASSUME \/ (\E p \in Path : ScanRead(p))
               \/ (\E d \in LibDir : ScanStart(d))
               \/ (\E s \in Saver : SaveStart(s) \/ SaveOpen(s) \/ SaveWrite(s))
               \/ NoteReads \/ NoteInserts \/ ScanWalk \/ ScanPublish \/ FindDuplicates \/ EmptyTrash
               \/ UNCHANGED libVars
        PROVE UNCHANGED <<disk, clean>>
    BY <1>1 DEF libVars, ScanRead, ScanStart, SaveStart, SaveOpen, SaveWrite, NoteReads,
           NoteInserts, ScanWalk, ScanPublish, FindDuplicates, EmptyTrash
  <1>2. UNCHANGED <<disk, clean>> => CopyIsSafe' BY DEF CopyIsSafe, SafeRecs, InDanger
  <1>3. ASSUME NEW p \in Path, FileLands(p) PROVE CopyIsSafe'
    <2>1. clean'.fresh = FALSE BY <1>3 DEF FileLands, LibTyped, CleanRecord
    <2> QED BY <2>1 DEF CopyIsSafe
  <1>4. ASSUME NEW p \in Path, CleanSkips(p) PROVE CopyIsSafe'
    <2>1. clean'.fresh = clean.fresh /\ clean'.recs = clean.recs /\ clean'.pc = "next" /\
            clean'.todo = clean.todo \ {p}
      BY <1>4 DEF CleanSkips, LibTyped, CleanRecord
    <2>2. InDanger' \subseteq InDanger BY <2>1 DEF InDanger
    <2>3. disk' = disk BY <1>4 DEF CleanSkips
    <2>9. InDanger \subseteq Path BY DEF InDanger, LibTyped, CleanRecord
    <2> QED BY <2>1, <2>2, <2>3, <2>9, StillSafe
  <1>5. ASSUME NEW p \in Path, CleanDeletes(p) PROVE CopyIsSafe'
    <2>1. /\ clean'.fresh = clean.fresh /\ clean'.recs = clean.recs \cup {disk[p].rec}
          /\ clean'.pc = "next" /\ clean'.todo = clean.todo \ {p}
      BY <1>5 DEF CleanDeletes, Acceptable, LibTyped, CleanRecord
    <2>2. p \in clean.todo /\ disk[p] # NoFile BY <1>5 DEF CleanDeletes, Acceptable
    <2>3. InDanger' \subseteq InDanger /\ p \in InDanger BY <2>1, <2>2 DEF InDanger
    <2>4. \A q \in Path : disk'[q] = disk[q] \/ (disk'[q] = NoFile /\ q = p)
      BY <1>5 DEF CleanDeletes, LibTyped, Index
    <2>9. InDanger \subseteq Path BY DEF InDanger, LibTyped, CleanRecord
    <2> QED BY <2>1, <2>2, <2>3, <2>4, <2>9, StillSafe
  <1>6. ASSUME NEW p \in Path, MoveRenames(p) PROVE CopyIsSafe'
    <2>1. /\ clean'.fresh = clean.fresh /\ clean'.recs = clean.recs \cup {disk[p].rec}
          /\ clean'.pc = "next" /\ clean'.todo = clean.todo \ {p}
      BY <1>6 DEF MoveRenames, Acceptable, LibTyped, CleanRecord
    <2>2. p \in clean.todo /\ disk[p] # NoFile BY <1>6 DEF MoveRenames, Acceptable
    <2>3. InDanger' \subseteq InDanger /\ p \in InDanger BY <2>1, <2>2 DEF InDanger
    <2>4. \A q \in Path : disk'[q] = disk[q] \/ (disk'[q] = NoFile /\ q = p)
      BY <1>6 DEF MoveRenames, LibTyped, Index
    <2>9. InDanger \subseteq Path BY DEF InDanger, LibTyped, CleanRecord
    <2> QED BY <2>1, <2>2, <2>3, <2>4, <2>9, StillSafe
  <1>7. ASSUME NEW p \in Path, MoveCopies(p) PROVE CopyIsSafe'
    <2>1. /\ clean'.fresh = clean.fresh /\ clean'.recs = clean.recs /\ clean'.path = p
          /\ clean'.todo = clean.todo \ {p} /\ p \in clean.todo
      BY <1>7 DEF MoveCopies, Acceptable, LibTyped, CleanRecord
    <2>2. InDanger' \subseteq InDanger BY <2>1 DEF InDanger
    <2>3. disk' = disk BY <1>7 DEF MoveCopies
    <2>9. InDanger \subseteq Path BY DEF InDanger, LibTyped, CleanRecord
    <2> QED BY <2>1, <2>2, <2>3, <2>9, StillSafe
  <1>8. ASSUME MoveCopied PROVE CopyIsSafe'
    <2>1. /\ clean'.fresh = clean.fresh /\ clean'.recs = clean.recs /\ clean'.path = clean.path
          /\ clean'.todo = clean.todo /\ clean.pc = "copying"
      BY <1>8 DEF MoveCopied, LibTyped, CleanRecord
    <2>2. InDanger' \subseteq InDanger BY <2>1 DEF InDanger
    <2>3. disk' = disk BY <1>8 DEF MoveCopied
    <2>9. InDanger \subseteq Path BY DEF InDanger, LibTyped, CleanRecord
    <2> QED BY <2>1, <2>2, <2>3, <2>9, StillSafe
  <1>9. ASSUME MoveCopyFails PROVE CopyIsSafe'
    <2>1. /\ clean'.fresh = clean.fresh /\ clean'.recs = clean.recs /\ clean'.path = clean.path
          /\ clean'.todo = clean.todo /\ clean.pc = "copying"
      BY <1>9 DEF MoveCopyFails, LibTyped, CleanRecord
    <2>2. InDanger' \subseteq InDanger BY <2>1 DEF InDanger
    <2>3. disk' = disk BY <1>9 DEF MoveCopyFails
    <2>9. InDanger \subseteq Path BY DEF InDanger, LibTyped, CleanRecord
    <2> QED BY <2>1, <2>2, <2>3, <2>9, StillSafe
  <1>10. ASSUME MoveRemoves PROVE CopyIsSafe'
    <2>1. /\ clean'.fresh = clean.fresh /\ clean'.pc = "next" /\ clean'.path = clean.path
          /\ clean'.todo = clean.todo /\ clean.pc = "copied"
      BY <1>10 DEF MoveRemoves, LibTyped, CleanRecord
    <2>2. InDanger' \subseteq InDanger /\ clean.path \in InDanger BY <2>1 DEF InDanger
    <2>3. \/ disk' = disk /\ clean'.recs = clean.recs
          \/ /\ disk' = [disk EXCEPT ![clean.path] = NoFile] /\ disk[clean.path] # NoFile
             /\ clean'.recs = clean.recs \cup {disk[clean.path].rec}
      BY <1>10 DEF MoveRemoves, LibTyped, CleanRecord
    <2>4. \A q \in Path : disk'[q] = disk[q] \/ (disk'[q] = NoFile /\ q = clean.path)
      BY <2>3 DEF LibTyped, Index
    <2>5. \A r \in clean'.recs : r \in clean.recs \/ (disk[clean.path] # NoFile /\ r = disk[clean.path].rec)
      BY <2>3
    <2>9. InDanger \subseteq Path BY DEF InDanger, LibTyped, CleanRecord
    <2> QED BY <2>1, <2>2, <2>4, <2>5, <2>9, StillSafe
  <1>11. ASSUME CleanForgets PROVE CopyIsSafe'
    <2>1. CASE clean' = NoClean BY <2>1 DEF NoClean, CopyIsSafe
    <2>2. CASE clean' # NoClean
      <3>1. /\ clean'.fresh = clean.fresh /\ clean'.pc = "save" /\ clean'.recs = clean.recs /\
                 clean'.todo = clean.todo
        BY <1>11, <2>2 DEF CleanForgets, LibTyped, CleanRecord
      <3>2. InDanger' \subseteq InDanger BY <3>1 DEF InDanger
      <3>3. disk' = disk BY <1>11 DEF CleanForgets
      <3>4. InDanger \subseteq Path BY DEF InDanger, LibTyped, CleanRecord
      <3> QED BY <3>1, <3>2, <3>3, <3>4, StillSafe
    <2> QED BY <2>1, <2>2
  <1>12. ASSUME NEW s \in Saver, SaveRename(s) PROVE CopyIsSafe'
    <2>1. CASE clean' = NoClean BY <2>1 DEF NoClean, CopyIsSafe
    <2>2. CASE clean' = clean
      <3>1. disk' = disk BY <1>12 DEF SaveRename
      <3> QED BY <1>2, <2>2, <3>1
    <2> QED BY <1>12, <2>1, <2>2 DEF SaveRename, SaverEnds
  <1>13. ASSUME NEW s \in Saver, SaveFails(s) PROVE CopyIsSafe'
    <2>1. CASE clean' = NoClean BY <2>1 DEF NoClean, CopyIsSafe
    <2>2. CASE clean' = clean
      <3>1. disk' = disk BY <1>13 DEF SaveFails
      <3> QED BY <1>2, <2>2, <3>1
    <2> QED BY <1>13, <2>1, <2>2 DEF SaveFails, SaverEnds
  <1>14. ASSUME LibraryRestart PROVE CopyIsSafe'
    BY <1>14 DEF LibraryRestart, NoClean, CopyIsSafe
  <1>15. ASSUME NEW m \in {"trash", "delete"}, CleanStart(m) PROVE CopyIsSafe'
    <2>1. /\ clean'.pc = "next" /\ clean'.todo = report.drop /\ clean'.recs = {} /\ clean'.fresh = Fresh
      BY <1>15 DEF CleanStart, NoClean
    <2>2. disk' = disk BY <1>15 DEF CleanStart
    <2>3. InDanger' = report.drop BY <2>1 DEF InDanger
    <2>4. ASSUME Fresh, NEW p \in report.drop, disk[p] # NoFile PROVE disk[p].rec \in SafeRecs'
      <3>1. PICK k \in Path \ report.drop : disk[k] # NoFile /\ disk[k].rec = disk[p].rec
        BY <2>4, FreshIsSafe
      <3>2. k \in Path \ InDanger' /\ disk'[k] = disk[k] BY <2>2, <2>3
      <3> QED BY <3>1, <3>2 DEF SafeRecs
    <2> QED BY <2>1, <2>2, <2>3, <2>4 DEF CopyIsSafe
  <1> QED
    BY <1>1, <1>2, <1>3, <1>4, <1>5, <1>6, <1>7, <1>8, <1>9, <1>10, <1>11, <1>12, <1>13, <1>14,
         <1>15 DEF LibraryNext

-----------------------------------------------------------------------------
(* It all holds when the process starts.                                   *)
LEMMA LibraryStarts == LibraryInit => LibraryInv
  <1> SUFFICES ASSUME LibraryInit PROVE LibraryInv OBVIOUS
  <1>1. LibTyped
    <2>1. Empty \in Index BY StartValues
    <2>2. 0 \in 0..MaxLibOps BY LibraryAssumption DEF LibraryAssumption
    <2>3. disk \in Index
      <3>1. ASSUME NEW r \in Recording PROVE [p \in Path |-> [rec |-> r, stat |-> 0]] \in Index
        <4>1. [rec |-> r, stat |-> 0] \in Entry BY <2>2, FileIs DEF TagNames, Entry
        <4> QED BY <4>1 DEF Index
      <3> QED BY <2>1, <3>1 DEF LibraryInit
    <2>4. Home \in LibDir BY LibraryAssumption DEF LibraryAssumption
    <2>5. [dir |-> Home, entries |-> disk] \in Snapshot BY <2>3, <2>4 DEF Snapshot
    <2>6. indexFile \in Content BY <2>5, StartValues, ContentIs DEF LibraryInit
    <2>7. entries \in Index /\ libDir \in LibDir \cup {""} BY <2>6, ContentIs DEF LibraryInit
    <2> QED BY <2>2, <2>3, <2>6, <2>7, StartValues DEF LibraryInit, LibTyped
  <1>2. ScanReadsFound BY DEF LibraryInit, NoScan, ScanReadsFound
  <1>3. \A s \in Saver : ~Running(s) /\ saver[s].pc = "idle" BY DEF LibraryInit, Running, IdleSaver
  <1>4. SavesTakeTurns
    <2>1. indexFile # Partial BY DEF LibraryInit, Missing, Partial, Whole
    <2> QED BY <1>3, <2>1 DEF SavesTakeTurns
  <1>5. SaveIsComing
    <2>1. indexFile.snap \in Snapshot BY <1>1, ContentIs DEF LibTyped
    <2>2. indexFile.snap = [dir |-> libDir, entries |-> entries] BY <2>1 DEF Snapshot, LibraryInit
    <2> QED BY <1>3, <2>2 DEF SaveIsComing, InMemory
  <1>6. NumbersTell
    <2>1. ASSUME NEW p \in Path, NEW e, HasEntry(p, e) PROVE e = NoFile \/ e = disk[p]
      <3>1. indexFile.snap.entries = disk \/ indexFile.snap.entries = Empty
        <4>1. Missing.snap.entries = Empty BY DEF Missing, Nothing
        <4>2. Whole([dir |-> Home, entries |-> disk]).snap.entries = disk BY DEF Whole
        <4> QED BY <4>1, <4>2 DEF LibraryInit
      <3>2. Empty[p] = NoFile BY DEF Empty
      <3>3. tmpFile.snap.entries = Empty /\ \A s \in Saver : saver[s].snap.entries = Empty
        BY DEF LibraryInit, Missing, Nothing, IdleSaver
      <3>4. scan.known = Empty /\ scan.files = Empty /\ scan.found = Empty /\ note.file = NoFile
        BY DEF LibraryInit, NoScan, NoNote
      <3>5. entries = indexFile.snap.entries BY DEF LibraryInit
      <3> QED BY <2>1, <3>1, <3>2, <3>3, <3>4, <3>5 DEF HasEntry
    <2>2. \A p \in Path : disk[p] = NoFile \/ disk[p].stat = 0 BY DEF LibraryInit, Empty
    <2>3. libOps = 0 BY DEF LibraryInit
    <2> QED BY <2>1, <2>2, <2>3 DEF NumbersTell, TellsFile
  <1>7. QuietScanFinds BY DEF LibraryInit, QuietScanFinds
  <1>8. TrashKeepsTheFile /\ CopyIsOwed BY DEF LibraryInit, TrashKeepsTheFile, CopyIsOwed
  <1>9. CopyIsSafe BY DEF LibraryInit, NoClean, CopyIsSafe
  <1> QED BY <1>1, <1>2, <1>4, <1>5, <1>6, <1>7, <1>8, <1>9 DEF LibraryInv

(* The inductive invariant of the library: what the index file, the snapshots,
   the scan, the numbers of the files, the trash and a cleanup are at any moment. *)
THEOREM LibraryInvariant == LibrarySpec => []LibraryInv
  <1>1. ASSUME LibraryInv, [LibraryNext]_libVars PROVE LibraryInv'
    <2>1. LibTyped' BY <1>1, LibTypedStep DEF LibraryInv
    <2> QED
      BY <1>1, <2>1, FoundStep, TurnsStep, ComingStep, NumbersStep, QuietStep, TrashStep,
           SafeStep DEF LibraryInv
  <1> QED BY <1>1, LibraryStarts, PTL DEF LibrarySpec

(* Every variable keeps its type; no index, in memory or on disk, holds what no
   file held. *)
THEOREM LibraryTypeCorrect == LibrarySpec => []LibraryTypeOK
  <1>1. LibraryInv => LibraryTypeOK
    BY DEF LibraryInv, LibTyped, LibraryTypeOK, ScanRecord, NoteRecord, SaverRecord, SaverPc,
           Descriptor, CleanRecord,
           CleanPc, ReportRecord, TrashRecord, OwedRecord, TagNames
  <1> QED BY <1>1, LibraryInvariant, PTL

(* save() leaves a whole index file wherever the process dies, as long as no
   two saves ran at once and none failed. *)
THEOREM IndexStaysWhole == LibrarySpec => []IndexFileIsWhole
  <1>1. LibraryInv => IndexFileIsWhole BY DEF LibraryInv, SavesTakeTurns, IndexFileIsWhole
  <1> QED BY <1>1, LibraryInvariant, PTL

(* With no save due or running the index file is the index in memory. *)
THEOREM IndexIsSaved == LibrarySpec => []IndexFileCatchesUp
  <1>1. LibraryInv => IndexFileCatchesUp
    BY DEF LibraryInv, LibTyped, SaveIsComing, InMemory, IndexFileCatchesUp, Settled, Running
  <1> QED BY <1>1, LibraryInvariant, PTL

(* A scan that nothing interferes with publishes the folder, file by file,
   although it reads again only what has another size or time. *)
THEOREM QuietScansAreExact == LibrarySpec => []QuietScanIsExact
  <1>1. LibraryInv => QuietScanIsExact BY DEF LibraryInv, QuietScanFinds, QuietScanIsExact
  <1> QED BY <1>1, LibraryInvariant, PTL

(* What a cleanup has set out to move is in the library or whole in the trash. *)
THEOREM MovedFilesAreKept == LibrarySpec => []TrashKeepsTheFile
  <1>1. LibraryInv => TrashKeepsTheFile BY DEF LibraryInv
  <1> QED BY <1>1, LibraryInvariant, PTL

(* A cleanup of a fresh offer leaves a copy of each recording it has removed. *)
THEOREM CleanupsLeaveACopy == LibrarySpec => []CleanupLeavesACopy
  <1>1. LibraryInv => CleanupLeavesACopy BY DEF LibraryInv, CopyIsSafe, SafeRecs, CleanupLeavesACopy
  <1> QED BY <1>1, LibraryInvariant, PTL

-----------------------------------------------------------------------------
(* Steps of an attempt before it has a file, while the file that landed is
   the one it works on, while it converts, and when it is nearly through. *)
NothingYet == {"none", "check", "resolve", "create", "receive", "give up"}
HasLanded == {"tag", "writing tags", "uncover", "validate", "lyrics", "writing lyrics", "resample", "resampling",
              "backup", "place", "unback"}
Converts == {"convert", "converting", "embed", "writing embed", "original"}
Reports == {"select", "writing selection", "report"}
AttemptPc == NothingYet \cup HasLanded \cup Converts \cup Reports
Rewrites == {"writing tags", "writing lyrics", "writing selection"}
Temporary == {"resampling", "backup"}
Conversion == {"converted", "labelled converted"}
FileState == {"absent", "partial", "whole", "damaged"}

AttemptRecord == [pc : AttemptPc, set : AttemptSettings \cup {NoSettings}, name : Suffix,
                  file : TrackPath \cup {NoPath}, original : TrackPath \cup {NoPath}]

FilesTyped ==
    /\ trackDisk \in [TrackPath -> FileState] /\ attempt \in AttemptRecord
    /\ told.ok => told.file \in TrackPath
    /\ finished \subseteq TrackPath /\ filesIndexed \subseteq TrackPath
    /\ fileCrashes \in Nat

(* Which file an attempt works on, by how far it has come.                 *)
FileByPc ==
    /\ attempt.pc \in NothingYet <=> attempt.file = NoPath
    /\ attempt.pc \notin NothingYet =>
            attempt.file = <<attempt.name, attempt.file[2]>> /\ attempt.original = <<attempt.name, "flac">>
    /\ attempt.pc \in HasLanded => attempt.file[2] = "flac"
    /\ attempt.pc \in {"backup", "place", "unback"} => attempt.set.replace
    /\ attempt.pc \in Converts => attempt.file[2] \in {"flac", "labelled"}
    /\ attempt.pc \in Reports => attempt.file[2] \in Extension \ Temporary

(* Of the files of the attempt under way: those that are there, whole or
   damaged for good, always the one it works on or what that was renamed to;
   those that are half done; and the conversion it has made. *)
Solid == {e \in Extension :
    \/ attempt.pc \notin NothingYet \cup Rewrites \cup {"place"} /\ e = attempt.file[2]
    \/ attempt.pc \notin NothingYet /\ attempt.file[2] = "labelled" /\ e = "flac"
    \/ attempt.pc = "backup" /\ e = "resampling"
    \/ attempt.pc = "place" /\ e \in Temporary
    \/ attempt.pc \in {"embed", "original"} /\ e = ConvertOutput[2]}

Handled == {e \in Extension :
    \/ attempt.pc = "receive" /\ e = "flac"
    \/ attempt.pc \in Rewrites /\ e = attempt.file[2]
    \/ attempt.pc = "resampling" /\ e = ResampleOutput[2]
    \/ attempt.pc = "backup" /\ e = "resampling"
    \/ attempt.pc = "place" /\ e \in Temporary
    \/ attempt.pc = "unback" /\ e = "backup"
    \/ attempt.pc \in {"converting", "writing embed"} /\ e = ConvertOutput[2]}

Made == {e \in Extension :
    \/ attempt.pc \in {"embed", "writing embed", "original"} /\ e = ConvertOutput[2]
    \/ attempt.pc \in Reports /\ e = attempt.file[2]}

(* A resampled file is no better than the one it was made of.              *)
WholeByPc ==
    /\ \A e \in Solid : trackDisk[<<attempt.name, e>>] \in Audible
    /\ attempt.pc \notin NothingYet /\ attempt.file[2] = "labelled" =>
            \/ trackDisk[<<attempt.name, "flac">>] = "whole"
            \/ trackDisk[<<attempt.name, "labelled">>] = "damaged"
    /\ attempt.pc = "create" => trackDisk[<<attempt.name, "flac">>] # "whole"

(* Every other file is as a finished attempt leaves it.                    *)
CleanElsewhere ==
    fileCrashes = 0 => \A n \in Suffix, e \in Extension :
        \/ n = attempt.name /\ e \in Handled
        \/ trackDisk[<<n, e>>] # "partial" /\ (e \in Temporary => trackDisk[<<n, e>>] = "absent")

(* What was reported is no temporary; a resampled file was reported beside
   its original; and the file under way was not reported before. *)
FinishedApart ==
    /\ \A n \in Suffix, e \in Temporary : <<n, e>> \notin finished
    /\ \A n \in Suffix : <<n, "labelled">> \in finished => trackDisk[<<n, "flac">>] = "whole"
    /\ \A n \in Suffix, e \in {"flac", "labelled"} :
            <<n, e>> \in finished => trackDisk[<<n, e>>] = "whole"
    /\ attempt.pc \notin {"none", "check", "resolve"} =>
            <<attempt.name, "flac">> \notin finished /\ <<attempt.name, "labelled">> \notin finished

(* A whole conversion is in the index, or is the one under way.            *)
ConvertedIsIndexed ==
    fileCrashes = 0 => \A n \in Suffix, e \in Conversion :
        trackDisk[<<n, e>>] = "whole" => <<n, e>> \in filesIndexed \/ (n = attempt.name /\ e \in Made)

(* What was told stays true while no attempt works.                        *)
ToldStays ==
    attempt.pc = "none" /\ told.ok =>
        /\ trackDisk[told.file] \in Audible \/ (told.found /\ fileCrashes > 0)
        /\ ~told.found /\ fileCrashes = 0 => \A e \in Extension \ {"labelled"} :
                trackDisk[<<told.file[1], e>>] = "whole" => <<told.file[1], e>> \in filesIndexed

FilesInv ==
    /\ FilesTyped /\ FileByPc /\ WholeByPc /\ CleanElsewhere /\ FinishedApart
    /\ ConvertedIsIndexed /\ ToldStays

-----------------------------------------------------------------------------
(* A path is a suffix and an extension.                                    *)
LEMMA PathIs == \A n, e : <<n, e>> \in TrackPath <=> n \in Suffix /\ e \in Extension
  BY DEF TrackPath

(* ... and nothing else.                                                   *)
LEMMA PathSplit == \A p \in TrackPath : p = <<p[1], p[2]>> /\ p[1] \in Suffix /\ p[2] \in Extension
  BY DEF TrackPath

(* An attempt without a file works on no path.                             *)
LEMMA NoPathIs == NoPath \notin TrackPath
  BY DEF NoPath, TrackPath, Extension

(* The step of an attempt that keeps its file, and a write to one of its files. *)
Proceeds(pc) ==
    /\ attempt'.pc = pc /\ attempt'.set = attempt.set /\ attempt'.name = attempt.name
    /\ attempt'.file = attempt.file /\ attempt'.original = attempt.original

OthersKept == \A n \in Suffix, e \in Extension : n # attempt.name =>
  trackDisk'[<<n, e>>] = trackDisk[<<n, e>>]
FileKept(e) == trackDisk'[<<attempt.name, e>>] = trackDisk[<<attempt.name, e>>]

Writes(x, is) ==
    /\ OthersKept /\ trackDisk'[<<attempt.name, x>>] = is
    /\ \A e \in Extension : e # x => FileKept(e)

(* A write is to the path it names and to no other.                        *)
LEMMA PutIs ==
  ASSUME FilesTyped, NEW x \in Extension, NEW is \in FileState, Put(<<attempt.name, x>>, is)
  PROVE  Writes(x, is) /\ trackDisk' \in [TrackPath -> FileState]
<1>1. attempt.name \in Suffix
  BY DEF FilesTyped, AttemptRecord
<1>. QED
  BY <1>1, PathIs DEF Put, FilesTyped, Writes, OthersKept, FileKept

(* So is a rename, which takes what it names away.                         *)
LEMMA MovedIs ==
  ASSUME FilesTyped, NEW x \in Extension, NEW y \in Extension, x # y,
         Moved(<<attempt.name, x>>, <<attempt.name, y>>)
  PROVE  /\ OthersKept /\ \A e \in Extension : e # x /\ e # y => FileKept(e)
         /\ trackDisk'[<<attempt.name, y>>] = trackDisk[<<attempt.name, x>>]
         /\ trackDisk'[<<attempt.name, x>>] = "absent"
         /\ trackDisk' \in [TrackPath -> FileState]
<1>1. attempt.name \in Suffix /\ <<attempt.name, x>> \in TrackPath /\ <<attempt.name, y>> \in TrackPath
  BY PathIs DEF FilesTyped, AttemptRecord
<1>2. trackDisk[<<attempt.name, x>>] \in FileState /\ "absent" \in FileState
  BY <1>1 DEF FilesTyped, FileState
<1>3. \A p \in TrackPath : trackDisk'[p] = IF p = <<attempt.name, x>> THEN "absent"
                                          ELSE IF p = <<attempt.name,
                                            y>> THEN trackDisk[<<attempt.name, x>>]
                                          ELSE trackDisk[p]
  BY <1>1 DEF Moved, FilesTyped
<1>4. trackDisk' \in [TrackPath -> FileState]
  BY <1>1, <1>2 DEF Moved, FilesTyped
<1>. QED
  BY <1>1, <1>3, <1>4, PathIs DEF OthersKept, FileKept

(* An attempt that goes on changes its place only.                         *)
LEMMA ToIs ==
  ASSUME FilesTyped, NEW pc \in AttemptPc, To(pc)
  PROVE  Proceeds(pc) /\ attempt' \in AttemptRecord
  BY DEF FilesTyped, AttemptRecord, To, Proceeds

(* What an attempt that has ended leaves of itself.                        *)
Ended ==
    /\ attempt'.pc = "none" /\ attempt'.name = 0
    /\ attempt'.file = NoPath /\ attempt'.original = NoPath

(* An attempt that fails tells so and is over.                             *)
LEMMA FailedIs ==
  ASSUME Failed
  PROVE  Ended /\ told'.ok = FALSE
  BY DEF Failed, NoAttempt, Ended

(* The attempt that rests is one of the kind.                              *)
LEMMA NoAttemptTyped == NoAttempt \in AttemptRecord
<1>1. 0 \in Suffix
  BY TrackFilesAssumption DEF Suffix
<1>2. "none" \in AttemptPc
  BY DEF AttemptPc, NothingYet
<1>. QED BY <1>1, <1>2 DEF NoAttempt, AttemptRecord

(* What a step does to the attempt's own files goes with where it takes the
   attempt: whatever it leaves half done is in hand, what counts as there is
   there, what damage there is stays known, and a whole conversion is counted
   as made. *)
HandFollows == \A e \in Extension :
    \/ e \in Handled'
    \/ /\ trackDisk'[<<attempt.name, e>>] # "partial"
       /\ e \in Temporary => trackDisk'[<<attempt.name, e>>] = "absent"
    \/ FileKept(e) /\ e \notin Handled

SolidFollows ==
    /\ \A e \in Solid' : trackDisk'[<<attempt.name, e>>] \in Audible \/ (FileKept(e) /\ e \in Solid)
    /\ attempt'.pc \notin NothingYet /\ attempt'.file[2] = "labelled" =>
        \/ trackDisk'[<<attempt.name, "flac">>] = "whole" \/ trackDisk'[<<attempt.name, "labelled">>] = "damaged"
        \/ /\ attempt.pc \notin NothingYet /\ attempt.file[2] = "labelled" /\ FileKept("flac")
           /\ \/ trackDisk[<<attempt.name, "labelled">>] # "damaged"
              \/ FileKept("labelled")

MadeFollows == \A e \in Conversion :
    \/ e \in Made' \/ trackDisk'[<<attempt.name, e>>] # "whole"
    \/ FileKept(e) /\ e \notin Made

(* A step of an attempt at work on its own files keeps what is known of the
   disk. *)
LEMMA WorkStep ==
  ASSUME FilesInv, FilesTyped', OthersKept, attempt'.name = attempt.name,
         attempt.pc \notin {"none", "check", "resolve"}, attempt'.pc \notin NothingYet \ {"receive", "give up"},
         UNCHANGED <<finished, filesIndexed, fileCrashes>>,
         HandFollows, SolidFollows, MadeFollows
  PROVE  WholeByPc' /\ CleanElsewhere' /\ FinishedApart' /\ ConvertedIsIndexed' /\ ToldStays'
<1>1. WholeByPc'
  BY DEF FilesInv, WholeByPc, SolidFollows, FileKept, NothingYet
<1>2. CleanElsewhere'
  BY DEF FilesInv, CleanElsewhere, OthersKept, HandFollows, FileKept
<1>3. FinishedApart'
  <2>1. "flac" \in Extension /\ "labelled" \in Extension
    BY DEF Extension
  <2>. QED BY <2>1 DEF FilesInv, FinishedApart, OthersKept
<1>4. ConvertedIsIndexed'
  <2>1. \A e \in Conversion : e \in Extension
    BY DEF Extension, Conversion
  <2>2. ConvertedIsIndexed
    BY DEF FilesInv
  <2>. QED BY <2>1, <2>2 DEF ConvertedIsIndexed, OthersKept, MadeFollows, FileKept
<1>5. ToldStays'
  BY DEF ToldStays, NothingYet
<1>. QED BY <1>1, <1>2, <1>3, <1>4, <1>5

(* So does one that gives up, if it cleans up what it has in its hand.     *)
LEMMA FailStep ==
  ASSUME FilesInv, FilesTyped', Failed, OthersKept, attempt.pc \notin {"none", "check", "resolve"},
         UNCHANGED <<finished, filesIndexed, fileCrashes>>, HandFollows, MadeFollows
  PROVE  FilesInv'
<1>0. Ended /\ told'.ok = FALSE
  BY FailedIs
<1>1. WholeByPc'
  BY <1>0 DEF WholeByPc, Ended, Solid, NothingYet, Converts
<1>2. CleanElsewhere'
  <2>1. Handled' = {}
    BY <1>0 DEF Handled, Ended, Rewrites
  <2>. QED BY <2>1, ZenonT(40) DEF FilesInv, CleanElsewhere, OthersKept, HandFollows, FileKept
<1>3. FinishedApart'
  <2>1. "flac" \in Extension /\ "labelled" \in Extension
    BY DEF Extension
  <2>. QED BY <1>0, <2>1 DEF FilesInv, FinishedApart, OthersKept, Ended
<1>4. ConvertedIsIndexed'
  <2>1. \A e \in Conversion : e \in Extension
    BY DEF Extension, Conversion
  <2>2. ConvertedIsIndexed
    BY DEF FilesInv
  <2>3. Made' = {}
    BY <1>0 DEF Made, Ended, Reports
  <2>. QED BY <2>1, <2>2, <2>3 DEF ConvertedIsIndexed, OthersKept, MadeFollows, FileKept
<1>5. FileByPc'
  BY <1>0 DEF FileByPc, Ended, NothingYet, HasLanded, Converts, Reports
<1>6. ToldStays'
  BY <1>0 DEF ToldStays
<1>. QED BY <1>1, <1>2, <1>3, <1>4, <1>5, <1>6 DEF FilesInv

(* The four places where tags are written into a file of the attempt.      *)
RewriteOf(x, from, writing, to) ==
    \/ x = attempt.file[2] /\ from = "tag" /\ writing = "writing tags" /\ to = "uncover"
    \/ x = attempt.file[2] /\ from = "lyrics" /\ writing = "writing lyrics" /\ to = "resample"
    \/ x = ConvertOutput[2] /\ from = "embed" /\ writing = "writing embed" /\ to = "original"
    \/ x = attempt.file[2] /\ from = "select" /\ writing = "writing selection" /\ to = "report"

(* Writing tags in place leaves the file whole or damaged, and a damaged one
   damaged; nobody is told. *)
LEMMA RewriteStep ==
  ASSUME FilesInv, NEW x \in Extension, NEW from, NEW writing, NEW to,
         RewriteOf(x, from, writing, to), WriteTags(<<attempt.name, x>>, from, writing, to)
  PROVE  FilesInv'
<1>. DEFINE p == <<attempt.name, x>>
<1>t. FilesTyped /\ FileByPc /\ WholeByPc
  BY DEF FilesInv
<1>n. attempt.name \in Suffix /\ p \in TrackPath
  BY <1>t, PathIs DEF FilesTyped, AttemptRecord
<1>s. "partial" \in FileState /\ "damaged" \in FileState /\ AsGoodAs(p) \in FileState
  BY DEF FileState, AsGoodAs
<1>c. ConvertOutput = <<attempt.name, ConvertOutput[2]>> /\ ConvertOutput[2] \in Conversion
  BY DEF ConvertOutput, Conversion
<1>e. {"flac", "resampling", "backup", "labelled", "converted", "labelled converted"} = Extension
  BY DEF Extension
<1>. USE DEF NothingYet, HasLanded, Converts, Reports, Rewrites, Temporary, Audible
<1>1. \E pc \in AttemptPc : To(pc) /\ attempt.pc \in {from, writing} /\ pc \in {writing, to}
  BY DEF WriteTags, RewriteOf, At, AttemptPc
<1>2. PICK pc \in AttemptPc : To(pc) /\ attempt.pc \in {from, writing} /\ pc \in {writing, to}
  BY <1>1
<1>3. Proceeds(pc) /\ attempt' \in AttemptRecord
  BY <1>2, <1>t, ToIs
<1>4. UNCHANGED <<finished, told, filesIndexed, fileCrashes>>
  BY DEF WriteTags, Still
<1>5. x \notin Temporary /\ Made \subseteq {x} /\ (x \in Conversion => x \in Made')
  BY <1>2, <1>3, <1>t, <1>e DEF RewriteOf, FileByPc, Made, Proceeds, Conversion, ConvertOutput
<1>6. \/ attempt.pc = from /\ pc = to /\ trackDisk' = trackDisk
      \/ attempt.pc = from /\ pc = writing /\ Writes(x, IF trackDisk[p] = "damaged" THEN "damaged" ELSE "partial")
      \/ attempt.pc = writing /\ pc = to /\ Writes(x, AsGoodAs(p))
      \/ attempt.pc = writing /\ pc = to /\ Writes(x, "damaged")
  <2>1. \A y : To(y) => y = pc
    BY <1>2, <1>t DEF To, FilesTyped, AttemptRecord
  <2>2. \A is \in FileState : Put(p, is) => Writes(x, is)
    BY <1>t, PutIs
  <2>3. (IF trackDisk[p] = "damaged" THEN "damaged" ELSE "partial") \in FileState
    BY <1>s
  <2>. QED BY <2>1, <2>2, <2>3, <1>s DEF WriteTags, At
<1>7. /\ trackDisk' \in [TrackPath -> FileState] /\ OthersKept
      /\ \A e \in Extension : e # x => FileKept(e)
  <2>1. trackDisk' \in [TrackPath -> FileState]
    BY <1>s, <1>n, <1>t DEF WriteTags, Put, FilesTyped
  <2>. QED BY <2>1, <1>6 DEF Writes, OthersKept, FileKept
<1>8. FilesTyped'
  BY <1>3, <1>4, <1>7, <1>t, <1>2 DEF FilesTyped
<1>9. FileByPc'
  BY <1>3, <1>6, <1>t DEF FileByPc, Proceeds, RewriteOf
<1>10. HandFollows
  <2>1. Handled \subseteq {x} /\ (attempt.pc = from => Handled = {})
    BY <1>6, <1>t DEF Handled, RewriteOf, FileByPc
  <2>2. pc = writing => x \in Handled'
    BY <1>3, <1>6 DEF Handled, RewriteOf, Proceeds, ConvertOutput
  <2>3. AsGoodAs(p) # "partial"
    BY DEF AsGoodAs
  <2>. QED BY <2>1, <2>2, <2>3, <1>5, <1>6, <1>7 DEF HandFollows, Writes, FileKept
<1>11. SolidFollows
  <2>1. Solid' \subseteq Solid \cup {x} /\ (attempt.pc = from => Solid' \subseteq Solid)
    BY <1>3, <1>6, <1>t DEF Solid, RewriteOf, Proceeds, ConvertOutput, FileByPc
  <2>2. pc = writing => x \notin Solid'
    BY <1>3, <1>6, <1>t, <1>c DEF Solid, RewriteOf, Proceeds, ConvertOutput, FileByPc, Conversion
  <2>3. AsGoodAs(p) \in Audible /\ (trackDisk[p] = "damaged" => AsGoodAs(p) = "damaged")
    BY DEF AsGoodAs
  <2>4. \A e \in Solid' : trackDisk'[<<attempt.name, e>>] \in Audible \/ (FileKept(e) /\ e \in Solid)
    <3>1. Solid \subseteq Extension
      BY DEF Solid
    <3>. QED BY <2>1, <2>2, <2>3, <3>1, <1>6, <1>7 DEF Writes, FileKept
  <2>5. "flac" \in Extension /\ "labelled" \in Extension
    BY <1>e
  <2>6. trackDisk[p] = "damaged" => trackDisk'[p] = "damaged"
    BY <2>3, <1>6 DEF Writes
  <2>7. attempt.pc \notin NothingYet /\ attempt'.file = attempt.file
    BY <1>3, <1>6 DEF RewriteOf, Proceeds
  <2>8. attempt.file[2] = "labelled" => x # "flac"
    BY <1>5, <1>6, <1>c DEF RewriteOf, Conversion
  <2>9. attempt.file[2] = "labelled" /\ trackDisk[<<attempt.name, "labelled">>] = "damaged" =>
            trackDisk'[<<attempt.name, "labelled">>] = "damaged"
    BY <2>5, <2>6, <1>7 DEF FileKept
  <2>. QED BY <2>4, <2>5, <2>7, <2>8, <2>9, <1>7 DEF SolidFollows
<1>12. MadeFollows
  BY <1>5, <1>7, <1>3, <1>e DEF MadeFollows, Conversion
<1>. QED
  BY <1>2, <1>3, <1>4, <1>7, <1>8, <1>9, <1>10, <1>11, <1>12, WorkStep DEF FilesInv, RewriteOf, Proceeds

(* Every step of an attempt keeps the invariant.                           *)
LEMMA FilesStep == ASSUME FilesInv, [FilesNext]_filesVars PROVE FilesInv'
<1>t. FilesTyped
  BY DEF FilesInv
<1>n. attempt.name \in Suffix /\ 0 \in Suffix
  BY <1>t, TrackFilesAssumption DEF FilesTyped, AttemptRecord, Suffix
<1>e. {"flac", "resampling", "backup", "labelled", "converted", "labelled converted"} = Extension
  BY DEF Extension
<1>s. "absent" \in FileState /\ "partial" \in FileState /\ "whole" \in FileState /\ Audible \subseteq FileState
  BY DEF FileState, Audible
<1>g. AsGoodAs(attempt.file) \in Audible /\ AsGoodAs(attempt.file) \in FileState
  BY DEF AsGoodAs, Audible, FileState
<1>p. \A pc : At(pc) <=> attempt.pc = pc
  BY DEF At
<1>c. /\ Landing = <<attempt.name, "flac">> /\ Backup = <<attempt.name, "backup">>
      /\ ResampleOutput = <<attempt.name, ResampleOutput[2]>> /\ ResampleOutput[2] \in Extension
      /\ ConvertOutput = <<attempt.name, ConvertOutput[2]>> /\ ConvertOutput[2] \in Extension
      /\ ResampleOutput[2] \in {"resampling", "labelled"} /\ ConvertOutput[2] \in Conversion
  BY DEF Conversion, Landing, Backup, ResampleOutput, ConvertOutput, Extension
<1>d. Landing \in TrackPath /\ ResampleOutput \in TrackPath /\ ConvertOutput \in TrackPath
  BY <1>n, <1>e, PathIs DEF Landing, ResampleOutput, ConvertOutput
<1>f. FileByPc /\ WholeByPc
  BY DEF FilesInv
<1>x. attempt.pc \notin NothingYet => attempt.file = <<attempt.name, attempt.file[2]>> /\
        attempt.file[2] \in Extension
  BY <1>f, <1>t, PathIs DEF FileByPc, FilesTyped, AttemptRecord
<1>. USE DEF NothingYet, HasLanded, Converts, Reports, Rewrites, Temporary, Audible
<1>1. CASE LookForFile
  <2>1. CASE At("check") /\ ~attempt.set.suffix /\ Has(ExpectedPath) /\ FoundAt(ExpectedPath)
    <3>1. attempt.pc = "check"
      BY <2>1, <1>p
    <3>2. Ended /\ told' = [ok |-> TRUE, found |-> TRUE, file |-> ExpectedPath] /\
            UNCHANGED <<trackDisk, finished, filesIndexed, fileCrashes>> /\ attempt' \in AttemptRecord
      BY <2>1, NoAttemptTyped DEF FoundAt, Ended, NoAttempt
    <3>3. FilesTyped'
      BY <2>1, <3>1, <3>2, <1>n, <1>e, <1>t, PathIs DEF FilesTyped, Still, ExpectedPath
    <3>4. FileByPc' /\ WholeByPc'
      BY <3>1, <3>2 DEF FileByPc, WholeByPc, Solid, Ended
    <3>5. CleanElsewhere' /\ ConvertedIsIndexed'
      BY <3>1, <3>2 DEF FilesInv, CleanElsewhere, ConvertedIsIndexed, Handled, Made
    <3>6. FinishedApart'
      BY <3>1, <3>2 DEF FilesInv, FinishedApart, Ended
    <3>7. fileCrashes = 0 => \A m \in Suffix, e \in Extension : trackDisk[<<m, e>>] # "partial"
      BY <3>1 DEF FilesInv, CleanElsewhere, Handled
    <3>8. ExpectedPath \in TrackPath /\ ExpectedPath = <<0, ExpectedPath[2]>> /\
            ExpectedPath[2] \in Extension
      BY <1>n, <1>e, PathIs DEF ExpectedPath
    <3>9. trackDisk[ExpectedPath] \in Audible \/ fileCrashes > 0
      BY <2>1, <3>7, <3>8, <1>n, <1>t DEF FilesTyped, FileState, Has
    <3>10. ToldStays'
      BY <3>1, <3>2, <3>9 DEF ToldStays
    <3>. QED BY <3>3, <3>4, <3>5, <3>6, <3>7, <3>8, <3>9, <3>10 DEF FilesInv
  <2>2. CASE At("check") /\ To("resolve") /\ Still /\ UNCHANGED trackDisk
    <3>1. attempt.pc = "check"
      BY <2>2, <1>p
    <3>2. "resolve" \in AttemptPc
      BY DEF AttemptPc
    <3>3. Proceeds("resolve") /\ attempt' \in AttemptRecord
      BY <2>2, <3>2, <1>t, ToIs
    <3>4. FilesTyped'
      BY <2>2, <3>1, <3>3, <1>n, <1>e, <1>t, PathIs DEF FilesTyped, Still
    <3>5. trackDisk' = trackDisk /\ UNCHANGED <<finished, filesIndexed, fileCrashes>>
      BY <2>2 DEF Still
    <3>6. FileByPc' /\ WholeByPc'
      BY <3>1, <3>3, <3>5, <1>f DEF FileByPc, WholeByPc, Solid, Proceeds
    <3>7. CleanElsewhere' /\ ConvertedIsIndexed'
      BY <3>1, <3>3, <3>5 DEF FilesInv, CleanElsewhere, ConvertedIsIndexed, Handled, Made, Proceeds
    <3>8. FinishedApart'
      BY <3>1, <3>3, <3>5 DEF FilesInv, FinishedApart, Proceeds
    <3>9. ToldStays'
      BY <3>1, <3>3, <3>5 DEF ToldStays, Proceeds
    <3>. QED BY <3>4, <3>5, <3>6, <3>7, <3>8, <3>9 DEF FilesInv
  <2>. QED BY <1>1, <2>1, <2>2 DEF LookForFile
<1>2. CASE Resolve
  <2>1. CASE At("resolve") /\ Has(<<0, "flac">>) /\ FoundAt(<<0, "flac">>)
    <3>1. attempt.pc = "resolve"
      BY <2>1, <1>p
    <3>2. Ended /\ told' = [ok |-> TRUE, found |-> TRUE, file |-> <<0, "flac">>] /\
            UNCHANGED <<trackDisk, finished, filesIndexed, fileCrashes>> /\ attempt' \in AttemptRecord
      BY <2>1, NoAttemptTyped DEF FoundAt, Ended, NoAttempt
    <3>3. FilesTyped'
      BY <2>1, <3>1, <3>2, <1>n, <1>e, <1>t, PathIs DEF FilesTyped, Still, ExpectedPath
    <3>4. FileByPc' /\ WholeByPc'
      BY <3>1, <3>2 DEF FileByPc, WholeByPc, Solid, Ended
    <3>5. CleanElsewhere' /\ ConvertedIsIndexed'
      BY <3>1, <3>2 DEF FilesInv, CleanElsewhere, ConvertedIsIndexed, Handled, Made
    <3>6. FinishedApart'
      BY <3>1, <3>2 DEF FilesInv, FinishedApart, Ended
    <3>7. fileCrashes = 0 => \A m \in Suffix, e \in Extension : trackDisk[<<m, e>>] # "partial"
      BY <3>1 DEF FilesInv, CleanElsewhere, Handled
    <3>8. <<0, "flac">> \in TrackPath /\ <<0, "flac">> = <<0, <<0, "flac">>[2]>> /\
            <<0, "flac">>[2] \in Extension
      BY <1>n, <1>e, PathIs DEF ExpectedPath
    <3>9. trackDisk[<<0, "flac">>] \in Audible \/ fileCrashes > 0
      BY <2>1, <3>7, <3>8, <1>n, <1>t DEF FilesTyped, FileState, Has
    <3>10. ToldStays'
      BY <3>1, <3>2, <3>9 DEF ToldStays
    <3>. QED BY <3>3, <3>4, <3>5, <3>6, <3>7, <3>8, <3>9, <3>10 DEF FilesInv
  <2>2. CASE /\ At("resolve") /\
                  (\E n \in Suffix : attempt' = [attempt EXCEPT !.pc = "create", !.name = n] /\
                  trackDisk[<<n, "flac">>] # "whole") /\ UNCHANGED trackDisk
               /\ UNCHANGED <<finished, told, filesIndexed, fileCrashes>>
    <3>1. attempt.pc = "resolve"
      BY <2>2, <1>p
    <3>2. "create" \in AttemptPc
      BY DEF AttemptPc
    <3>3. /\ attempt'.pc = "create" /\ attempt'.set = attempt.set /\ attempt'.file = attempt.file /\
               attempt'.original = attempt.original
         /\ attempt'.name \in Suffix /\ trackDisk[<<attempt'.name, "flac">>] # "whole"
         /\ attempt' \in AttemptRecord
      BY <2>2, <3>2, <1>t DEF FilesTyped, AttemptRecord
    <3>4. FilesTyped'
      BY <2>2, <3>1, <3>3, <1>n, <1>e, <1>t, PathIs DEF FilesTyped, Still
    <3>5. trackDisk' = trackDisk /\ UNCHANGED <<finished, filesIndexed, fileCrashes>>
      BY <2>2 DEF Still
    <3>6. FileByPc' /\ WholeByPc'
      BY <3>1, <3>3, <3>5, <1>f DEF FileByPc, WholeByPc, Solid, Proceeds
    <3>7. CleanElsewhere' /\ ConvertedIsIndexed'
      BY <3>1, <3>3, <3>5 DEF FilesInv, CleanElsewhere, ConvertedIsIndexed, Handled, Made, Proceeds
    <3>8. FinishedApart'
      BY <3>1, <3>3, <3>5 DEF FilesInv, FinishedApart, Proceeds
    <3>9. ToldStays'
      BY <3>1, <3>3, <3>5 DEF ToldStays, Proceeds
    <3>. QED BY <3>4, <3>5, <3>6, <3>7, <3>8, <3>9 DEF FilesInv
  <2>3. At("resolve")
    BY <1>2 DEF Resolve
  <2>4. \A n \in Suffix : ResolvedSuffix(n) => trackDisk[<<n, "flac">>] # "whole"
    BY DEF ResolvedSuffix, Taken, Has
  <2>5. CASE ~attempt.set.suffix /\ Taken(0) /\ FoundAt(<<0, "flac">>)
    BY <2>1, <2>3, <2>5 DEF Taken
  <2>6. CASE /\ /\ trackDisk[<<0, "flac">>] # "whole" /\
                     attempt' = [attempt EXCEPT !.pc = "create", !.name = 0]
             /\ UNCHANGED trackDisk /\ UNCHANGED <<finished, told, filesIndexed, fileCrashes>>
    BY <2>2, <2>3, <2>6, <1>n
  <2>7. CASE /\ /\ \E n \in Suffix : ResolvedSuffix(n) /\
                     attempt' = [attempt EXCEPT !.pc = "create", !.name = n]
             /\ UNCHANGED trackDisk /\ UNCHANGED <<finished, told, filesIndexed, fileCrashes>>
    BY <2>2, <2>3, <2>4, <2>7
  <2>. QED BY <1>2, <2>5, <2>6, <2>7 DEF Resolve
<1>3. CASE Create
  <2>1. CASE At("create") /\ Put(Landing, "partial") /\ To("receive") /\ Still
    <3>1. attempt.pc = "create"
      BY <2>1, <1>p
    <3>2. "receive" \in AttemptPc
      BY DEF AttemptPc
    <3>3. Proceeds("receive") /\ attempt' \in AttemptRecord
      BY <2>1, <3>2, <1>t, ToIs
    <3>4. Writes("flac", "partial") /\ trackDisk' \in [TrackPath -> FileState]
      BY <2>1, <1>t, <1>c, <1>s, <1>e, PutIs
    <3>5. FilesTyped'
      BY <2>1, <3>1, <3>3, <3>4, <1>n, <1>e, <1>t, PathIs DEF FilesTyped, Still
    <3>6. FileByPc'
      BY <3>1, <3>3, <3>4, <1>f, <1>e, <1>c DEF FileByPc, NoPath, ConvertOutput, ResampleOutput,
             Proceeds
    <3>7. HandFollows
      BY <3>1, <3>3, <3>4, <1>f, <1>e DEF HandFollows, Handled, FileByPc, Writes, ConvertOutput,
         ResampleOutput, Proceeds
    <3>8. SolidFollows
      BY <3>1, <3>3, <3>4, <1>f, <1>e DEF SolidFollows, Solid, FileByPc, Writes, ConvertOutput,
         ResampleOutput, Proceeds
    <3>9. MadeFollows
      BY <3>1, <3>3, <3>4, <1>f, <1>e DEF MadeFollows, Conversion, Extension, Made, FileByPc,
             Writes,
         ConvertOutput, ResampleOutput, Proceeds
    <3>10. /\ OthersKept /\ UNCHANGED <<finished, filesIndexed, fileCrashes>>
          /\ attempt'.name = attempt.name /\ attempt'.pc \notin NothingYet \ {"receive", "give up"}
      BY <2>1, <3>1, <3>3, <3>4 DEF Writes, Proceeds, Still
    <3>. QED BY <3>1, <3>5, <3>6, <3>7, <3>8, <3>9, <3>10, WorkStep DEF FilesInv
  <2>2. CASE At("create") /\ To("give up") /\ Still /\ UNCHANGED trackDisk
    <3>1. attempt.pc = "create"
      BY <2>2, <1>p
    <3>2. "give up" \in AttemptPc
      BY DEF AttemptPc
    <3>3. Proceeds("give up") /\ attempt' \in AttemptRecord
      BY <2>2, <3>2, <1>t, ToIs
    <3>4. trackDisk' = trackDisk /\ OthersKept /\ \A e \in Extension : FileKept(e)
      BY <2>2 DEF OthersKept, FileKept
    <3>5. FilesTyped'
      BY <2>2, <3>1, <3>3, <3>4, <1>n, <1>e, <1>t, PathIs DEF FilesTyped, Still
    <3>6. FileByPc'
      BY <3>1, <3>3, <3>4, <1>f, <1>e, <1>c DEF FileByPc, NoPath, ConvertOutput, ResampleOutput,
             Proceeds
    <3>7. HandFollows
      BY <3>1, <3>3, <3>4, <1>f, <1>e DEF HandFollows, Handled, FileByPc, Writes, ConvertOutput,
         ResampleOutput, Proceeds
    <3>8. SolidFollows
      BY <3>1, <3>3, <3>4, <1>f, <1>e DEF SolidFollows, Solid, FileByPc, Writes, ConvertOutput,
         ResampleOutput, Proceeds
    <3>9. MadeFollows
      BY <3>1, <3>3, <3>4, <1>f, <1>e DEF MadeFollows, Conversion, Extension, Made, FileByPc,
             Writes,
         ConvertOutput, ResampleOutput, Proceeds
    <3>10. /\ OthersKept /\ UNCHANGED <<finished, filesIndexed, fileCrashes>>
          /\ attempt'.name = attempt.name /\ attempt'.pc \notin NothingYet \ {"receive", "give up"}
      BY <2>2, <3>1, <3>3, <3>4 DEF Writes, Proceeds, Still
    <3>. QED BY <3>1, <3>5, <3>6, <3>7, <3>8, <3>9, <3>10, WorkStep DEF FilesInv
  <2>. QED BY <1>3, <2>1, <2>2 DEF Create
<1>4. CASE Receive
  <2>1. CASE /\ At("receive") /\ Put(Landing, "whole") /\ Still /\
                  attempt' = [attempt EXCEPT !.pc = "tag", !.file = Landing, !.original = Landing]
    <3>1. attempt.pc = "receive"
      BY <2>1, <1>p
    <3>2. "tag" \in AttemptPc
      BY DEF AttemptPc
    <3>3. /\ attempt'.pc = "tag" /\ attempt'.name = attempt.name /\ attempt'.set = attempt.set /\
               attempt'.file = <<attempt.name, "flac">> /\ attempt'.original = <<attempt.name, "flac">>
         /\ attempt' \in AttemptRecord
      BY <2>1, <3>2, <1>t, <1>n, <1>c, <1>e, PathIs DEF FilesTyped, AttemptRecord
    <3>4. Writes("flac", "whole") /\ trackDisk' \in [TrackPath -> FileState]
      BY <2>1, <1>t, <1>c, <1>s, <1>e, PutIs
    <3>5. FilesTyped'
      BY <2>1, <3>1, <3>3, <3>4, <1>n, <1>e, <1>t, PathIs DEF FilesTyped, Still
    <3>6. attempt'.file[2] = "flac" /\ attempt'.file # NoPath /\
            attempt'.file = <<attempt.name, attempt'.file[2]>>
      BY <2>1, <3>1, <3>3, <3>4, <1>c, <1>d, NoPathIs
    <3>7. FileByPc'
      BY <2>1, <3>1, <3>3, <3>4, <3>6, <1>e, <1>c DEF FileByPc, Conversion
    <3>8. HandFollows
      BY <3>1, <3>3, <3>4, <3>6, <1>f, <1>e DEF HandFollows, Handled, FileByPc, Writes,
             ConvertOutput,
         ResampleOutput, Proceeds
    <3>9. SolidFollows
      BY <3>1, <3>3, <3>4, <3>6, <1>f, <1>e DEF SolidFollows, Solid, FileByPc, Writes,
             ConvertOutput,
         ResampleOutput, Proceeds
    <3>10. MadeFollows
      BY <3>1, <3>3, <3>4, <3>6, <1>f, <1>e DEF MadeFollows, Conversion, Extension, Made, FileByPc,
         Writes, ConvertOutput, ResampleOutput, Proceeds
    <3>11. /\ OthersKept /\ UNCHANGED <<finished, filesIndexed, fileCrashes>>
          /\ attempt'.name = attempt.name /\ attempt'.pc \notin NothingYet \ {"receive", "give up"}
      BY <2>1, <3>1, <3>3, <3>4, <3>6 DEF Writes, Proceeds, Still
    <3>. QED BY <3>1, <3>5, <3>6, <3>7, <3>8, <3>9, <3>10, <3>11, WorkStep DEF FilesInv
  <2>2. CASE At("receive") /\ RemovedAfterError /\ To("give up") /\ Still
    <3>1. attempt.pc = "receive"
      BY <2>2, <1>p
    <3>2. "give up" \in AttemptPc
      BY DEF AttemptPc
    <3>3. Proceeds("give up") /\ attempt' \in AttemptRecord
      BY <2>2, <3>2, <1>t, ToIs
    <3>4. Writes("flac", "absent") /\ trackDisk' \in [TrackPath -> FileState]
      BY <2>2, <1>t, <1>c, <1>s, <1>e, PutIs DEF RemovedAfterError
    <3>5. FilesTyped'
      BY <2>2, <3>1, <3>3, <3>4, <1>n, <1>e, <1>t, PathIs DEF FilesTyped, Still
    <3>6. FileByPc'
      BY <3>1, <3>3, <3>4, <1>f, <1>e, <1>c DEF FileByPc, NoPath, ConvertOutput, ResampleOutput,
             Proceeds
    <3>7. HandFollows
      BY <3>1, <3>3, <3>4, <1>f, <1>e DEF HandFollows, Handled, FileByPc, Writes, ConvertOutput,
         ResampleOutput, Proceeds
    <3>8. SolidFollows
      BY <3>1, <3>3, <3>4, <1>f, <1>e DEF SolidFollows, Solid, FileByPc, Writes, ConvertOutput,
         ResampleOutput, Proceeds
    <3>9. MadeFollows
      BY <3>1, <3>3, <3>4, <1>f, <1>e DEF MadeFollows, Conversion, Extension, Made, FileByPc,
             Writes,
         ConvertOutput, ResampleOutput, Proceeds
    <3>10. /\ OthersKept /\ UNCHANGED <<finished, filesIndexed, fileCrashes>>
          /\ attempt'.name = attempt.name /\ attempt'.pc \notin NothingYet \ {"receive", "give up"}
      BY <2>2, <3>1, <3>3, <3>4 DEF Writes, Proceeds, Still
    <3>. QED BY <3>1, <3>5, <3>6, <3>7, <3>8, <3>9, <3>10, WorkStep DEF FilesInv
  <2>. QED BY <1>4, <2>1, <2>2 DEF Receive
<1>5. CASE TagFile
  <2>1. WriteTags(attempt.file, "tag", "writing tags", "uncover")
    BY <1>5 DEF TagFile
  <2>2. attempt.pc \in {"tag", "writing tags"}
    BY <2>1, <1>p DEF WriteTags
  <2>3. attempt.file[2] \in Extension /\ attempt.file = <<attempt.name, attempt.file[2]>>
    BY <2>2, <1>c, <1>x
  <2>4. RewriteOf(attempt.file[2], "tag", "writing tags", "uncover")
    BY DEF RewriteOf
  <2>. QED BY <2>1, <2>3, <2>4, RewriteStep
<1>6. CASE Validate
  <2>1. CASE At("validate") /\ To("lyrics") /\ Still /\ UNCHANGED trackDisk
    <3>1. attempt.pc = "validate"
      BY <2>1, <1>p
    <3>2. "lyrics" \in AttemptPc
      BY DEF AttemptPc
    <3>3. Proceeds("lyrics") /\ attempt' \in AttemptRecord
      BY <2>1, <3>2, <1>t, ToIs
    <3>4. trackDisk' = trackDisk /\ OthersKept /\ \A e \in Extension : FileKept(e)
      BY <2>1 DEF OthersKept, FileKept
    <3>5. FilesTyped'
      BY <2>1, <3>1, <3>3, <3>4, <1>n, <1>e, <1>t, PathIs DEF FilesTyped, Still
    <3>6. FileByPc'
      BY <3>1, <3>3, <3>4, <1>f, <1>e, <1>c DEF FileByPc, NoPath, ConvertOutput, ResampleOutput,
             Proceeds
    <3>7. HandFollows
      BY <3>1, <3>3, <3>4, <1>f, <1>e DEF HandFollows, Handled, FileByPc, Writes, ConvertOutput,
         ResampleOutput, Proceeds
    <3>8. SolidFollows
      BY <3>1, <3>3, <3>4, <1>f, <1>e DEF SolidFollows, Solid, FileByPc, Writes, ConvertOutput,
         ResampleOutput, Proceeds
    <3>9. MadeFollows
      BY <3>1, <3>3, <3>4, <1>f, <1>e DEF MadeFollows, Conversion, Extension, Made, FileByPc,
             Writes,
         ConvertOutput, ResampleOutput, Proceeds
    <3>10. /\ OthersKept /\ UNCHANGED <<finished, filesIndexed, fileCrashes>>
          /\ attempt'.name = attempt.name /\ attempt'.pc \notin NothingYet \ {"receive", "give up"}
      BY <2>1, <3>1, <3>3, <3>4 DEF Writes, Proceeds, Still
    <3>. QED BY <3>1, <3>5, <3>6, <3>7, <3>8, <3>9, <3>10, WorkStep DEF FilesInv
  <2>2. CASE /\ At("validate") /\ RemovedAfterError /\ Failed /\
                  UNCHANGED <<finished, filesIndexed, attempts, fileCrashes, fileFaults>>
    <3>1. attempt.pc = "validate"
      BY <2>2, <1>p
    <3>2. Ended /\ told'.ok = FALSE /\ attempt' \in AttemptRecord
      BY <2>2, FailedIs, NoAttemptTyped DEF Failed
    <3>3. Writes("flac", "absent") /\ trackDisk' \in [TrackPath -> FileState]
      BY <2>2, <1>t, <1>c, <1>s, <1>e, PutIs DEF RemovedAfterError
    <3>4. FilesTyped'
      BY <2>2, <3>1, <3>2, <3>3, <1>n, <1>e, <1>t, PathIs DEF FilesTyped, Still
    <3>5. HandFollows
      BY <3>1, <3>2, <3>3, <1>f, <1>e DEF HandFollows, Handled, FileByPc, Writes, ConvertOutput,
         ResampleOutput, Ended
    <3>6. MadeFollows
      BY <3>1, <3>2, <3>3, <1>f, <1>e DEF MadeFollows, Conversion, Extension, Made, FileByPc,
             Writes,
         ConvertOutput, ResampleOutput, Ended
    <3>7. OthersKept /\ UNCHANGED <<finished, filesIndexed, fileCrashes>> /\ Failed
      BY <2>2, <3>1, <3>2, <3>3 DEF Writes
    <3>. QED BY <3>1, <3>4, <3>5, <3>6, <3>7, FailStep
  <2>. QED BY <1>6, <2>1, <2>2 DEF Validate
<1>7. CASE EmbedLyrics
  <2>1. WriteTags(attempt.file, "lyrics", "writing lyrics", "resample")
    BY <1>7 DEF EmbedLyrics
  <2>2. attempt.pc \in {"lyrics", "writing lyrics"}
    BY <2>1, <1>p DEF WriteTags
  <2>3. attempt.file[2] \in Extension /\ attempt.file = <<attempt.name, attempt.file[2]>>
    BY <2>2, <1>c, <1>x
  <2>4. RewriteOf(attempt.file[2], "lyrics", "writing lyrics", "resample")
    BY DEF RewriteOf
  <2>. QED BY <2>1, <2>3, <2>4, RewriteStep
<1>8. CASE RunResample
  <2>1. CASE At("resample") /\ Put(ResampleOutput, "partial") /\ To("resampling") /\ Still
    <3>1. attempt.pc = "resample"
      BY <2>1, <1>p
    <3>2. "resampling" \in AttemptPc
      BY DEF AttemptPc
    <3>3. Proceeds("resampling") /\ attempt' \in AttemptRecord
      BY <2>1, <3>2, <1>t, ToIs
    <3>4. Writes(ResampleOutput[2], "partial") /\ trackDisk' \in [TrackPath -> FileState]
      BY <2>1, <1>t, <1>c, <1>s, <1>e, PutIs
    <3>5. FilesTyped'
      BY <2>1, <3>1, <3>3, <3>4, <1>n, <1>e, <1>t, PathIs DEF FilesTyped, Still
    <3>6. FileByPc'
      BY <3>1, <3>3, <3>4, <1>f, <1>e, <1>c DEF FileByPc, NoPath, ConvertOutput, ResampleOutput,
             Proceeds
    <3>7. HandFollows
      BY <3>1, <3>3, <3>4, <1>f, <1>e DEF HandFollows, Handled, FileByPc, Writes, ConvertOutput,
         ResampleOutput, Proceeds
    <3>8. SolidFollows
      BY <3>1, <3>3, <3>4, <1>f, <1>e DEF SolidFollows, Solid, FileByPc, Writes, ConvertOutput,
         ResampleOutput, Proceeds
    <3>9. MadeFollows
      BY <3>1, <3>3, <3>4, <1>f, <1>e DEF MadeFollows, Conversion, Extension, Made, FileByPc,
             Writes,
         ConvertOutput, ResampleOutput, Proceeds
    <3>10. /\ OthersKept /\ UNCHANGED <<finished, filesIndexed, fileCrashes>>
          /\ attempt'.name = attempt.name /\ attempt'.pc \notin NothingYet \ {"receive", "give up"}
      BY <2>1, <3>1, <3>3, <3>4 DEF Writes, Proceeds, Still
    <3>. QED BY <3>1, <3>5, <3>6, <3>7, <3>8, <3>9, <3>10, WorkStep DEF FilesInv
  <2>2. CASE At("resample") /\ To("convert") /\ Still /\ UNCHANGED trackDisk
    <3>1. attempt.pc = "resample"
      BY <2>2, <1>p
    <3>2. "convert" \in AttemptPc
      BY DEF AttemptPc
    <3>3. Proceeds("convert") /\ attempt' \in AttemptRecord
      BY <2>2, <3>2, <1>t, ToIs
    <3>4. trackDisk' = trackDisk /\ OthersKept /\ \A e \in Extension : FileKept(e)
      BY <2>2 DEF OthersKept, FileKept
    <3>5. FilesTyped'
      BY <2>2, <3>1, <3>3, <3>4, <1>n, <1>e, <1>t, PathIs DEF FilesTyped, Still
    <3>6. FileByPc'
      BY <3>1, <3>3, <3>4, <1>f, <1>e, <1>c DEF FileByPc, NoPath, ConvertOutput, ResampleOutput,
             Proceeds
    <3>7. HandFollows
      BY <3>1, <3>3, <3>4, <1>f, <1>e DEF HandFollows, Handled, FileByPc, Writes, ConvertOutput,
         ResampleOutput, Proceeds
    <3>8. SolidFollows
      BY <3>1, <3>3, <3>4, <1>f, <1>e DEF SolidFollows, Solid, FileByPc, Writes, ConvertOutput,
         ResampleOutput, Proceeds
    <3>9. MadeFollows
      BY <3>1, <3>3, <3>4, <1>f, <1>e DEF MadeFollows, Conversion, Extension, Made, FileByPc,
             Writes,
         ConvertOutput, ResampleOutput, Proceeds
    <3>10. /\ OthersKept /\ UNCHANGED <<finished, filesIndexed, fileCrashes>>
          /\ attempt'.name = attempt.name /\ attempt'.pc \notin NothingYet \ {"receive", "give up"}
      BY <2>2, <3>1, <3>3, <3>4 DEF Writes, Proceeds, Still
    <3>. QED BY <3>1, <3>5, <3>6, <3>7, <3>8, <3>9, <3>10, WorkStep DEF FilesInv
  <2>3. CASE /\ At("resampling") /\ Put(ResampleOutput, AsGoodAs(attempt.file)) /\ Still /\ attempt.set.replace /\
                  attempt' = [attempt EXCEPT !.pc = "backup", !.file = attempt.file]
    <3>1. attempt.pc = "resampling"
      BY <2>3, <1>p
    <3>2. "backup" \in AttemptPc
      BY DEF AttemptPc
    <3>3. attempt.file[2] = "flac" /\ ResampleOutput[2] = "resampling" /\
            attempt.file = <<attempt.name, "flac">> /\ attempt.original = <<attempt.name, "flac">>
      BY <2>3, <3>1, <1>f, <1>e, <1>n, PathIs DEF FileByPc, ResampleOutput
    <3>4. /\ attempt'.pc = "backup" /\ attempt'.name = attempt.name /\ attempt'.set = attempt.set
         /\ attempt'.file = attempt.file /\ attempt'.original = attempt.original /\
              attempt' \in AttemptRecord
      BY <2>3, <3>2, <3>3, <1>t, <1>d DEF FilesTyped, AttemptRecord
    <3>5. Writes(ResampleOutput[2], AsGoodAs(attempt.file)) /\ trackDisk' \in [TrackPath -> FileState]
      BY <2>3, <1>t, <1>g, <1>c, <1>s, <1>e, PutIs
    <3>6. FilesTyped'
      BY <2>3, <3>1, <3>3, <3>4, <3>5, <1>n, <1>e, <1>t, PathIs DEF FilesTyped, Still
    <3>7. attempt'.file[2] = "flac" /\ attempt'.file # NoPath /\
            attempt'.file = <<attempt.name, attempt'.file[2]>>
      BY <2>3, <3>1, <3>3, <3>4, <3>5, <1>c, <1>d, NoPathIs
    <3>8. FileByPc'
      BY <2>3, <3>1, <3>3, <3>4, <3>5, <3>7, <1>e, <1>c DEF FileByPc, Conversion
    <3>9. HandFollows
      BY <3>1, <3>3, <3>4, <3>5, <3>7, <1>f, <1>e, <1>g DEF HandFollows, Handled, FileByPc, Writes,
         ConvertOutput, ResampleOutput, Proceeds
    <3>10. SolidFollows
      BY <3>1, <3>3, <3>4, <3>5, <3>7, <1>f, <1>e, <1>g DEF SolidFollows, Solid, FileByPc, Writes,
         ConvertOutput, ResampleOutput, Proceeds
    <3>11. MadeFollows
      BY <3>1, <3>3, <3>4, <3>5, <3>7, <1>f, <1>e, <1>g DEF MadeFollows, Conversion, Extension, Made,
         FileByPc, Writes, ConvertOutput, ResampleOutput, Proceeds
    <3>12. /\ OthersKept /\ UNCHANGED <<finished, filesIndexed, fileCrashes>>
          /\ attempt'.name = attempt.name /\ attempt'.pc \notin NothingYet \ {"receive", "give up"}
      BY <2>3, <3>1, <3>3, <3>4, <3>5, <3>7 DEF Writes, Proceeds, Still
    <3>. QED BY <3>1, <3>6, <3>7, <3>8, <3>9, <3>10, <3>11, <3>12, WorkStep DEF FilesInv
  <2>4. CASE /\ At("resampling") /\ Put(ResampleOutput, AsGoodAs(attempt.file)) /\ Still /\ ~attempt.set.replace /\
                  attempt' = [attempt EXCEPT !.pc = "convert", !.file = ResampleOutput]
    <3>1. attempt.pc = "resampling"
      BY <2>4, <1>p
    <3>2. "convert" \in AttemptPc
      BY DEF AttemptPc
    <3>3. attempt.file[2] = "flac" /\ ResampleOutput[2] = "labelled" /\
            attempt.original = <<attempt.name, "flac">>
      BY <2>4, <3>1, <1>f DEF FileByPc, ResampleOutput
    <3>4. /\ attempt'.pc = "convert" /\ attempt'.name = attempt.name /\ attempt'.set = attempt.set
         /\ attempt'.file = ResampleOutput /\ attempt'.original = attempt.original /\
              attempt' \in AttemptRecord
      BY <2>4, <3>2, <3>3, <1>t, <1>d DEF FilesTyped, AttemptRecord
    <3>5. Writes(ResampleOutput[2], AsGoodAs(attempt.file)) /\ trackDisk' \in [TrackPath -> FileState]
      BY <2>4, <1>t, <1>g, <1>c, <1>s, <1>e, PutIs
    <3>6. FilesTyped'
      BY <2>4, <3>1, <3>3, <3>4, <3>5, <1>n, <1>e, <1>t, PathIs DEF FilesTyped, Still
    <3>7. attempt'.file[2] = "labelled" /\ attempt'.file # NoPath /\
            attempt'.file = <<attempt.name, attempt'.file[2]>>
      BY <2>4, <3>1, <3>3, <3>4, <3>5, <1>c, <1>d, NoPathIs
    <3>8. FileByPc'
      BY <2>4, <3>1, <3>3, <3>4, <3>5, <3>7, <1>e, <1>c DEF FileByPc, Conversion
    <3>9. HandFollows
      BY <3>1, <3>3, <3>4, <3>5, <3>7, <1>f, <1>e, <1>g DEF HandFollows, Handled, FileByPc, Writes,
         ConvertOutput, ResampleOutput, Proceeds
    <3>9a. trackDisk'[<<attempt.name, "flac">>] = "whole" \/ AsGoodAs(attempt.file) = "damaged"
      BY <3>1, <3>3, <3>5, <1>f, <1>x, <1>e DEF AsGoodAs, WholeByPc, Solid, Writes, FileKept
    <3>10. SolidFollows
      BY <3>1, <3>3, <3>4, <3>5, <3>7, <3>9a, <1>f, <1>e, <1>g DEF SolidFollows, Solid, FileByPc, Writes,
         ConvertOutput, ResampleOutput, Proceeds
    <3>11. MadeFollows
      BY <3>1, <3>3, <3>4, <3>5, <3>7, <1>f, <1>e, <1>g DEF MadeFollows, Conversion, Extension, Made,
         FileByPc, Writes, ConvertOutput, ResampleOutput, Proceeds
    <3>12. /\ OthersKept /\ UNCHANGED <<finished, filesIndexed, fileCrashes>>
          /\ attempt'.name = attempt.name /\ attempt'.pc \notin NothingYet \ {"receive", "give up"}
      BY <2>4, <3>1, <3>3, <3>4, <3>5, <3>7 DEF Writes, Proceeds, Still
    <3>. QED BY <3>1, <3>6, <3>7, <3>8, <3>9, <3>10, <3>11, <3>12, WorkStep DEF FilesInv
  <2>5. CASE /\ At("resampling") /\ Put(ResampleOutput, "absent") /\ Failed /\
                  UNCHANGED <<finished, filesIndexed, attempts, fileCrashes, fileFaults>>
    <3>1. attempt.pc = "resampling"
      BY <2>5, <1>p
    <3>2. Ended /\ told'.ok = FALSE /\ attempt' \in AttemptRecord
      BY <2>5, FailedIs, NoAttemptTyped DEF Failed
    <3>3. Writes(ResampleOutput[2], "absent") /\ trackDisk' \in [TrackPath -> FileState]
      BY <2>5, <1>t, <1>c, <1>s, <1>e, PutIs
    <3>4. FilesTyped'
      BY <2>5, <3>1, <3>2, <3>3, <1>n, <1>e, <1>t, PathIs DEF FilesTyped, Still
    <3>5. HandFollows
      BY <3>1, <3>2, <3>3, <1>f, <1>e DEF HandFollows, Handled, FileByPc, Writes, ConvertOutput,
         ResampleOutput, Ended
    <3>6. MadeFollows
      BY <3>1, <3>2, <3>3, <1>f, <1>e DEF MadeFollows, Conversion, Extension, Made, FileByPc,
             Writes,
         ConvertOutput, ResampleOutput, Ended
    <3>7. OthersKept /\ UNCHANGED <<finished, filesIndexed, fileCrashes>> /\ Failed
      BY <2>5, <3>1, <3>2, <3>3 DEF Writes
    <3>. QED BY <3>1, <3>4, <3>5, <3>6, <3>7, FailStep
  <2>. QED BY <1>8, <2>1, <2>2, <2>3, <2>4, <2>5 DEF RunResample
<1>9. CASE SetAside
  <2>1. CASE At("backup") /\ Moved(attempt.file, Backup) /\ To("place") /\ Still
    <3>1. attempt.pc = "backup"
      BY <2>1, <1>p
    <3>2. "place" \in AttemptPc
      BY DEF AttemptPc
    <3>3. Proceeds("place") /\ attempt' \in AttemptRecord
      BY <2>1, <3>2, <1>t, ToIs
    <3>4. /\ attempt.file = <<attempt.name, "flac">> /\ ResampleOutput = <<attempt.name, "resampling">>
         /\ trackDisk[<<attempt.name, "flac">>] \in Audible
      BY <3>1, <1>f, <1>e DEF FileByPc, WholeByPc, Solid, ResampleOutput
    <3>5. Moved(<<attempt.name, "flac">>, <<attempt.name, "backup">>) /\ "flac" \in Extension /\
            "backup" \in Extension
      BY <2>1, <3>4, <1>c, <1>e
    <3>6. /\ trackDisk' \in [TrackPath -> FileState] /\ OthersKept
         /\ trackDisk'[<<attempt.name, "backup">>] \in Audible /\
              trackDisk'[<<attempt.name, "flac">>] = "absent"
         /\ \A e \in Extension : e \notin {"backup", "flac"} => FileKept(e)
      BY <3>4, <3>5, <1>t, MovedIs
    <3>7. FilesTyped'
      BY <2>1, <3>1, <3>3, <3>4, <3>5, <3>6, <1>n, <1>e, <1>t, PathIs DEF FilesTyped, Still
    <3>8. FileByPc'
      BY <3>1, <3>3, <3>4, <3>5, <3>6, <1>f, <1>e, <1>c DEF FileByPc, NoPath, ConvertOutput,
         ResampleOutput, Proceeds
    <3>9. HandFollows
      BY <3>1, <3>3, <3>4, <3>5, <3>6, <1>f, <1>e DEF HandFollows, Handled, FileByPc, Writes,
         ConvertOutput, ResampleOutput, Proceeds
    <3>10. SolidFollows
      BY <3>1, <3>3, <3>4, <3>5, <3>6, <1>f, <1>e DEF SolidFollows, Solid, FileByPc, Writes,
         ConvertOutput, ResampleOutput, Proceeds
    <3>11. MadeFollows
      BY <3>1, <3>3, <3>4, <3>5, <3>6, <1>f, <1>e DEF MadeFollows, Conversion, Extension, Made,
         FileByPc, Writes, ConvertOutput, ResampleOutput, Proceeds
    <3>12. /\ OthersKept /\ UNCHANGED <<finished, filesIndexed, fileCrashes>>
          /\ attempt'.name = attempt.name /\ attempt'.pc \notin NothingYet \ {"receive", "give up"}
      BY <2>1, <3>1, <3>3, <3>4, <3>5, <3>6 DEF Writes, Proceeds, Still
    <3>. QED BY <3>1, <3>7, <3>8, <3>9, <3>10, <3>11, <3>12, WorkStep DEF FilesInv
  <2>2. CASE /\ At("backup") /\ Failed /\
                  trackDisk' = [trackDisk EXCEPT ![Backup] = "absent", ![ResampleOutput] = "absent"] /\
                  UNCHANGED <<finished, filesIndexed, attempts, fileCrashes>>
    <3>1. attempt.pc = "backup"
      BY <2>2, <1>p
    <3>2. Ended /\ told'.ok = FALSE /\ attempt' \in AttemptRecord
      BY <2>2, FailedIs, NoAttemptTyped DEF Failed
    <3>3. /\ attempt.file = <<attempt.name, "flac">> /\ ResampleOutput = <<attempt.name, "resampling">>
         /\ trackDisk[<<attempt.name, "flac">>] \in Audible
      BY <3>1, <1>f, <1>e DEF FileByPc, WholeByPc, Solid, ResampleOutput
    <3>4. /\ trackDisk' \in [TrackPath -> FileState] /\ OthersKept
         /\ trackDisk'[<<attempt.name, "backup">>] = "absent" /\
              trackDisk'[<<attempt.name, "resampling">>] = "absent"
         /\ \A e \in Extension : e \notin {"backup", "resampling"} => FileKept(e)
      BY <2>2, <3>3, <1>t, <1>c, <1>e, <1>n, <1>s, PathIs DEF FilesTyped, OthersKept, FileKept
    <3>5. FilesTyped'
      BY <2>2, <3>1, <3>2, <3>3, <3>4, <1>n, <1>e, <1>t, PathIs DEF FilesTyped, Still
    <3>6. HandFollows
      BY <3>1, <3>2, <3>3, <3>4, <1>f, <1>e DEF HandFollows, Handled, FileByPc, Writes,
             ConvertOutput,
         ResampleOutput, Ended
    <3>7. MadeFollows
      BY <3>1, <3>2, <3>3, <3>4, <1>f, <1>e DEF MadeFollows, Conversion, Extension, Made, FileByPc,
         Writes, ConvertOutput, ResampleOutput, Ended
    <3>8. OthersKept /\ UNCHANGED <<finished, filesIndexed, fileCrashes>> /\ Failed
      BY <2>2, <3>1, <3>2, <3>3, <3>4 DEF Writes
    <3>. QED BY <3>1, <3>5, <3>6, <3>7, <3>8, FailStep
  <2>. QED BY <1>9, <2>1, <2>2 DEF SetAside, FailsOnce
<1>10. CASE Place
  <2>1. CASE At("place") /\ Moved(ResampleOutput, attempt.file) /\ To("unback") /\ Still
    <3>1. attempt.pc = "place"
      BY <2>1, <1>p
    <3>2. "unback" \in AttemptPc
      BY DEF AttemptPc
    <3>3. Proceeds("unback") /\ attempt' \in AttemptRecord
      BY <2>1, <3>2, <1>t, ToIs
    <3>4. /\ attempt.file = <<attempt.name, "flac">> /\ ResampleOutput = <<attempt.name, "resampling">>
         /\ trackDisk[<<attempt.name, "backup">>] \in Audible /\
              trackDisk[<<attempt.name, "resampling">>] \in Audible
      BY <3>1, <1>f, <1>e DEF FileByPc, WholeByPc, Solid, ResampleOutput
    <3>5. Moved(<<attempt.name, "resampling">>, <<attempt.name, "flac">>) /\ "resampling" \in Extension /\
            "flac" \in Extension
      BY <2>1, <3>4, <1>c, <1>e
    <3>6. /\ trackDisk' \in [TrackPath -> FileState] /\ OthersKept
         /\ trackDisk'[<<attempt.name, "flac">>] \in Audible /\
              trackDisk'[<<attempt.name, "resampling">>] = "absent"
         /\ \A e \in Extension : e \notin {"flac", "resampling"} => FileKept(e)
      BY <3>4, <3>5, <1>t, MovedIs
    <3>7. FilesTyped'
      BY <2>1, <3>1, <3>3, <3>4, <3>5, <3>6, <1>n, <1>e, <1>t, PathIs DEF FilesTyped, Still
    <3>8. FileByPc'
      BY <3>1, <3>3, <3>4, <3>5, <3>6, <1>f, <1>e, <1>c DEF FileByPc, NoPath, ConvertOutput,
         ResampleOutput, Proceeds
    <3>9. HandFollows
      BY <3>1, <3>3, <3>4, <3>5, <3>6, <1>f, <1>e DEF HandFollows, Handled, FileByPc, Writes,
         ConvertOutput, ResampleOutput, Proceeds
    <3>10. SolidFollows
      BY <3>1, <3>3, <3>4, <3>5, <3>6, <1>f, <1>e DEF SolidFollows, Solid, FileByPc, Writes,
         ConvertOutput, ResampleOutput, Proceeds
    <3>11. MadeFollows
      BY <3>1, <3>3, <3>4, <3>5, <3>6, <1>f, <1>e DEF MadeFollows, Conversion, Extension, Made,
         FileByPc, Writes, ConvertOutput, ResampleOutput, Proceeds
    <3>12. /\ OthersKept /\ UNCHANGED <<finished, filesIndexed, fileCrashes>>
          /\ attempt'.name = attempt.name /\ attempt'.pc \notin NothingYet \ {"receive", "give up"}
      BY <2>1, <3>1, <3>3, <3>4, <3>5, <3>6 DEF Writes, Proceeds, Still
    <3>. QED BY <3>1, <3>7, <3>8, <3>9, <3>10, <3>11, <3>12, WorkStep DEF FilesInv
  <2>2. CASE /\ At("place") /\ Failed /\
                  trackDisk' = [trackDisk EXCEPT ![attempt.file] = trackDisk[Backup], ![Backup] = "absent",
                  ![ResampleOutput] = "absent"] /\
                  UNCHANGED <<finished, filesIndexed, attempts, fileCrashes>>
    <3>1. attempt.pc = "place"
      BY <2>2, <1>p
    <3>2. Ended /\ told'.ok = FALSE /\ attempt' \in AttemptRecord
      BY <2>2, FailedIs, NoAttemptTyped DEF Failed
    <3>3. /\ attempt.file = <<attempt.name, "flac">> /\ ResampleOutput = <<attempt.name, "resampling">>
         /\ trackDisk[<<attempt.name, "backup">>] \in Audible /\
              trackDisk[<<attempt.name, "resampling">>] \in Audible
      BY <3>1, <1>f, <1>e DEF FileByPc, WholeByPc, Solid, ResampleOutput
    <3>4. \A p \in TrackPath :
           trackDisk'[p] = IF p = <<attempt.name, "resampling">> THEN "absent"
                           ELSE IF p = <<attempt.name, "backup">> THEN "absent"
                           ELSE IF p = <<attempt.name, "flac">> THEN trackDisk[<<attempt.name, "backup">>] ELSE trackDisk[p]
      BY <2>2, <3>3, <1>t, <1>d DEF FilesTyped, Backup
    <3>4a. Landing \in TrackPath /\ Backup \in TrackPath /\ ResampleOutput \in TrackPath /\ Backup # Landing
      BY <1>c, <1>n, <1>e, PathIs
    <3>4b. trackDisk' \in [TrackPath -> FileState]
      BY <2>2, <3>3, <3>4a, <1>t, <1>s, <1>c DEF FilesTyped
    <3>5. /\ OthersKept /\ trackDisk'[<<attempt.name, "flac">>] \in Audible
         /\ trackDisk'[<<attempt.name, "backup">>] = "absent"
         /\ trackDisk'[<<attempt.name, "resampling">>] = "absent"
         /\ \A e \in Extension : e \notin {"flac", "backup", "resampling"} => FileKept(e)
      BY <3>3, <3>4, <1>n, <1>e, PathIs, ZenonT(40) DEF OthersKept, FileKept
    <3>6. FilesTyped'
      BY <2>2, <3>1, <3>2, <3>3, <3>4, <3>4b, <3>5, <1>n, <1>e, <1>t, PathIs DEF FilesTyped, Still
    <3>7. HandFollows
      BY <3>1, <3>2, <3>3, <3>4, <3>5, <1>f, <1>e DEF HandFollows, Handled, FileByPc, Writes,
         ConvertOutput, ResampleOutput, Ended
    <3>8. MadeFollows
      BY <3>1, <3>2, <3>3, <3>4, <3>5, <1>f, <1>e DEF MadeFollows, Conversion, Extension, Made,
         FileByPc, Writes, ConvertOutput, ResampleOutput, Ended
    <3>9. OthersKept /\ UNCHANGED <<finished, filesIndexed, fileCrashes>> /\ Failed
      BY <2>2, <3>1, <3>2, <3>3, <3>4, <3>5 DEF Writes
    <3>. QED BY <3>1, <3>6, <3>7, <3>8, <3>9, FailStep
  <2>. QED BY <1>10, <2>1, <2>2 DEF Place, FailsOnce
<1>11. CASE Unback
  <2>1. CASE At("unback") /\ Put(Backup, "absent") /\ To("convert") /\ Still
    <3>1. attempt.pc = "unback"
      BY <2>1, <1>p
    <3>2. "convert" \in AttemptPc
      BY DEF AttemptPc
    <3>3. Proceeds("convert") /\ attempt' \in AttemptRecord
      BY <2>1, <3>2, <1>t, ToIs
    <3>4. Writes("backup", "absent") /\ trackDisk' \in [TrackPath -> FileState]
      BY <2>1, <1>t, <1>c, <1>s, <1>e, PutIs
    <3>5. FilesTyped'
      BY <2>1, <3>1, <3>3, <3>4, <1>n, <1>e, <1>t, PathIs DEF FilesTyped, Still
    <3>6. FileByPc'
      BY <3>1, <3>3, <3>4, <1>f, <1>e, <1>c DEF FileByPc, NoPath, ConvertOutput, ResampleOutput,
             Proceeds
    <3>7. HandFollows
      BY <3>1, <3>3, <3>4, <1>f, <1>e DEF HandFollows, Handled, FileByPc, Writes, ConvertOutput,
         ResampleOutput, Proceeds
    <3>8. SolidFollows
      BY <3>1, <3>3, <3>4, <1>f, <1>e DEF SolidFollows, Solid, FileByPc, Writes, ConvertOutput,
         ResampleOutput, Proceeds
    <3>9. MadeFollows
      BY <3>1, <3>3, <3>4, <1>f, <1>e DEF MadeFollows, Conversion, Extension, Made, FileByPc,
             Writes,
         ConvertOutput, ResampleOutput, Proceeds
    <3>10. /\ OthersKept /\ UNCHANGED <<finished, filesIndexed, fileCrashes>>
          /\ attempt'.name = attempt.name /\ attempt'.pc \notin NothingYet \ {"receive", "give up"}
      BY <2>1, <3>1, <3>3, <3>4 DEF Writes, Proceeds, Still
    <3>. QED BY <3>1, <3>5, <3>6, <3>7, <3>8, <3>9, <3>10, WorkStep DEF FilesInv
  <2>. QED BY <1>11, <2>1 DEF Unback
<1>12. CASE RunConvert
  <2>1. CASE At("convert") /\ Put(ConvertOutput, "partial") /\ To("converting") /\ Still
    <3>1. attempt.pc = "convert"
      BY <2>1, <1>p
    <3>2. "converting" \in AttemptPc
      BY DEF AttemptPc
    <3>3. Proceeds("converting") /\ attempt' \in AttemptRecord
      BY <2>1, <3>2, <1>t, ToIs
    <3>4. Writes(ConvertOutput[2], "partial") /\ trackDisk' \in [TrackPath -> FileState]
      BY <2>1, <1>t, <1>c, <1>s, <1>e, PutIs
    <3>5. FilesTyped'
      BY <2>1, <3>1, <3>3, <3>4, <1>n, <1>e, <1>t, PathIs DEF FilesTyped, Still
    <3>6. FileByPc'
      BY <3>1, <3>3, <3>4, <1>f, <1>e, <1>c DEF FileByPc, NoPath, ConvertOutput, ResampleOutput,
             Proceeds
    <3>7. HandFollows
      BY <3>1, <3>3, <3>4, <1>f, <1>e DEF HandFollows, Handled, FileByPc, Writes, ConvertOutput,
         ResampleOutput, Proceeds
    <3>8. SolidFollows
      BY <3>1, <3>3, <3>4, <1>f, <1>e DEF SolidFollows, Solid, FileByPc, Writes, ConvertOutput,
         ResampleOutput, Proceeds
    <3>9. MadeFollows
      BY <3>1, <3>3, <3>4, <1>f, <1>e DEF MadeFollows, Conversion, Extension, Made, FileByPc,
             Writes,
         ConvertOutput, ResampleOutput, Proceeds
    <3>10. /\ OthersKept /\ UNCHANGED <<finished, filesIndexed, fileCrashes>>
          /\ attempt'.name = attempt.name /\ attempt'.pc \notin NothingYet \ {"receive", "give up"}
      BY <2>1, <3>1, <3>3, <3>4 DEF Writes, Proceeds, Still
    <3>. QED BY <3>1, <3>5, <3>6, <3>7, <3>8, <3>9, <3>10, WorkStep DEF FilesInv
  <2>2. CASE At("convert") /\ To("select") /\ Still /\ UNCHANGED trackDisk
    <3>1. attempt.pc = "convert"
      BY <2>2, <1>p
    <3>2. "select" \in AttemptPc
      BY DEF AttemptPc
    <3>3. Proceeds("select") /\ attempt' \in AttemptRecord
      BY <2>2, <3>2, <1>t, ToIs
    <3>4. trackDisk' = trackDisk /\ OthersKept /\ \A e \in Extension : FileKept(e)
      BY <2>2 DEF OthersKept, FileKept
    <3>5. FilesTyped'
      BY <2>2, <3>1, <3>3, <3>4, <1>n, <1>e, <1>t, PathIs DEF FilesTyped, Still
    <3>6. FileByPc'
      BY <3>1, <3>3, <3>4, <1>f, <1>e, <1>c DEF FileByPc, NoPath, ConvertOutput, ResampleOutput,
             Proceeds
    <3>7. HandFollows
      BY <3>1, <3>3, <3>4, <1>f, <1>e DEF HandFollows, Handled, FileByPc, Writes, ConvertOutput,
         ResampleOutput, Proceeds
    <3>8. SolidFollows
      BY <3>1, <3>3, <3>4, <1>f, <1>e DEF SolidFollows, Solid, FileByPc, Writes, ConvertOutput,
         ResampleOutput, Proceeds
    <3>9. MadeFollows
      BY <3>1, <3>3, <3>4, <1>f, <1>e DEF MadeFollows, Conversion, Extension, Made, FileByPc,
             Writes,
         ConvertOutput, ResampleOutput, Proceeds
    <3>10. /\ OthersKept /\ UNCHANGED <<finished, filesIndexed, fileCrashes>>
          /\ attempt'.name = attempt.name /\ attempt'.pc \notin NothingYet \ {"receive", "give up"}
      BY <2>2, <3>1, <3>3, <3>4 DEF Writes, Proceeds, Still
    <3>. QED BY <3>1, <3>5, <3>6, <3>7, <3>8, <3>9, <3>10, WorkStep DEF FilesInv
  <2>3. CASE At("converting") /\ Put(ConvertOutput, AsGoodAs(attempt.file)) /\ To("embed") /\ Still
    <3>1. attempt.pc = "converting"
      BY <2>3, <1>p
    <3>2. "embed" \in AttemptPc
      BY DEF AttemptPc
    <3>3. Proceeds("embed") /\ attempt' \in AttemptRecord
      BY <2>3, <3>2, <1>t, ToIs
    <3>4. Writes(ConvertOutput[2], AsGoodAs(attempt.file)) /\ trackDisk' \in [TrackPath -> FileState]
      BY <2>3, <1>t, <1>g, <1>c, <1>s, <1>e, PutIs
    <3>5. FilesTyped'
      BY <2>3, <3>1, <3>3, <3>4, <1>n, <1>e, <1>t, PathIs DEF FilesTyped, Still
    <3>6. FileByPc'
      BY <3>1, <3>3, <3>4, <1>f, <1>e, <1>c DEF FileByPc, NoPath, ConvertOutput, ResampleOutput,
             Proceeds
    <3>7. HandFollows
      BY <3>1, <3>3, <3>4, <1>f, <1>e, <1>g DEF HandFollows, Handled, FileByPc, Writes, ConvertOutput,
         ResampleOutput, Proceeds
    <3>8. SolidFollows
      BY <3>1, <3>3, <3>4, <1>f, <1>e, <1>g DEF SolidFollows, Solid, FileByPc, Writes, ConvertOutput,
         ResampleOutput, Proceeds
    <3>9. MadeFollows
      BY <3>1, <3>3, <3>4, <1>f, <1>e, <1>g DEF MadeFollows, Conversion, Extension, Made, FileByPc,
             Writes,
         ConvertOutput, ResampleOutput, Proceeds
    <3>10. /\ OthersKept /\ UNCHANGED <<finished, filesIndexed, fileCrashes>>
          /\ attempt'.name = attempt.name /\ attempt'.pc \notin NothingYet \ {"receive", "give up"}
      BY <2>3, <3>1, <3>3, <3>4 DEF Writes, Proceeds, Still
    <3>. QED BY <3>1, <3>5, <3>6, <3>7, <3>8, <3>9, <3>10, WorkStep DEF FilesInv
  <2>4. CASE /\ At("converting") /\ Put(ConvertOutput, "absent") /\ Failed /\
                  UNCHANGED <<finished, filesIndexed, attempts, fileCrashes, fileFaults>>
    <3>1. attempt.pc = "converting"
      BY <2>4, <1>p
    <3>2. Ended /\ told'.ok = FALSE /\ attempt' \in AttemptRecord
      BY <2>4, FailedIs, NoAttemptTyped DEF Failed
    <3>3. Writes(ConvertOutput[2], "absent") /\ trackDisk' \in [TrackPath -> FileState]
      BY <2>4, <1>t, <1>c, <1>s, <1>e, PutIs
    <3>4. FilesTyped'
      BY <2>4, <3>1, <3>2, <3>3, <1>n, <1>e, <1>t, PathIs DEF FilesTyped, Still
    <3>5. HandFollows
      BY <3>1, <3>2, <3>3, <1>f, <1>e DEF HandFollows, Handled, FileByPc, Writes, ConvertOutput,
         ResampleOutput, Ended
    <3>6. MadeFollows
      BY <3>1, <3>2, <3>3, <1>f, <1>e DEF MadeFollows, Conversion, Extension, Made, FileByPc,
             Writes,
         ConvertOutput, ResampleOutput, Ended
    <3>7. OthersKept /\ UNCHANGED <<finished, filesIndexed, fileCrashes>> /\ Failed
      BY <2>4, <3>1, <3>2, <3>3 DEF Writes
    <3>. QED BY <3>1, <3>4, <3>5, <3>6, <3>7, FailStep
  <2>. QED BY <1>12, <2>1, <2>2, <2>3, <2>4 DEF RunConvert
<1>13. CASE EmbedConverted
  <2>1. WriteTags(ConvertOutput, "embed", "writing embed", "original")
    BY <1>13 DEF EmbedConverted
  <2>2. attempt.pc \in {"embed", "writing embed"}
    BY <2>1, <1>p DEF WriteTags
  <2>3. ConvertOutput[2] \in Extension /\ ConvertOutput = <<attempt.name, ConvertOutput[2]>>
    BY <2>2, <1>c, <1>x
  <2>4. RewriteOf(ConvertOutput[2], "embed", "writing embed", "original")
    BY DEF RewriteOf
  <2>. QED BY <2>1, <2>3, <2>4, RewriteStep
<1>14. CASE RemoveOriginal
  <2>1. CASE /\ At("original") /\ Put(attempt.file, "absent") /\
                  attempt' = [attempt EXCEPT !.pc = "select", !.file = ConvertOutput] /\ Still
    <3>1. attempt.pc = "original"
      BY <2>1, <1>p
    <3>2. "select" \in AttemptPc
      BY DEF AttemptPc
    <3>3. attempt.file[2] \in {"flac", "labelled"} /\ attempt.original = <<attempt.name, "flac">>
      BY <3>1, <1>f DEF FileByPc
    <3>4. /\ attempt'.pc = "select" /\ attempt'.name = attempt.name /\ attempt'.set = attempt.set
         /\ attempt'.file = ConvertOutput /\ attempt'.original = attempt.original /\
              attempt' \in AttemptRecord
      BY <2>1, <3>2, <3>3, <1>t, <1>d DEF FilesTyped, AttemptRecord
    <3>5. Writes(attempt.file[2], "absent") /\ trackDisk' \in [TrackPath -> FileState]
      BY <2>1, <1>t, <1>c, <1>s, <1>e, PutIs, <1>x, <3>1
    <3>6. FilesTyped'
      BY <2>1, <3>1, <3>3, <3>4, <3>5, <1>n, <1>e, <1>t, PathIs DEF FilesTyped, Still
    <3>7. attempt'.file[2] = ConvertOutput[2] /\ attempt'.file # NoPath /\
            attempt'.file = <<attempt.name, attempt'.file[2]>>
      BY <2>1, <3>1, <3>3, <3>4, <3>5, <1>c, <1>d, NoPathIs
    <3>8. FileByPc'
      BY <2>1, <3>1, <3>3, <3>4, <3>5, <3>7, <1>e, <1>c DEF FileByPc, Conversion
    <3>9. HandFollows
      BY <3>1, <3>3, <3>4, <3>5, <3>7, <1>f, <1>e DEF HandFollows, Handled, FileByPc, Writes,
         ConvertOutput, ResampleOutput, Proceeds
    <3>10. SolidFollows
      BY <3>1, <3>3, <3>4, <3>5, <3>7, <1>f, <1>e DEF SolidFollows, Solid, FileByPc, Writes,
         ConvertOutput, ResampleOutput, Proceeds
    <3>11. MadeFollows
      BY <3>1, <3>3, <3>4, <3>5, <3>7, <1>f, <1>e DEF MadeFollows, Conversion, Extension, Made,
         FileByPc, Writes, ConvertOutput, ResampleOutput, Proceeds
    <3>12. /\ OthersKept /\ UNCHANGED <<finished, filesIndexed, fileCrashes>>
          /\ attempt'.name = attempt.name /\ attempt'.pc \notin NothingYet \ {"receive", "give up"}
      BY <2>1, <3>1, <3>3, <3>4, <3>5, <3>7 DEF Writes, Proceeds, Still
    <3>. QED BY <3>1, <3>6, <3>7, <3>8, <3>9, <3>10, <3>11, <3>12, WorkStep DEF FilesInv
  <2>2. CASE /\ At("original") /\ UNCHANGED trackDisk /\
                  attempt' = [attempt EXCEPT !.pc = "select", !.file = ConvertOutput] /\ Still
    <3>1. attempt.pc = "original"
      BY <2>2, <1>p
    <3>2. "select" \in AttemptPc
      BY DEF AttemptPc
    <3>3. attempt.file[2] \in {"flac", "labelled"} /\ attempt.original = <<attempt.name, "flac">>
      BY <3>1, <1>f DEF FileByPc
    <3>4. /\ attempt'.pc = "select" /\ attempt'.name = attempt.name /\ attempt'.set = attempt.set
         /\ attempt'.file = ConvertOutput /\ attempt'.original = attempt.original /\
              attempt' \in AttemptRecord
      BY <2>2, <3>2, <3>3, <1>t, <1>d DEF FilesTyped, AttemptRecord
    <3>5. trackDisk' = trackDisk /\ OthersKept /\ \A e \in Extension : FileKept(e)
      BY <2>2 DEF OthersKept, FileKept
    <3>6. FilesTyped'
      BY <2>2, <3>1, <3>3, <3>4, <3>5, <1>n, <1>e, <1>t, PathIs DEF FilesTyped, Still
    <3>7. attempt'.file[2] = ConvertOutput[2] /\ attempt'.file # NoPath /\
            attempt'.file = <<attempt.name, attempt'.file[2]>>
      BY <2>2, <3>1, <3>3, <3>4, <3>5, <1>c, <1>d, NoPathIs
    <3>8. FileByPc'
      BY <2>2, <3>1, <3>3, <3>4, <3>5, <3>7, <1>e, <1>c DEF FileByPc, Conversion
    <3>9. HandFollows
      BY <3>1, <3>3, <3>4, <3>5, <3>7, <1>f, <1>e DEF HandFollows, Handled, FileByPc, Writes,
         ConvertOutput, ResampleOutput, Proceeds
    <3>10. SolidFollows
      BY <3>1, <3>3, <3>4, <3>5, <3>7, <1>f, <1>e DEF SolidFollows, Solid, FileByPc, Writes,
         ConvertOutput, ResampleOutput, Proceeds
    <3>11. MadeFollows
      BY <3>1, <3>3, <3>4, <3>5, <3>7, <1>f, <1>e DEF MadeFollows, Conversion, Extension, Made,
         FileByPc, Writes, ConvertOutput, ResampleOutput, Proceeds
    <3>12. /\ OthersKept /\ UNCHANGED <<finished, filesIndexed, fileCrashes>>
          /\ attempt'.name = attempt.name /\ attempt'.pc \notin NothingYet \ {"receive", "give up"}
      BY <2>2, <3>1, <3>3, <3>4, <3>5, <3>7 DEF Writes, Proceeds, Still
    <3>. QED BY <3>1, <3>6, <3>7, <3>8, <3>9, <3>10, <3>11, <3>12, WorkStep DEF FilesInv
  <2>. QED BY <1>14, <2>1, <2>2 DEF RemoveOriginal
<1>15. CASE SelectTags
  <2>1. WriteTags(attempt.file, "select", "writing selection", "report")
    BY <1>15 DEF SelectTags
  <2>2. attempt.pc \in {"select", "writing selection"}
    BY <2>1, <1>p DEF WriteTags
  <2>3. attempt.file[2] \in Extension /\ attempt.file = <<attempt.name, attempt.file[2]>>
    BY <2>2, <1>c, <1>x
  <2>4. RewriteOf(attempt.file[2], "select", "writing selection", "report")
    BY DEF RewriteOf
  <2>. QED BY <2>1, <2>3, <2>4, RewriteStep
<1>16. CASE \E set \in AttemptSettings : Begin(set)
  <2>0. PICK set \in AttemptSettings : Begin(set)
    BY <1>16
  <2>1. attempt.pc = "none" /\ UNCHANGED <<trackDisk, finished, told, filesIndexed, fileCrashes>>
    BY <2>0, <1>p DEF Begin
  <2>2. "check" \in AttemptPc
    BY DEF AttemptPc
  <2>3. /\ attempt'.pc = "check" /\ attempt'.file = NoPath /\ attempt'.original = NoPath
        /\ attempt' \in AttemptRecord
    BY <2>0, <2>2, NoAttemptTyped DEF Begin, NoAttempt, AttemptRecord
  <2>4. FilesTyped'
    BY <2>1, <2>3 DEF FilesInv, FilesTyped
  <2>5. FileByPc' /\ WholeByPc'
    BY <2>3 DEF FileByPc, WholeByPc, Solid
  <2>6. CleanElsewhere' /\ ConvertedIsIndexed'
    BY <2>1, <2>3 DEF FilesInv, CleanElsewhere, ConvertedIsIndexed, Handled, Made
  <2>7. FinishedApart'
    BY <2>1, <2>3 DEF FilesInv, FinishedApart
  <2>8. ToldStays'
    BY <2>3 DEF ToldStays
  <2>. QED BY <2>4, <2>5, <2>6, <2>7, <2>8 DEF FilesInv
<1>17. CASE Report
  <2>1. attempt.pc = "report" /\ UNCHANGED <<trackDisk, fileCrashes>>
    BY <1>17, <1>p DEF Report
  <2>2. Ended /\ attempt' \in AttemptRecord
    BY <1>17, NoAttemptTyped DEF Report, Ended, NoAttempt
  <2>3. PICK e \in Extension \ Temporary : e = attempt.file[2]
    BY <2>1, <1>f DEF FileByPc
  <2>4. /\ attempt.file = <<attempt.name, e>> /\ attempt.original = <<attempt.name, "flac">>
        /\ trackDisk[<<attempt.name, e>>] \in Audible
        /\ e = "labelled" /\ trackDisk[<<attempt.name, e>>] = "whole" => trackDisk[<<attempt.name, "flac">>] = "whole"
    BY <2>1, <2>3, <1>f, <1>e DEF FileByPc, WholeByPc, Solid
  <2>5. /\ attempt.file \in TrackPath /\ finished' = finished \cup {q \in {<<attempt.name, e>>} : trackDisk[q] = "whole"}
        /\ told' = [ok |-> TRUE, found |-> FALSE, file |-> <<attempt.name, e>>]
        /\ filesIndexed' = filesIndexed \cup NotedFiles
        /\ NotedFiles = {p \in {<<attempt.name, e>>, <<attempt.name, "flac">>} : trackDisk[p] # "absent"}
    BY <1>17, <2>3, <2>4, <1>n, PathIs DEF Report, NotedFiles, Has
  <2>6. FilesTyped'
    <3>1. <<attempt.name, e>> \in TrackPath /\ <<attempt.name, "flac">> \in TrackPath
      BY <2>3, <1>n, <1>e, PathIs
    <3>2. NotedFiles \subseteq TrackPath
      BY <2>5, <3>1
    <3>. QED BY <2>1, <2>2, <2>5, <3>1, <3>2, <1>t DEF FilesTyped
  <2>7. FileByPc' /\ WholeByPc'
    BY <2>2 DEF FileByPc, WholeByPc, Solid, Ended
  <2>8. CleanElsewhere'
    BY <2>1, <2>2 DEF FilesInv, CleanElsewhere, Handled
  <2>9. FinishedApart'
    BY <2>1, <2>2, <2>3, <2>4, <2>5, <1>n DEF FilesInv, FinishedApart, Ended
  <2>10. fileCrashes = 0 => \A n \in Suffix, x \in Conversion :
            trackDisk[<<n, x>>] = "whole" => <<n, x>> \in filesIndexed'
    BY <2>1, <2>3, <2>4, <2>5 DEF FilesInv, ConvertedIsIndexed, Made
  <2>11. ConvertedIsIndexed'
    BY <2>1, <2>10 DEF ConvertedIsIndexed
  <2>12. fileCrashes = 0 => \A x \in Temporary : trackDisk[<<attempt.name, x>>] = "absent"
    BY <2>1, <1>n, <1>e DEF FilesInv, CleanElsewhere, Handled
  <2>13. fileCrashes = 0 => \A x \in Extension \ {"labelled"} :
            trackDisk[<<attempt.name, x>>] = "whole" => <<attempt.name, x>> \in filesIndexed'
    BY <2>5, <2>10, <2>12, <1>n, <1>e DEF Conversion
  <2>14. ToldStays'
    BY <2>1, <2>4, <2>5, <2>13 DEF ToldStays
  <2>. QED BY <2>6, <2>7, <2>8, <2>9, <2>11, <2>14 DEF FilesInv
<1>18. CASE FilesCrash
  <2>1. UNCHANGED <<trackDisk, finished, filesIndexed>> /\ fileCrashes' = fileCrashes + 1 /\ Failed
    BY <1>18 DEF FilesCrash
  <2>2. Ended /\ told'.ok = FALSE /\ attempt' \in AttemptRecord /\ fileCrashes' \in Nat /\ fileCrashes' # 0
    BY <2>1, <1>t, FailedIs, NoAttemptTyped DEF Failed, FilesTyped
  <2>3. FilesTyped'
    BY <2>1, <2>2 DEF FilesInv, FilesTyped
  <2>4. FileByPc' /\ WholeByPc'
    BY <2>2 DEF FileByPc, WholeByPc, Solid, Ended
  <2>5. CleanElsewhere' /\ ConvertedIsIndexed' /\ ToldStays'
    BY <2>2 DEF CleanElsewhere, ConvertedIsIndexed, ToldStays
  <2>6. FinishedApart'
    BY <2>1, <2>2 DEF FilesInv, FinishedApart, Ended
  <2>. QED BY <2>3, <2>4, <2>5, <2>6 DEF FilesInv
<1>20. CASE GiveUp
  <2>1. attempt.pc = "give up" /\ Failed /\ UNCHANGED <<trackDisk, finished, filesIndexed, fileCrashes>>
    BY <1>20, <1>p DEF GiveUp
  <2>2. Ended /\ told'.ok = FALSE /\ attempt' \in AttemptRecord
    BY <2>1, FailedIs, NoAttemptTyped DEF Failed
  <2>3. OthersKept /\ \A e \in Extension : FileKept(e)
    BY <2>1 DEF OthersKept, FileKept
  <2>4. FilesTyped'
    BY <2>1, <2>2, <1>t DEF FilesTyped
  <2>5. HandFollows /\ MadeFollows
    BY <2>1, <2>3, <1>e DEF HandFollows, Handled, MadeFollows, Made, Conversion
  <2>. QED BY <2>1, <2>3, <2>4, <2>5, FailStep
<1>21. CASE Uncover
  <2>1. attempt.pc = "uncover" /\ To("validate") /\ UNCHANGED <<trackDisk, finished, told, filesIndexed, fileCrashes>>
    BY <1>21, <1>p DEF Uncover
  <2>2. "validate" \in AttemptPc
    BY DEF AttemptPc
  <2>3. Proceeds("validate") /\ attempt' \in AttemptRecord
    BY <2>1, <2>2, <1>t, ToIs
  <2>4. OthersKept /\ \A e \in Extension : FileKept(e)
    BY <2>1 DEF OthersKept, FileKept
  <2>5. FilesTyped' /\ FileByPc'
    BY <2>1, <2>3, <1>t, <1>f DEF FilesTyped, FileByPc, Proceeds
  <2>6. HandFollows /\ MadeFollows
    BY <2>1, <2>4, <1>e DEF HandFollows, Handled, MadeFollows, Made, Conversion
  <2>7. SolidFollows
    BY <2>1, <2>3, <2>4, <1>f, <1>e DEF SolidFollows, Solid, FileByPc, Proceeds
  <2>. QED BY <2>1, <2>3, <2>4, <2>5, <2>6, <2>7, WorkStep DEF FilesInv, Proceeds
<1>19. CASE UNCHANGED filesVars \/ FetchCover
  <2>1. UNCHANGED <<trackDisk, attempt, told, finished, filesIndexed, fileCrashes>>
    BY <1>19 DEF filesVars, FetchCover
  <2>2. FilesTyped' /\ FileByPc' /\ ToldStays' /\ FinishedApart'
    BY <2>1 DEF FilesInv, FilesTyped, FileByPc, ToldStays, FinishedApart
  <2>3. UNCHANGED <<Solid, Handled, Made>>
    BY <2>1 DEF Solid, Handled, Made, ConvertOutput, ResampleOutput
  <2>4. WholeByPc' /\ CleanElsewhere' /\ ConvertedIsIndexed'
    BY <2>1, <2>3 DEF FilesInv, WholeByPc, CleanElsewhere, ConvertedIsIndexed
  <2>. QED BY <2>2, <2>4 DEF FilesInv
<1>. QED BY <1>1, <1>2, <1>3, <1>4, <1>5, <1>6, <1>7, <1>8, <1>9, <1>10, <1>11, <1>12, <1>13, <1>14,
            <1>15, <1>16, <1>17, <1>18, <1>19, <1>20, <1>21 DEF FilesNext

(* The inductive invariant holds in every state of the file steps.         *)
THEOREM FilesInvariant == FilesSpec => []FilesInv
<1>1. FilesInit => FilesInv
  <2>. SUFFICES ASSUME FilesInit PROVE FilesInv
    OBVIOUS
  <2>1. /\ attempt.pc = "none" /\ attempt.name = 0 /\ attempt.file = NoPath /\ attempt.original = NoPath
        /\ told.ok = FALSE /\ finished = {} /\ filesIndexed = {} /\ fileCrashes = 0
    BY DEF FilesInit, NoAttempt
  <2>2. \A n \in Suffix, e \in Extension : trackDisk[<<n, e>>] = "absent"
    BY PathIs DEF FilesInit
  <2>3. FilesTyped
    BY <2>1, NoAttemptTyped DEF FilesInit, FilesTyped, FileState
  <2>4. FileByPc /\ WholeByPc
    BY <2>1 DEF FileByPc, WholeByPc, Solid, NothingYet, HasLanded, Converts, Reports
  <2>5. CleanElsewhere /\ FinishedApart /\ ToldStays
    BY <2>1, <2>2 DEF CleanElsewhere, FinishedApart, ToldStays
  <2>6. \A e \in Conversion : e \in Extension
    BY DEF Conversion, Extension
  <2>7. ConvertedIsIndexed
    BY <2>2, <2>6 DEF ConvertedIsIndexed
  <2>. QED BY <2>3, <2>4, <2>5, <2>7 DEF FilesInv
<1>2. FilesInv /\ [FilesNext]_filesVars => FilesInv'
  BY FilesStep
<1>. QED BY <1>1, <1>2, PTL DEF FilesSpec

(* Every path is absent, in part, damaged or whole there, and an attempt that
   has its file has it under its own name (TrackFiles's TrackFilesTypeOK). *)
THEOREM FilesTypeCorrect == FilesSpec => []TrackFilesTypeOK
<1>1. FilesInv => TrackFilesTypeOK
  BY DEF FilesInv, FilesTyped, FileByPc, AttemptRecord, FileState, Audible, TrackFilesTypeOK, Landing
<1>. QED BY <1>1, FilesInvariant, PTL

(* Once a download is found good, its audio is on disk at every moment but
   during the two rewrites in place, whole or as a failed rewrite has left it:
   through the resampling in place by way of a backup, and the conversion that
   removes its original. *)
THEOREM AudioStaysOnDisk == FilesSpec => []AudioIsKept
<1>1. FilesInv => AudioIsKept
  <2>. SUFFICES ASSUME FilesInv,
                  attempt.pc \in {"lyrics", "resample", "resampling", "backup", "place", "unback",
                    "convert",
                       "converting", "embed", "writing embed", "original", "select", "report"}
                PROVE  \E e \in Extension : trackDisk[<<attempt.name, e>>] \in Audible /\
                         attempt.name \in Suffix
    BY PathIs DEF AudioIsKept, WholeOf
  <2>1. attempt.name \in Suffix
    BY DEF FilesInv, FilesTyped, AttemptRecord
  <2>2. {"backup", "flac", "labelled"} \subseteq Extension /\ Extension \ Temporary \subseteq Extension
    BY DEF Extension
  <2>3. CASE attempt.pc = "place"
    BY <2>1, <2>2, <2>3 DEF FilesInv, WholeByPc, Solid, Temporary
  <2>4. CASE attempt.pc # "place"
    <3>1. attempt.file[2] \in Extension
      BY <2>2, <2>4 DEF FilesInv, FileByPc, NothingYet, HasLanded, Converts, Reports
    <3>2. attempt.file[2] \in Solid
      BY <3>1, <2>4 DEF Solid, NothingYet, Rewrites
    <3>. QED BY <2>1, <3>1, <3>2 DEF FilesInv, WholeByPc
  <2>. QED BY <2>3, <2>4
<1>. QED BY <1>1, FilesInvariant, PTL

(* What an attempt reports is there, and whole but for a failed rewrite.   *)
THEOREM ToldFilesAreWhole == FilesSpec => []ToldIsWhole
<1>1. FilesInv => ToldIsWhole
  BY DEF FilesInv, ToldStays, ToldIsWhole, At
<1>. QED BY <1>1, FilesInvariant, PTL

(* The cover that is fetched beside the gateway: nobody fetches one but an
   attempt that has not come past its tags, none is in hand while those are
   written or it is removed, and every other is as the attempts have left it. *)
Fetching == {"create", "receive", "give up", "tag", "writing tags", "uncover"}

CoverInv ==
    /\ covers \in [Suffix -> FileState]
    /\ attempt.pc \notin Fetching => fetch = "none"
    /\ attempt.pc \in {"writing tags", "uncover"} => CoverIsIn
    /\ fileCrashes = 0 => \A n \in Suffix :
            covers[n] \in {"absent", "damaged"} \/ (n = attempt.name /\ fetch \in {"writing", "sent"})

(* Every step keeps that.                                                  *)
LEMMA CoverStep == ASSUME FilesInv, FilesInv', CoverInv, [FilesNext]_filesVars PROVE CoverInv'
<1>t. attempt \in AttemptRecord /\ attempt.name \in Suffix /\ fileCrashes \in Nat
  BY DEF FilesInv, FilesTyped, AttemptRecord
<1>s. {"absent", "partial", "whole", "damaged"} = FileState
  BY DEF FileState
<1>z. NoAttempt.pc = "none"
  BY DEF NoAttempt
<1>n. \A is \in FileState : CoverIs(is) =>
        covers' \in [Suffix -> FileState] /\ covers'[attempt.name] = is /\ \A n \in Suffix \ {attempt.name} : covers'[n] = covers[n]
  BY <1>t DEF CoverInv, CoverIs
<1>1. CASE fetch = "none" /\ UNCHANGED <<covers, fetch, fileCrashes>> /\ attempt'.pc \notin {"writing tags", "uncover"}
  BY <1>1 DEF CoverInv
<1>2. CASE UNCHANGED <<covers, fetch, fileCrashes>> /\ attempt'.name = attempt.name /\ attempt.pc \in Fetching /\ attempt'.pc \in Fetching
           /\ (attempt'.pc \in {"writing tags", "uncover"} => CoverIsIn)
  BY <1>2 DEF CoverInv, CoverIsIn
<1>3. CASE Uncovered /\ UNCHANGED fileCrashes /\ CoverIsIn
  <2>1. fetch' = "none" /\ (fetch = "sent" => CoverIs("absent")) /\ (fetch # "sent" => covers' = covers)
    BY <1>3 DEF Uncovered
  <2>2. fetch # "writing"
    BY <1>3 DEF CoverIsIn
  <2>. QED BY <2>1, <2>2, <1>3, <1>n, <1>s DEF CoverInv, CoverIsIn
<1>4. CASE FetchCover
  <2>1. attempt' = attempt /\ fileCrashes' = fileCrashes /\ ~CoverIsIn /\ fetch # "none"
    BY <1>4 DEF FetchCover, CoverIsIn
  <2>2. \/ fetch' = "writing" /\ CoverIs("partial")
        \/ fetch' = "failed" /\ fetch = "asked" /\ covers' = covers
        \/ fetch' = "sent" /\ CoverIs("whole")
        \/ fetch' = "failed" /\ CoverIs("damaged")
    BY <1>4 DEF FetchCover
  <2>. QED BY <2>1, <2>2, <1>n, <1>s DEF CoverInv
<1>5. CASE FilesCrash
  <2>1. attempt'.pc = "none" /\ fetch' = "none" /\ covers' = covers
    BY <1>5, <1>z DEF FilesCrash, Failed
  <2>2. fileCrashes' # 0
    BY <1>5, <1>t DEF FilesCrash
  <2>. QED BY <2>1, <2>2 DEF CoverInv
<1>6. CASE Resolve
  <2>1. attempt.pc = "resolve" /\ fetch = "none" /\ UNCHANGED <<covers, fileCrashes>>
    BY <1>6, <1>t, <1>z DEF At, To, AttemptRecord, Resolve, FoundAt, CoverInv, Fetching
  <2>2. attempt'.pc = "create" \/ (attempt'.pc = "none" /\ fetch' = "none")
    BY <1>6, <1>t, <1>z, <2>1 DEF Resolve, FoundAt, AttemptRecord
  <2>. QED BY <2>1, <2>2 DEF CoverInv, Fetching
<1>7. CASE Uncover \/ GiveUp
  <2>1. Uncovered /\ UNCHANGED fileCrashes /\ CoverIsIn
    BY <1>7, <1>t, <1>z DEF At, To, AttemptRecord, Uncover, GiveUp, CoverInv
  <2>. QED BY <1>3, <2>1
<1>8. CASE Create
  BY <1>2, <1>8, <1>t, <1>z DEF At, To, AttemptRecord, Create, Still, Fetching
<1>9. CASE Receive
  <2>1. attempt'.name = attempt.name /\ attempt'.pc \in {"tag", "give up"} /\ attempt.pc = "receive"
    BY <1>9, <1>t, <1>z DEF At, To, Receive, AttemptRecord
  <2>. QED BY <1>2, <1>9, <2>1 DEF Receive, Still, Fetching
<1>10. CASE TagFile
  BY <1>2, <1>10, <1>t, <1>z DEF At, To, AttemptRecord, TagFile, WriteTags, Still, Fetching
<1>11. CASE UNCHANGED filesVars
  BY <1>11 DEF filesVars, CoverInv, CoverIsIn
<1>12. CASE \/ \E set \in AttemptSettings : Begin(set)
            \/ LookForFile \/ Validate \/ EmbedLyrics \/ RunResample \/ SetAside \/ Place \/ Unback
            \/ RunConvert \/ EmbedConverted \/ RemoveOriginal \/ SelectTags \/ Report
  <2>. DEFINE Quiet == UNCHANGED <<covers, fetch, fileCrashes>>
                       /\ attempt.pc \notin Fetching /\ attempt'.pc \notin {"writing tags", "uncover"}
  <2>1. ASSUME \E set \in AttemptSettings : Begin(set) PROVE Quiet
    BY <2>1, <1>t, <1>z DEF At, To, Begin, Still, Failed, AttemptRecord, Fetching
  <2>2. ASSUME LookForFile PROVE Quiet
    BY <2>2, <1>t, <1>z DEF At, To, LookForFile, FoundAt, Still, Failed, AttemptRecord, Fetching
  <2>3. ASSUME Validate PROVE Quiet
    BY <2>3, <1>t, <1>z DEF At, To, Validate, Still, Failed, AttemptRecord, Fetching
  <2>4. ASSUME EmbedLyrics PROVE Quiet
    BY <2>4, <1>t, <1>z DEF At, To, EmbedLyrics, WriteTags, Still, Failed, AttemptRecord, Fetching
  <2>5. ASSUME RunResample PROVE Quiet
    BY <2>5, <1>t, <1>z DEF At, To, RunResample, Still, Failed, AttemptRecord, Fetching
  <2>6. ASSUME SetAside PROVE Quiet
    BY <2>6, <1>t, <1>z DEF At, To, SetAside, Still, Failed, AttemptRecord, Fetching
  <2>7. ASSUME Place PROVE Quiet
    BY <2>7, <1>t, <1>z DEF At, To, Place, Still, Failed, AttemptRecord, Fetching
  <2>8. ASSUME Unback PROVE Quiet
    BY <2>8, <1>t, <1>z DEF At, To, Unback, Still, Failed, AttemptRecord, Fetching
  <2>9. ASSUME RunConvert PROVE Quiet
    BY <2>9, <1>t, <1>z DEF At, To, RunConvert, Still, Failed, AttemptRecord, Fetching
  <2>10. ASSUME EmbedConverted PROVE Quiet
    BY <2>10, <1>t, <1>z DEF At, To, EmbedConverted, WriteTags, Still, Failed, AttemptRecord, Fetching
  <2>11. ASSUME RemoveOriginal PROVE Quiet
    BY <2>11, <1>t, <1>z DEF At, To, RemoveOriginal, Still, Failed, AttemptRecord, Fetching
  <2>12. ASSUME SelectTags PROVE Quiet
    BY <2>12, <1>t, <1>z DEF At, To, SelectTags, WriteTags, Still, Failed, AttemptRecord, Fetching
  <2>13. ASSUME Report PROVE Quiet
    BY <2>13, <1>t, <1>z DEF At, To, Report, Still, Failed, AttemptRecord, Fetching
  <2>14. Quiet
    BY <1>12, <2>1, <2>2, <2>3, <2>4, <2>5, <2>6, <2>7, <2>8, <2>9, <2>10, <2>11, <2>12, <2>13
  <2>. QED BY <1>1, <2>14 DEF CoverInv
<1>. QED BY <1>4, <1>5, <1>6, <1>7, <1>8, <1>9, <1>10, <1>11, <1>12 DEF FilesNext

(* Without a crash nothing half done is left of attempts that failed, and no
   cover but one whose download failed after it had begun to write. *)
THEOREM FailedAttemptsCleanUp == FilesSpec => []FailuresCleanUp
<1>1. FilesInit => CoverInv
  BY DEF FilesInit, CoverInv, NoAttempt, FileState, CoverIsIn
<1>2. FilesInv /\ FilesInv' /\ CoverInv /\ [FilesNext]_filesVars => CoverInv'
  BY CoverStep
<1>3. FilesInv /\ CoverInv => FailuresCleanUp
  <2>. SUFFICES ASSUME FilesInv, CoverInv, attempt.pc = "none", fileCrashes = 0
                PROVE  /\ \A p \in TrackPath : trackDisk[p] # "partial" /\ (p[2] \in {"resampling", "backup"} => ~Has(p))
                       /\ \A n \in Suffix : covers[n] \in {"absent", "damaged"}
    BY DEF FailuresCleanUp, At
  <2>1. \A p \in TrackPath : p = <<p[1], p[2]>> /\ p[1] \in Suffix /\ p[2] \in Extension
    BY PathSplit
  <2>2. Handled = {}
    BY DEF Handled, Rewrites
  <2>3. \A p \in TrackPath : trackDisk[p] # "partial" /\ (p[2] \in {"resampling", "backup"} => ~Has(p))
    BY <2>1, <2>2 DEF FilesInv, CleanElsewhere, Has, Temporary
  <2>4. \A n \in Suffix : covers[n] \in {"absent", "damaged"}
    BY DEF CoverInv, Fetching
  <2>. QED BY <2>3, <2>4
<1>. QED BY <1>1, <1>2, <1>3, FilesInvariant, PTL DEF FilesSpec

(* Downloading again does not take away what an earlier attempt reported,
   but for conversions whose original was removed. *)
THEOREM ReportedFilesStay == FilesSpec => []EarlierIsKept
<1>1. FilesInv => EarlierIsKept
  <2>. SUFFICES ASSUME FilesInv, NEW p \in finished, p[2] \notin {"converted", "labelled converted"}
                PROVE  trackDisk[p] = "whole"
    BY DEF EarlierIsKept
  <2>1. p \in TrackPath
    BY DEF FilesInv, FilesTyped
  <2>2. p = <<p[1], p[2]>> /\ p[1] \in Suffix /\ p[2] \in Extension
    BY <2>1, PathSplit
  <2>3. p[2] \notin Temporary
    BY <2>2 DEF FilesInv, FinishedApart
  <2>4. p[2] \in {"flac", "labelled"}
    BY <2>2, <2>3 DEF Extension, Temporary
  <2>. QED BY <2>2, <2>4 DEF FilesInv, FinishedApart
<1>. QED BY <1>1, FilesInvariant, PTL

(* Whole audio that a finished attempt has left is in the index.           *)
THEOREM LeftFilesAreIndexed == FilesSpec => []LeftIsIndexed
<1>1. FilesInv => LeftIsIndexed
  <2>. SUFFICES ASSUME FilesInv, attempt.pc = "none", told.ok, ~told.found, fileCrashes = 0,
                       NEW p \in WholeOf(told.file[1]), p[2] # "labelled"
                PROVE  p \in filesIndexed
    BY DEF LeftIsIndexed, At
  <2>1. p = <<told.file[1], p[2]>> /\ p[2] \in Extension /\ trackDisk[p] = "whole"
    BY PathSplit DEF WholeOf
  <2>. QED BY <2>1 DEF FilesInv, ToldStays
<1>. QED BY <1>1, FilesInvariant, PTL

-----------------------------------------------------------------------------
Left(s) == {s[k] : k \in DOMAIN s}

RenResult == [old : FileName, new : FileName \cup {NoName}, ok : BOOLEAN]

(* Every request has a list of different names, and moves the first.       *)
RenTyped ==
    /\ RenTypeOK /\ slippedIn \in BOOLEAN /\ landings \in Nat
    /\ expected \in [FileName -> FileName \cup {NoName}]
    /\ renamed \in [Renamer -> Seq(RenResult)]
    /\ toRename \in [Renamer -> Seq(FileName)]
    /\ \A r \in Renamer : \A i, j \in DOMAIN toRename[r] : toRename[r][i] = toRename[r][j] => i = j
    /\ \A r \in Renamer : renPc[r] = "checked" =>
            toRename[r] # <<>> /\ newName[r][2] = Head(toRename[r])[2]

(* A name that was found free is free, unless something slipped in.        *)
FreeStays == ~slippedIn => \A r \in Renamer : renPc[r] = "checked" =>
                newName[r] = Head(toRename[r]) \/ folder[newName[r]] = NoSong

(* What a result of a request alone says is so, and stays so: nothing it still
   has to do is under the names it speaks of. *)
HoldsFor(r, result) ==
    /\ result.new = expected[result.old]
    /\ expected[result.old] # NoName /\ result.ok
            => /\ folder[result.new] # NoSong /\ NameFor(folder[result.new]) = result.new
               /\ result.new \notin Left(toRename[r])
    /\ ~result.ok => /\ folder[result.old] # NoSong /\ PreviewOf(result.old) = expected[result.old]
                     /\ result.old \notin Left(toRename[r])

AsPreviewed(r) ==
    /\ ~slippedIn
    /\ \A n \in Left(toRename[r]) : folder[n] # NoSong /\ PreviewOf(n) = expected[n]
    /\ renPc[r] = "checked" => newName[r] = expected[Head(toRename[r])]
    /\ \A i \in DOMAIN renamed[r] : HoldsFor(r, renamed[r][i])

RenInv ==
    /\ RenTyped /\ NoSongIsLost /\ FreeStays
    /\ \A r \in Renamer : Alone(r) => AsPreviewed(r)
-----------------------------------------------------------------------------
(* A list without its first name. *)
LEMMA TailIs ==
    ASSUME NEW S, NEW s \in Seq(S), s # <<>>, \A i, j \in DOMAIN s : s[i] = s[j] => i = j
    PROVE  /\ Tail(s) \in Seq(S) /\ Head(s) \in S /\ Head(s) \in Left(s)
           /\ \A i, j \in DOMAIN Tail(s) : Tail(s)[i] = Tail(s)[j] => i = j
           /\ Left(Tail(s)) = Left(s) \ {Head(s)}
  <1>1. Len(s) \in Nat /\ Len(s) >= 1 /\ DOMAIN s = 1..Len(s) /\ Head(s) = s[1] OBVIOUS
  <1>2. Tail(s) \in Seq(S) /\ Head(s) \in S OBVIOUS
  <1>3. Len(Tail(s)) = Len(s) - 1 /\ DOMAIN Tail(s) = 1..(Len(s) - 1)
    BY <1>1
  <1>4. \A i \in 1..(Len(s) - 1) : Tail(s)[i] = s[i + 1] /\ i + 1 \in 1..Len(s)
    BY <1>1
  <1>5. \A i, j \in DOMAIN Tail(s) : Tail(s)[i] = Tail(s)[j] => i = j
    BY <1>1, <1>3, <1>4
  <1>6. ASSUME NEW x \in Left(Tail(s)) PROVE x \in Left(s) /\ x # Head(s)
    <2>1. PICK k \in 1..(Len(s) - 1) : x = Tail(s)[k] BY <1>3 DEF Left
    <2>2. x = s[k + 1] /\ k + 1 \in 1..Len(s) /\ k + 1 # 1 BY <2>1, <1>4
    <2> QED BY <2>2, <1>1 DEF Left
  <1>7. ASSUME NEW x \in Left(s), x # Head(s) PROVE x \in Left(Tail(s))
    <2>1. PICK k \in 1..Len(s) : x = s[k] BY <1>1 DEF Left
    <2>2. k - 1 \in 1..(Len(s) - 1) BY <2>1, <1>1, <1>7
    <2>3. x = Tail(s)[k - 1] BY <2>1, <2>2, <1>4
    <2> QED BY <2>2, <2>3, <1>3 DEF Left
  <1>8. Head(s) \in Left(s) BY <1>1 DEF Left
  <1> QED BY <1>2, <1>5, <1>6, <1>7, <1>8

(* Results with one more. *)
LEMMA AppendIs ==
    ASSUME NEW S, NEW s \in Seq(S), NEW x \in S
    PROVE  /\ Append(s, x) \in Seq(S) /\ Append(s, x) # <<>>
           /\ \A i \in DOMAIN Append(s, x) : Append(s, x)[i] = x
                                           \/ (i \in DOMAIN s /\ Append(s, x)[i] = s[i])
  OBVIOUS

(* The name that tags give keeps the file's extension. *)
LEMMA NameShape ==
    ASSUME NEW s \in Song
    PROVE  /\ NoName \notin FileName
           /\ NameFor(s) \in FileName \cup {NoName}
           /\ NameFor(s) # NoName => NameFor(s) \in FileName /\ NameFor(s)[2] = KindOf[s]
  BY RenamingAssumption DEF NoName, FileName, NameFor, Generated

(* A preview names a song that is there, with the extension it has.        *)
LEMMA PreviewIs ==
    ASSUME RenTypeOK, NEW n \in FileName
    PROVE  /\ PreviewOf(n) \in FileName \cup {NoName}
           /\ PreviewOf(n) # NoName
                => /\ folder[n] \in Song /\ folder[n] # NoSong
                   /\ PreviewOf(n) = NameFor(folder[n])
                   /\ PreviewOf(n) \in FileName /\ PreviewOf(n)[2] = n[2]
  <1>1. folder[n] = NoSong \/ folder[n] \in Song BY DEF RenTypeOK
  <1>2. CASE folder[n] = NoSong BY <1>2 DEF PreviewOf
  <1>3. CASE folder[n] # NoSong
    <2>1. folder[n] \in Song /\ n[2] = KindOf[folder[n]] BY <1>1, <1>3 DEF RenTypeOK, Names
    <2> QED BY <2>1, <1>3, NameShape DEF PreviewOf
  <1> QED BY <1>2, <1>3

(* What a request knows of the first name of its list. *)
LEMMA FirstIs ==
    ASSUME RenTyped, NEW r \in Renamer, toRename[r] # <<>>
    PROVE  /\ Head(toRename[r]) \in FileName /\ Head(toRename[r]) \in Left(toRename[r])
           /\ Tail(toRename[r]) \in Seq(FileName)
           /\ \A i, j \in DOMAIN Tail(toRename[r]) :
                    Tail(toRename[r])[i] = Tail(toRename[r])[j] => i = j
           /\ Left(Tail(toRename[r])) = Left(toRename[r]) \ {Head(toRename[r])}
  <1>1. toRename[r] \in Seq(FileName) BY DEF RenTyped
  <1>2. \A i, j \in DOMAIN toRename[r] : toRename[r][i] = toRename[r][j] => i = j BY DEF RenTyped
  <1> QED BY <1>1, <1>2, TailIs, Zenon

(* A step that finishes with a name leaves the other requests alone. *)
LEMMA FinishIs ==
    ASSUME RenTyped, NEW r \in Renamer, toRename[r] # <<>>,
           NEW result \in RenResult, Finish(r, result)
    PROVE  /\ renamed' \in [Renamer -> Seq(RenResult)]
           /\ toRename' \in [Renamer -> Seq(FileName)]
           /\ \A o \in Renamer : \A i, j \in DOMAIN toRename'[o] :
                    toRename'[o][i] = toRename'[o][j] => i = j
           /\ renPc' \in [Renamer -> {"next", "checked"}] /\ renPc'[r] = "next"
           /\ toRename'[r] = Tail(toRename[r]) /\ renamed'[r] # <<>>
           /\ \A i \in DOMAIN renamed'[r] : renamed'[r][i] = result
                                          \/ (i \in DOMAIN renamed[r] /\ renamed'[r][i] = renamed[r][i])
           /\ \A o \in Renamer \ {r} : renPc'[o] = renPc[o] /\ toRename'[o] = toRename[o]
                                       /\ renamed'[o] = renamed[o]
  <1>1. /\ renamed \in [Renamer -> Seq(RenResult)] /\ toRename \in [Renamer -> Seq(FileName)]
        /\ renPc \in [Renamer -> {"next", "checked"}]
    BY DEF RenTyped, RenTypeOK
  <1>2. renamed'[r] = Append(renamed[r], result) /\ toRename'[r] = Tail(toRename[r]) /\ renPc'[r] = "next"
    BY <1>1 DEF Finish
  <1>3. \A o \in Renamer \ {r} : renPc'[o] = renPc[o] /\ toRename'[o] = toRename[o] /\
          renamed'[o] = renamed[o]
    BY <1>1 DEF Finish
  <1>4. /\ renamed'[r] \in Seq(RenResult) /\ renamed'[r] # <<>>
        /\ \A i \in DOMAIN renamed'[r] : renamed'[r][i] = result
                                       \/ (i \in DOMAIN renamed[r] /\ renamed'[r][i] = renamed[r][i])
    <2>1. renamed[r] \in Seq(RenResult) BY <1>1
    <2>2. /\ Append(renamed[r], result) \in Seq(RenResult) /\ Append(renamed[r], result) # <<>>
          /\ \A i \in DOMAIN Append(renamed[r], result) :
                \/ Append(renamed[r], result)[i] = result
                \/ i \in DOMAIN renamed[r] /\ Append(renamed[r], result)[i] = renamed[r][i]
      BY <2>1, AppendIs
    <2> HIDE DEF RenResult
    <2> QED BY <2>2, <1>2
  <1>5. renamed' \in [Renamer -> Seq(RenResult)]
    BY <1>1, <1>2, <1>4 DEF Finish
  <1>6. Tail(toRename[r]) \in Seq(FileName) BY FirstIs, Zenon
  <1>7. toRename' \in [Renamer -> Seq(FileName)] BY <1>1, <1>6 DEF Finish
  <1>8. ASSUME NEW o \in Renamer, NEW i \in DOMAIN toRename'[o], NEW j \in DOMAIN toRename'[o],
               toRename'[o][i] = toRename'[o][j]
        PROVE  i = j
    <2>1. CASE o = r BY <1>2, <1>8, <2>1, FirstIs, Zenon
    <2>2. CASE o # r
      <3>1. toRename'[o] = toRename[o] BY <1>3, <2>2, Zenon
      <3> QED BY <3>1, <1>8, Zenon DEF RenTyped
    <2> QED BY <2>1, <2>2
  <1>9. renPc' \in [Renamer -> {"next", "checked"}] BY <1>1 DEF Finish
  <1> QED BY <1>2, <1>3, <1>4, <1>5, <1>7, <1>8, <1>9

(* A file that moves takes its song along, and leaves the other names as they
   are. *)
LEMMA MovedToIs ==
    ASSUME RenTypeOK, NEW old \in FileName, NEW new \in FileName,
           folder[old] # NoSong, old[2] = new[2], folder' = MovedTo(old, new)
    PROVE  /\ folder' \in [FileName -> Song \cup {NoSong}]
           /\ folder'[new] = folder[old]
           /\ \A n \in FileName \ {old, new} : folder'[n] = folder[n]
           /\ old # new => folder'[old] = NoSong
           /\ \A n \in Names' : n[2] = KindOf[folder'[n]]
           /\ Present' \subseteq Present
           /\ (new = old \/ folder[new] = NoSong) => Present' = Present
  <1>1. folder \in [FileName -> Song \cup {NoSong}] BY DEF RenTypeOK
  <1>2. /\ folder' \in [FileName -> Song \cup {NoSong}]
        /\ folder'[new] = folder[old]
        /\ \A n \in FileName \ {old, new} : folder'[n] = folder[n]
        /\ old # new => folder'[old] = NoSong
    BY <1>1 DEF MovedTo
  <1>3. \A n \in FileName : folder[n] # NoSong => n[2] = KindOf[folder[n]]
    BY DEF RenTypeOK, Names
  <1>4. ASSUME NEW n \in Names' PROVE n[2] = KindOf[folder'[n]]
    <2>1. n \in FileName /\ folder'[n] # NoSong BY <1>4 DEF Names
    <2> QED BY <2>1, <1>2, <1>3
  <1>5. Present' \subseteq Present
    BY <1>2 DEF Present
  <1>6. ASSUME new = old \/ folder[new] = NoSong, NEW s \in Present PROVE s \in Present'
    <2>1. PICK n \in FileName : folder[n] = s /\ s # NoSong BY <1>6 DEF Present
    <2>2. n = old \/ folder'[n] = s BY <2>1, <1>2, <1>6
    <2>3. \E o \in FileName : folder'[o] = s BY <2>1, <2>2, <1>2
    <2> QED BY <2>1, <2>3 DEF Present
  <1> QED BY <1>2, <1>4, <1>5, <1>6

(* The move of a request, when its file is there. *)
LEMMA MoveIs ==
    ASSUME RenTyped, NEW r \in Renamer, MoveFile(r)
    PROVE  /\ toRename[r] # <<>> /\ newName[r] \in FileName /\ Head(toRename[r]) \in FileName
           /\ newName[r][2] = Head(toRename[r])[2]
           /\ Result(Head(toRename[r]), newName[r], TRUE) \in RenResult
           /\ Result(Head(toRename[r]), newName[r], FALSE) \in RenResult
  <1>1. renPc[r] = "checked" BY DEF MoveFile
  <1>2. newName[r] \in FileName /\ toRename[r] # <<>> /\ newName[r][2] = Head(toRename[r])[2]
    BY <1>1 DEF RenTyped, RenTypeOK
  <1>3. Head(toRename[r]) \in FileName BY <1>2, FirstIs, Zenon
  <1> QED BY <1>2, <1>3 DEF Result, RenResult

(* What a request that looks has before it. *)
LEMMA LookIs ==
    ASSUME RenTyped, NEW r \in Renamer, LookAtName(r) \/ CannotName(r)
    PROVE  /\ toRename[r] # <<>> /\ Head(toRename[r]) \in FileName /\ renPc[r] = "next"
           /\ PreviewOf(Head(toRename[r])) \in FileName \cup {NoName}
           /\ PreviewOf(Head(toRename[r])) # NoName =>
                /\ folder[Head(toRename[r])] # NoSong
                /\ PreviewOf(Head(toRename[r])) \in FileName
                /\ PreviewOf(Head(toRename[r]))[2] = Head(toRename[r])[2]
           /\ Result(Head(toRename[r]), PreviewOf(Head(toRename[r])), FALSE) \in RenResult
  <1>1. toRename[r] # <<>> /\ renPc[r] = "next" BY DEF LookAtName, CannotName
  <1>2. Head(toRename[r]) \in FileName BY <1>1, FirstIs, Zenon
  <1>3. RenTypeOK BY DEF RenTyped
  <1>4. /\ PreviewOf(Head(toRename[r])) \in FileName \cup {NoName}
        /\ PreviewOf(Head(toRename[r])) # NoName =>
                /\ folder[Head(toRename[r])] # NoSong
                /\ PreviewOf(Head(toRename[r])) \in FileName
                /\ PreviewOf(Head(toRename[r]))[2] = Head(toRename[r])[2]
    BY <1>2, <1>3, PreviewIs, Zenon
  <1> QED BY <1>1, <1>2, <1>4 DEF Result, RenResult

(* What stays typed when a request is done with a name. *)
LEMMA TypedFinish ==
    ASSUME RenTyped, NEW r \in Renamer, toRename[r] # <<>>,
           NEW result \in RenResult, Finish(r, result),
           newName' = [newName EXCEPT ![r] = NoName],
           folder' \in [FileName -> Song \cup {NoSong}],
           \A n \in Names' : n[2] = KindOf[folder'[n]],
           Present' \subseteq Present, UNCHANGED <<expected, stored, landings>>,
           slippedIn' \in BOOLEAN
    PROVE  RenTyped'
  <1>1. RenTypeOK BY DEF RenTyped
  <1>2. newName' \in [Renamer -> FileName \cup {NoName}] BY <1>1 DEF RenTypeOK
  <1>3. newName'[r] = NoName /\ \A o \in Renamer \ {r} : newName'[o] = newName[o]
    BY <1>1 DEF RenTypeOK
  <1>4. /\ renamed' \in [Renamer -> Seq(RenResult)]
        /\ toRename' \in [Renamer -> Seq(FileName)]
        /\ \A o \in Renamer : \A i, j \in DOMAIN toRename'[o] : toRename'[o][i] = toRename'[o][j] => i = j
        /\ renPc' \in [Renamer -> {"next", "checked"}] /\ renPc'[r] = "next"
        /\ \A o \in Renamer \ {r} : renPc'[o] = renPc[o] /\ toRename'[o] = toRename[o]
    BY FinishIs, Zenon
  <1>5. \A o \in Renamer : newName'[o] # NoName <=> renPc'[o] = "checked"
    BY <1>1, <1>3, <1>4 DEF RenTypeOK
  <1>6. Present' \subseteq stored' /\ stored' \subseteq Song BY <1>1 DEF RenTypeOK
  <1>7. RenTypeOK' BY <1>2, <1>4, <1>5, <1>6 DEF RenTypeOK
  <1>8. ASSUME NEW o \in Renamer, renPc'[o] = "checked"
        PROVE  toRename'[o] # <<>> /\ newName'[o][2] = Head(toRename'[o])[2]
    <2>1. o # r BY <1>4, <1>8
    <2>2. newName'[o] = newName[o] /\ toRename'[o] = toRename[o] /\ renPc'[o] = renPc[o]
      BY <1>3, <1>4, <2>1
    <2> QED BY <2>2, <1>8 DEF RenTyped
  <1>9. expected' \in [FileName -> FileName \cup {NoName}] /\ landings' \in Nat BY DEF RenTyped
  <1> QED BY <1>4, <1>7, <1>8, <1>9 DEF RenTyped

(* Names, songs and lists keep to their types. *)
LEMMA RenTypedStep == ASSUME RenTyped, RenNext PROVE RenTyped'
  <1>1. RenTypeOK BY DEF RenTyped
  <1>2. ASSUME NEW r \in Renamer, CannotName(r) PROVE RenTyped'
    <2>1. toRename[r] # <<>> /\ renPc[r] = "next" /\ Head(toRename[r]) \in FileName BY <1>2, LookIs
    <2>2. Result(Head(toRename[r]), NoName, FALSE) \in RenResult BY <2>1 DEF Result, RenResult
    <2>3. newName' = [newName EXCEPT ![r] = NoName]
      <3>1. newName \in [Renamer -> FileName \cup {NoName}] /\ newName[r] = NoName
        BY <1>1, <2>1 DEF RenTypeOK
      <3>2. newName' = newName BY <1>2 DEF CannotName
      <3> QED BY <3>1, <3>2
    <2>4. Finish(r, Result(Head(toRename[r]), NoName, FALSE)) /\
            UNCHANGED <<folder, expected, stored, landings, slippedIn>>
      BY <1>2 DEF CannotName
    <2>5. /\ folder' \in [FileName -> Song \cup {NoSong}] /\ \A n \in Names' : n[2] = KindOf[folder'[n]]
          /\ Present' \subseteq Present /\ slippedIn' \in BOOLEAN
      BY <1>1, <2>4 DEF RenTypeOK, Names, Present, RenTyped
    <2> QED BY <2>1, <2>2, <2>3, <2>4, <2>5, TypedFinish
  <1>3. ASSUME NEW r \in Renamer, LookAtName(r) PROVE RenTyped'
    <2> DEFINE old == Head(toRename[r])
               new == PreviewOf(old)
    <2>1. /\ toRename[r] # <<>> /\ renPc[r] = "next" /\ old \in FileName
          /\ new # NoName => new \in FileName /\ new[2] = old[2]
          /\ Result(old, new, FALSE) \in RenResult
      BY <1>3, LookIs
    <2>2. UNCHANGED <<folder, expected, stored, landings, slippedIn>> /\ new # NoName
      BY <1>3 DEF LookAtName
    <2>3. /\ folder' \in [FileName -> Song \cup {NoSong}] /\ \A n \in Names' : n[2] = KindOf[folder'[n]]
          /\ Present' \subseteq Present /\ slippedIn' \in BOOLEAN
      BY <1>1, <2>2 DEF RenTypeOK, Names, Present, RenTyped
    <2>4. CASE Finish(r, Result(old, new, FALSE)) /\ UNCHANGED newName
      <3>1. newName' = [newName EXCEPT ![r] = NoName]
        <4>1. newName \in [Renamer -> FileName \cup {NoName}] /\ newName[r] = NoName
          BY <1>1, <2>1 DEF RenTypeOK
        <4> QED BY <4>1, <2>4
      <3> HIDE DEF new
      <3> QED BY <2>1, <2>2, <2>3, <2>4, <3>1, TypedFinish
    <2>5. CASE /\ newName' = [newName EXCEPT ![r] = new]
               /\ renPc' = [renPc EXCEPT ![r] = "checked"]
               /\ UNCHANGED <<toRename, renamed>>
      <3> HIDE DEF new, old
      <3>1. /\ newName \in [Renamer -> FileName \cup {NoName}]
            /\ renPc \in [Renamer -> {"next", "checked"}]
        BY <1>1 DEF RenTypeOK
      <3>2. /\ newName' \in [Renamer -> FileName \cup {NoName}] /\
                 renPc' \in [Renamer -> {"next", "checked"}]
            /\ newName'[r] = new /\ renPc'[r] = "checked"
            /\ \A o \in Renamer \ {r} : newName'[o] = newName[o] /\ renPc'[o] = renPc[o]
        BY <2>1, <2>2, <2>5, <3>1
      <3>3. \A o \in Renamer : newName'[o] # NoName <=> renPc'[o] = "checked"
        BY <1>1, <3>2, <2>2 DEF RenTypeOK
      <3>4. Present' \subseteq stored' /\ stored' \subseteq Song
        BY <1>1, <2>2 DEF RenTypeOK, Present
      <3>5. RenTypeOK' BY <2>3, <3>2, <3>3, <3>4 DEF RenTypeOK
      <3>6. ASSUME NEW o \in Renamer, renPc'[o] = "checked"
            PROVE  toRename'[o] # <<>> /\ newName'[o][2] = Head(toRename'[o])[2]
        <4>1. CASE o = r BY <4>1, <2>1, <2>2, <2>5, <3>2 DEF old
        <4>2. CASE o # r
          <5>1. newName'[o] = newName[o] /\ renPc[o] = "checked" /\ toRename'[o] = toRename[o]
            BY <3>2, <3>6, <4>2, <2>5
          <5> QED BY <5>1 DEF RenTyped
        <4> QED BY <4>1, <4>2
      <3>7. /\ expected' \in [FileName -> FileName \cup {NoName}] /\ landings' \in Nat
            /\ renamed' \in [Renamer -> Seq(RenResult)] /\ toRename' \in [Renamer -> Seq(FileName)]
            /\ \A o \in Renamer : \A i, j \in DOMAIN toRename'[o] : toRename'[o][i] = toRename'[o][j] =>
                 i = j
        <4>1. UNCHANGED <<expected, landings, renamed, toRename>> BY <2>2, <2>5
        <4> QED BY <4>1 DEF RenTyped
      <3> QED BY <2>3, <3>5, <3>6, <3>7 DEF RenTyped
    <2>6. \/ Finish(r, Result(old, new, FALSE)) /\ UNCHANGED newName
          \/ /\ newName' = [newName EXCEPT ![r] = new]
             /\ renPc' = [renPc EXCEPT ![r] = "checked"]
             /\ UNCHANGED <<toRename, renamed>>
      BY <1>3 DEF LookAtName
    <2> QED BY <2>4, <2>5, <2>6
  <1>4. ASSUME NEW r \in Renamer, MoveFile(r) PROVE RenTyped'
    <2> DEFINE old == Head(toRename[r])
               new == newName[r]
    <2>1. /\ toRename[r] # <<>> /\ new \in FileName /\ old \in FileName /\ new[2] = old[2]
          /\ Result(old, new, TRUE) \in RenResult /\ Result(old, new, FALSE) \in RenResult
      BY <1>4, MoveIs
    <2>2. newName' = [newName EXCEPT ![r] = NoName] /\ UNCHANGED <<expected, stored, landings>>
      BY <1>4 DEF MoveFile
    <2>3. CASE folder[old] = NoSong /\ Finish(r, Result(old, new, FALSE)) /\ UNCHANGED <<folder, slippedIn>>
      <3>1. /\ folder' \in [FileName -> Song \cup {NoSong}] /\ \A n \in Names' : n[2] = KindOf[folder'[n]]
            /\ Present' \subseteq Present /\ slippedIn' \in BOOLEAN
        BY <1>1, <2>3 DEF RenTypeOK, Names, Present, RenTyped
      <3> QED BY <2>1, <2>2, <2>3, <3>1, TypedFinish
    <2>4. CASE /\ folder[old] # NoSong /\ folder' = MovedTo(old, new)
               /\ slippedIn' = (slippedIn \/ FoundFree(new, Renamer \ {r}))
               /\ Finish(r, Result(old, new, TRUE))
      <3>1. /\ folder' \in [FileName -> Song \cup {NoSong}] /\ \A n \in Names' : n[2] = KindOf[folder'[n]]
            /\ Present' \subseteq Present
        <4> HIDE DEF old, new
        <4> QED BY <1>1, <2>1, <2>4, MovedToIs
      <3>2. slippedIn' \in BOOLEAN BY <2>4 DEF RenTyped
      <3> QED BY <2>1, <2>2, <2>4, <3>1, <3>2, TypedFinish
    <2>5. \/ folder[old] = NoSong /\ Finish(r, Result(old, new, FALSE)) /\ UNCHANGED <<folder, slippedIn>>
          \/ /\ folder[old] # NoSong /\ folder' = MovedTo(old, new)
             /\ slippedIn' = (slippedIn \/ FoundFree(new, Renamer \ {r}))
             /\ Finish(r, Result(old, new, TRUE))
      BY <1>4 DEF MoveFile
    <2> QED BY <2>3, <2>4, <2>5
  <1>5. ASSUME NEW n \in FileName, NEW s \in Song, Land(n, s) PROVE RenTyped'
    <2>1. /\ folder' = [folder EXCEPT ![n] = s] /\ stored' = stored \cup {s} /\ n[2] = KindOf[s]
          /\ UNCHANGED <<toRename, renPc, newName, renamed, expected>>
          /\ slippedIn' = (slippedIn \/ FoundFree(n, Renamer)) /\ landings' = landings + 1
      BY <1>5 DEF Land
    <2>2. folder' \in [FileName -> Song \cup {NoSong}] /\
            \A o \in FileName : folder'[o] = IF o = n THEN s ELSE folder[o]
      BY <1>1, <2>1 DEF RenTypeOK
    <2>3. \A o \in FileName : folder[o] # NoSong => o[2] = KindOf[folder[o]]
      BY <1>1 DEF RenTypeOK, Names
    <2>4. \A o \in Names' : o[2] = KindOf[folder'[o]] BY <2>1, <2>2, <2>3 DEF Names
    <2>5. Present' \subseteq stored' /\ stored' \subseteq Song
      BY <1>1, <2>1, <2>2 DEF RenTypeOK, Present
    <2>6. RenTypeOK' BY <1>1, <2>1, <2>2, <2>4, <2>5 DEF RenTypeOK
    <2>7. slippedIn' \in BOOLEAN BY <2>1 DEF RenTyped
    <2>8. landings' \in Nat BY <2>1 DEF RenTyped
    <2> QED BY <2>1, <2>6, <2>7, <2>8 DEF RenTyped
  <1> QED BY <1>2, <1>3, <1>4, <1>5 DEF RenNext

(* A move that goes to a free name, or to its own. *)
LEMMA MoveIsFree ==
    ASSUME FreeStays, ~slippedIn, NEW r \in Renamer, MoveFile(r)
    PROVE  newName[r] = Head(toRename[r]) \/ folder[newName[r]] = NoSong
  BY DEF FreeStays, MoveFile

(* No two names hold the same song, and none is lost. *)
LEMMA SongsStep == ASSUME RenTyped, NoSongIsLost, FreeStays, RenNext PROVE NoSongIsLost'
  <1>1. RenTypeOK /\ slippedIn \in BOOLEAN BY DEF RenTyped
  <1>2. ASSUME UNCHANGED <<folder, slippedIn, stored>> PROVE NoSongIsLost'
    BY <1>2 DEF NoSongIsLost, Names, Present
  <1>3. ASSUME NEW r \in Renamer, MoveFile(r), folder' = MovedTo(Head(toRename[r]), newName[r]),
               folder[Head(toRename[r])] # NoSong,
               slippedIn' = (slippedIn \/ FoundFree(newName[r], Renamer \ {r}))
        PROVE  NoSongIsLost'
    <2> DEFINE old == Head(toRename[r])
               new == newName[r]
    <2>1. new \in FileName /\ old \in FileName /\ new[2] = old[2] BY <1>3, MoveIs
    <2>2. stored' = stored BY <1>3 DEF MoveFile
    <2>3. ~slippedIn => new = old \/ folder[new] = NoSong BY <1>3, MoveIsFree
    <2> HIDE DEF old, new
    <2>4. folder' = MovedTo(old, new) /\ folder[old] # NoSong BY <1>3 DEF old, new
    <2>5. /\ folder'[new] = folder[old]
          /\ \A n \in FileName \ {old, new} : folder'[n] = folder[n]
          /\ old # new => folder'[old] = NoSong
          /\ (new = old \/ folder[new] = NoSong) => Present' = Present
      BY <1>1, <2>1, <2>4, MovedToIs
    <2>6. \A n, o \in FileName : folder[n] # NoSong /\ folder[n] = folder[o] => n = o
      BY DEF NoSongIsLost, Names
    <2>7. ASSUME NEW n \in FileName, NEW o \in FileName, folder'[n] # NoSong, folder'[n] = folder'[o]
          PROVE  n = o
      BY <2>1, <2>4, <2>5, <2>6, <2>7
    <2>8. ~slippedIn' => Present' = stored'
      <3>1. ~slippedIn' => ~slippedIn BY <1>3
      <3> QED BY <3>1, <2>2, <2>3, <2>5 DEF NoSongIsLost
    <2> QED BY <2>7, <2>8 DEF NoSongIsLost, Names
  <1>4. ASSUME NEW n \in FileName, NEW s \in Song, Land(n, s) PROVE NoSongIsLost'
    <2>1. /\ folder' = [folder EXCEPT ![n] = s] /\ stored' = stored \cup {s}
          /\ s \notin stored /\ folder[n] = NoSong /\ s # NoSong
          /\ slippedIn' = (slippedIn \/ FoundFree(n, Renamer))
      BY <1>4, RenamingAssumption DEF Land
    <2>2. \A o \in FileName : folder'[o] = IF o = n THEN s ELSE folder[o]
      BY <1>1, <2>1 DEF RenTypeOK
    <2>3. \A o \in FileName : folder[o] # s BY <1>1, <2>1 DEF RenTypeOK, Present
    <2>4. \A o, p \in FileName : folder[o] # NoSong /\ folder[o] = folder[p] => o = p
      BY DEF NoSongIsLost, Names
    <2>5. \A o, p \in FileName : folder'[o] # NoSong /\ folder'[o] = folder'[p] => o = p
      BY <2>2, <2>3, <2>4
    <2>6. Present' = Present \cup {s}
      BY <2>1, <2>2 DEF Present
    <2>7. ~slippedIn' => Present' = stored'
      <3>1. ~slippedIn' => ~slippedIn BY <2>1
      <3> QED BY <2>1, <2>6, <3>1 DEF NoSongIsLost
    <2> QED BY <2>5, <2>7 DEF NoSongIsLost, Names
  <1>5. ASSUME NEW r \in Renamer, CannotName(r) \/ LookAtName(r) PROVE NoSongIsLost'
    BY <1>2, <1>5 DEF CannotName, LookAtName
  <1>6. ASSUME NEW r \in Renamer, MoveFile(r) PROVE NoSongIsLost'
    <2>1. stored' = stored BY <1>6 DEF MoveFile
    <2>2. \/ UNCHANGED <<folder, slippedIn>>
          \/ /\ folder' = MovedTo(Head(toRename[r]), newName[r])
             /\ folder[Head(toRename[r])] # NoSong
             /\ slippedIn' = (slippedIn \/ FoundFree(newName[r], Renamer \ {r}))
      BY <1>6 DEF MoveFile
    <2> QED BY <1>2, <1>3, <1>6, <2>1, <2>2
  <1> QED BY <1>4, <1>5, <1>6 DEF RenNext

(* A name that was found free stays free until somebody slips in. *)
LEMMA FreeStep == ASSUME RenTyped, FreeStays, RenNext PROVE FreeStays'
  <1>1. RenTypeOK /\ slippedIn \in BOOLEAN BY DEF RenTyped
  <1> SUFFICES ASSUME ~slippedIn', NEW o \in Renamer, renPc'[o] = "checked"
               PROVE  newName'[o] = Head(toRename'[o]) \/ folder'[newName'[o]] = NoSong
    BY DEF FreeStays
  <1>2. ASSUME ~slippedIn, renPc[o] = "checked"
        PROVE  newName[o] = Head(toRename[o]) \/ folder[newName[o]] = NoSong
    BY <1>2 DEF FreeStays
  <1>3. ASSUME NEW r \in Renamer, CannotName(r) \/ LookAtName(r)
        PROVE  newName'[o] = Head(toRename'[o]) \/ folder'[newName'[o]] = NoSong
    <2> DEFINE old == Head(toRename[r])
               new == PreviewOf(old)
    <2>1. /\ toRename[r] # <<>> /\ old \in FileName /\ renPc[r] = "next"
          /\ Result(old, new, FALSE) \in RenResult
      BY <1>3, LookIs
    <2>2. UNCHANGED <<folder, slippedIn>> BY <1>3 DEF CannotName, LookAtName
    <2>3. CASE Finish(r, Result(old, NoName, FALSE)) /\ UNCHANGED newName
      <3>1. Result(old, NoName, FALSE) \in RenResult BY <2>1 DEF Result, RenResult
      <3>2. o # r /\ renPc[o] = "checked" /\ toRename'[o] = toRename[o]
        <4> HIDE DEF old
        <4>1. renPc'[r] = "next" /\ \A p \in Renamer \ {r} : renPc'[p] = renPc[p] /\
                toRename'[p] = toRename[p]
          BY <2>1, <2>3, <3>1, FinishIs, Zenon
        <4> QED BY <4>1
      <3> QED BY <1>2, <2>2, <2>3, <3>2
    <2>4. CASE Finish(r, Result(old, new, FALSE)) /\ UNCHANGED newName
      <3>2. o # r /\ renPc[o] = "checked" /\ toRename'[o] = toRename[o]
        <4> HIDE DEF old, new
        <4>1. renPc'[r] = "next" /\ \A p \in Renamer \ {r} : renPc'[p] = renPc[p] /\
                toRename'[p] = toRename[p]
          BY <2>1, <2>4, FinishIs, Zenon
        <4> QED BY <4>1
      <3> QED BY <1>2, <2>2, <2>4, <3>2
    <2>5. CASE /\ IsFree(old, new) /\ newName' = [newName EXCEPT ![r] = new]
               /\ renPc' = [renPc EXCEPT ![r] = "checked"] /\ toRename' = toRename
      <3> HIDE DEF new
      <3>1. newName'[r] = new /\ (o # r => newName'[o] = newName[o] /\ renPc'[o] = renPc[o])
        BY <1>1, <2>5 DEF RenTypeOK
      <3>2. CASE o = r BY <2>2, <2>5, <3>1, <3>2 DEF IsFree
      <3>3. CASE o # r BY <1>2, <2>2, <2>5, <3>1, <3>3
      <3> QED BY <3>2, <3>3
    <2> QED BY <1>3, <2>3, <2>4, <2>5 DEF CannotName, LookAtName
  <1>4. ASSUME NEW r \in Renamer, MoveFile(r)
        PROVE  newName'[o] = Head(toRename'[o]) \/ folder'[newName'[o]] = NoSong
    <2> DEFINE old == Head(toRename[r])
               new == newName[r]
    <2>1. /\ toRename[r] # <<>> /\ new \in FileName /\ old \in FileName /\ new[2] = old[2]
          /\ Result(old, new, TRUE) \in RenResult /\ Result(old, new, FALSE) \in RenResult
      BY <1>4, MoveIs
    <2>2. PICK result \in {Result(old, new, TRUE), Result(old, new, FALSE)} :
             /\ Finish(r, result)
             /\ newName' = [newName EXCEPT ![r] = NoName]
             /\ \/ UNCHANGED <<folder, slippedIn>>
                \/ /\ folder[old] # NoSong /\ folder' = MovedTo(old, new)
                   /\ slippedIn' = (slippedIn \/ FoundFree(new, Renamer \ {r}))
      BY <1>4 DEF MoveFile
    <2> HIDE DEF old, new
    <2>3. o # r /\ renPc[o] = "checked" /\ toRename'[o] = toRename[o]
      <3>1. result \in RenResult BY <2>1
      <3>2. renPc'[r] = "next" /\ \A p \in Renamer \ {r} : renPc'[p] = renPc[p] /\
              toRename'[p] = toRename[p]
        BY <2>1, <2>2, <3>1, FinishIs, Zenon
      <3> QED BY <3>2
    <2>4. newName'[o] = newName[o] /\ newName[o] \in FileName
      BY <1>1, <2>2, <2>3 DEF RenTypeOK
    <2>5. CASE UNCHANGED <<folder, slippedIn>> BY <1>2, <2>3, <2>4, <2>5
    <2>6. CASE /\ folder[old] # NoSong /\ folder' = MovedTo(old, new)
               /\ slippedIn' = (slippedIn \/ FoundFree(new, Renamer \ {r}))
      <3>1. newName[o] # new BY <2>3, <2>6 DEF FoundFree
      <3>2. ~slippedIn BY <2>6
      <3>3. newName[o] = Head(toRename[o]) \/ folder'[newName[o]] = NoSong
        <4>1. /\ \A n \in FileName \ {old, new} : folder'[n] = folder[n]
              /\ old # new => folder'[old] = NoSong
          BY <1>1, <2>1, <2>6, MovedToIs
        <4> QED BY <1>2, <2>3, <2>4, <3>1, <3>2, <4>1
      <3> QED BY <2>3, <2>4, <3>3
    <2> QED BY <2>2, <2>5, <2>6
  <1>5. ASSUME NEW n \in FileName, NEW s \in Song, Land(n, s)
        PROVE  newName'[o] = Head(toRename'[o]) \/ folder'[newName'[o]] = NoSong
    <2>1. /\ folder' = [folder EXCEPT ![n] = s] /\ slippedIn' = (slippedIn \/ FoundFree(n, Renamer))
          /\ UNCHANGED <<toRename, renPc, newName>>
      BY <1>5 DEF Land
    <2>2. newName[o] # n /\ ~slippedIn BY <2>1 DEF FoundFree
    <2>3. folder'[newName[o]] = folder[newName[o]] BY <1>1, <2>1, <2>2 DEF RenTypeOK
    <2> QED BY <1>2, <2>1, <2>2, <2>3
  <1> QED BY <1>3, <1>4, <1>5 DEF RenNext

(* A request that is alone after a step was alone before it, and made it. *)
LEMMA AloneStep ==
    ASSUME RenTyped, RenNext, NEW r \in Renamer, Alone(r)'
    PROVE  Alone(r) /\ (CannotName(r) \/ LookAtName(r) \/ MoveFile(r))
  <1>1. landings' = 0 /\ \A o \in Renamer \ {r} : renamed'[o] = <<>> /\ renPc'[o] = "next"
    BY DEF Alone
  <1>2. ASSUME NEW n \in FileName, NEW s \in Song, Land(n, s) PROVE FALSE
    BY <1>1, <1>2 DEF Land, RenTyped
  <1>3. PICK p \in Renamer : CannotName(p) \/ LookAtName(p) \/ MoveFile(p)
    BY <1>2 DEF RenNext
  <1>4. ASSUME NEW result \in RenResult, toRename[p] # <<>>, Finish(p, result) PROVE p = r /\ Alone(r)
    <2>1. /\ renamed'[p] # <<>>
          /\ \A o \in Renamer \ {p} : renPc'[o] = renPc[o] /\ renamed'[o] = renamed[o]
      BY <1>4, FinishIs, Zenon
    <2>2. p = r BY <1>1, <2>1
    <2>3. landings = 0 BY <1>1, <1>3 DEF CannotName, LookAtName, MoveFile
    <2> QED BY <1>1, <2>1, <2>2, <2>3 DEF Alone
  <1>5. CASE CannotName(p) \/ LookAtName(p)
    <2> DEFINE old == Head(toRename[p])
               new == PreviewOf(old)
    <2>1. /\ toRename[p] # <<>> /\ old \in FileName
          /\ Result(old, new, FALSE) \in RenResult
      BY <1>5, LookIs
    <2>2. Result(old, NoName, FALSE) \in RenResult BY <2>1 DEF Result, RenResult
    <2>3. CASE renPc' = [renPc EXCEPT ![p] = "checked"] /\ UNCHANGED <<renamed, landings>>
      <3>1. renPc'[p] = "checked" /\ \A o \in Renamer \ {p} : renPc'[o] = renPc[o]
        BY <2>3 DEF RenTyped, RenTypeOK
      <3>2. p = r BY <1>1, <3>1
      <3> QED BY <1>1, <1>5, <2>3, <3>1, <3>2 DEF Alone
    <2>4. CASE Finish(p, Result(old, new, FALSE))
      <3> HIDE DEF new
      <3> QED BY <1>4, <1>5, <2>1, <2>4
    <2>5. CASE Finish(p, Result(old, NoName, FALSE))
      BY <1>4, <1>5, <2>1, <2>2, <2>5
    <2> QED BY <1>5, <2>3, <2>4, <2>5 DEF CannotName, LookAtName
  <1>6. CASE MoveFile(p)
    <2>1. /\ toRename[p] # <<>>
          /\ Result(Head(toRename[p]), newName[p], TRUE) \in RenResult
          /\ Result(Head(toRename[p]), newName[p], FALSE) \in RenResult
      BY <1>6, MoveIs
    <2>2. \E result \in {Result(Head(toRename[p]), newName[p], TRUE),
                         Result(Head(toRename[p]), newName[p], FALSE)} : Finish(p, result)
      BY <1>6 DEF MoveFile
    <2> QED BY <1>4, <1>6, <2>1, <2>2
  <1> QED BY <1>3, <1>5, <1>6

(* A result on record is one of a name. *)
LEMMA ResultIs ==
    ASSUME RenTyped, NEW r \in Renamer, NEW i \in DOMAIN renamed[r]
    PROVE  /\ renamed[r][i].old \in FileName /\ renamed[r][i].new \in FileName \cup {NoName}
           /\ renamed[r][i].ok \in BOOLEAN
  <1>1. renamed[r] \in Seq(RenResult) BY DEF RenTyped
  <1>2. renamed[r][i] \in RenResult
    <2> HIDE DEF RenResult
    <2> QED BY <1>1
  <1> QED BY <1>2 DEF RenResult

(* A result without a move: everything it says is as it was. *)
LEMMA NotMoved ==
    ASSUME RenTyped, NEW r \in Renamer, AsPreviewed(r), toRename[r] # <<>>,
           NEW new \in FileName \cup {NoName}, new = expected[Head(toRename[r])],
           Finish(r, Result(Head(toRename[r]), new, FALSE)),
           UNCHANGED <<folder, expected, slippedIn>>
    PROVE  AsPreviewed(r)'
  <1> DEFINE old == Head(toRename[r])
  <1>1. old \in FileName /\ old \in Left(toRename[r]) /\ Left(Tail(toRename[r])) = Left(toRename[r]) \ {old}
    BY FirstIs, Zenon
  <1>2. Result(old, new, FALSE) \in RenResult BY <1>1 DEF Result, RenResult
  <1>3. /\ toRename'[r] = Tail(toRename[r]) /\ renPc'[r] = "next"
        /\ \A i \in DOMAIN renamed'[r] : renamed'[r][i] = Result(old, new, FALSE)
                                       \/ (i \in DOMAIN renamed[r] /\ renamed'[r][i] = renamed[r][i])
    BY <1>2, FinishIs, Zenon
  <1> HIDE DEF old
  <1>4. Left(toRename'[r]) = Left(toRename[r]) \ {old} BY <1>1, <1>3
  <1>5. \A n \in FileName : PreviewOf(n)' = PreviewOf(n) BY DEF PreviewOf
  <1>6. \A n \in Left(toRename[r]) : n \in FileName BY DEF Left, RenTyped
  <1>7. \A n \in Left(toRename'[r]) : folder'[n] # NoSong /\ PreviewOf(n)' = expected'[n]
    BY <1>4, <1>5, <1>6 DEF AsPreviewed
  <1>8. folder[old] # NoSong /\ PreviewOf(old) = expected[old] BY <1>1 DEF AsPreviewed
  <1>9. ASSUME NEW i \in DOMAIN renamed'[r] PROVE HoldsFor(r, renamed[r][i])'
    <2>1. CASE renamed'[r][i] = Result(old, new, FALSE)
      <3>1. /\ renamed'[r][i].old = old /\ renamed'[r][i].new = new /\ ~renamed'[r][i].ok
        BY <2>1 DEF Result
      <3> QED BY <3>1, <1>1, <1>4, <1>5, <1>8 DEF HoldsFor, old
    <2>2. CASE i \in DOMAIN renamed[r] /\ renamed'[r][i] = renamed[r][i]
      <3>1. HoldsFor(r, renamed[r][i]) BY <2>2 DEF AsPreviewed
      <3>2. renamed[r][i].old \in FileName BY <2>2, ResultIs
      <3> QED BY <2>2, <3>1, <3>2, <1>4, <1>5 DEF HoldsFor
    <2> QED BY <1>3, <2>1, <2>2
  <1>10. ~slippedIn' BY DEF AsPreviewed
  <1> QED BY <1>3, <1>7, <1>9, <1>10 DEF AsPreviewed

(* A request that is alone does what was previewed. *)
LEMMA PreviewedStep ==
    ASSUME RenInv, RenNext, NEW r \in Renamer, Alone(r)'
    PROVE  AsPreviewed(r)'
  <1>1. Alone(r) /\ (CannotName(r) \/ LookAtName(r) \/ MoveFile(r)) BY AloneStep DEF RenInv
  <1>2. AsPreviewed(r) /\ RenTyped /\ RenTypeOK BY <1>1 DEF RenInv, RenTyped
  <1> DEFINE old == Head(toRename[r])
  <1>3. ASSUME toRename[r] # <<>>
        PROVE /\ old \in FileName /\ old \in Left(toRename[r])
              /\ Left(Tail(toRename[r])) = Left(toRename[r]) \ {old}
              /\ folder[old] # NoSong /\ PreviewOf(old) = expected[old]
    <2>1. /\ old \in FileName /\ old \in Left(toRename[r])
          /\ Left(Tail(toRename[r])) = Left(toRename[r]) \ {old}
      BY <1>2, <1>3, FirstIs, Zenon
    <2> QED BY <2>1, <1>2 DEF AsPreviewed
  <1>4. CASE CannotName(r)
    <2>1. toRename[r] # <<>> /\ PreviewOf(old) = NoName /\ Finish(r, Result(old, NoName, FALSE))
          /\ UNCHANGED <<folder, expected, slippedIn>>
      BY <1>4 DEF CannotName
    <2> QED BY <2>1, <1>2, <1>3, NotMoved
  <1>5. CASE LookAtName(r)
    <2>1. toRename[r] # <<>> /\ UNCHANGED <<folder, expected, slippedIn>>
      BY <1>5 DEF LookAtName
    <2>2. PreviewOf(old) \in FileName \cup {NoName}
      <3> HIDE DEF old
      <3> QED BY <1>2, <1>3, <2>1, PreviewIs, Zenon
    <2>3. CASE Finish(r, Result(old, PreviewOf(old), FALSE))
      <3> DEFINE new == PreviewOf(old)
      <3>1. new = expected[Head(toRename[r])] BY <1>3, <2>1
      <3>2. Finish(r, Result(Head(toRename[r]), new, FALSE)) BY <2>3
      <3>3. new \in FileName \cup {NoName} BY <2>2
      <3> HIDE DEF new
      <3> QED BY <2>1, <3>1, <3>2, <3>3, <1>2, NotMoved
    <2>4. CASE /\ newName' = [newName EXCEPT ![r] = PreviewOf(old)] /\ UNCHANGED <<toRename, renamed>>
      <3>1. newName'[r] = PreviewOf(old) BY <2>4, <1>2 DEF RenTypeOK
      <3>2. newName'[r] = expected'[Head(toRename'[r])] BY <3>1, <1>3, <2>1, <2>4
      <3>3. \A n \in FileName : PreviewOf(n)' = PreviewOf(n) BY <2>1 DEF PreviewOf
      <3>4. \A n \in Left(toRename[r]) : n \in FileName BY <1>2 DEF Left, RenTyped
      <3>5. \A n \in Left(toRename'[r]) : folder'[n] # NoSong /\ PreviewOf(n)' = expected'[n]
        BY <2>1, <2>4, <3>3, <3>4, <1>2 DEF AsPreviewed
      <3>6. ASSUME NEW i \in DOMAIN renamed'[r] PROVE HoldsFor(r, renamed[r][i])'
        <4>1. HoldsFor(r, renamed[r][i]) /\ i \in DOMAIN renamed[r] BY <1>2, <2>4 DEF AsPreviewed
        <4>2. renamed[r][i].old \in FileName BY <4>1, <1>2, ResultIs
        <4> QED BY <2>1, <2>4, <3>3, <4>1, <4>2 DEF HoldsFor
      <3> QED BY <1>2, <2>1, <3>2, <3>5, <3>6 DEF AsPreviewed
    <2> QED BY <1>5, <2>3, <2>4 DEF LookAtName
  <1>6. CASE MoveFile(r)
    <2> DEFINE new == newName[r]
    <2>1. /\ toRename[r] # <<>> /\ new \in FileName /\ new[2] = old[2]
          /\ Result(old, new, TRUE) \in RenResult
      BY <1>2, <1>6, MoveIs
    <2>2. new = expected[old] /\ renPc[r] = "checked" BY <1>2, <1>6 DEF AsPreviewed, MoveFile
    <2>3. new = old \/ folder[new] = NoSong BY <1>2, <1>6, MoveIsFree DEF RenInv, AsPreviewed
    <2>4. /\ folder' = MovedTo(old, new) /\ Finish(r, Result(old, new, TRUE))
          /\ slippedIn' = (slippedIn \/ FoundFree(new, Renamer \ {r}))
          /\ UNCHANGED expected
      BY <1>3, <1>6, <2>1 DEF MoveFile
    <2>5. /\ toRename'[r] = Tail(toRename[r]) /\ renPc'[r] = "next"
          /\ \A i \in DOMAIN renamed'[r] : renamed'[r][i] = Result(old, new, TRUE)
                                         \/ (i \in DOMAIN renamed[r] /\ renamed'[r][i] = renamed[r][i])
      BY <1>2, <2>1, <2>4, FinishIs, Zenon
    <2>6. ~slippedIn' BY <1>1, <1>2, <2>4 DEF Alone, FoundFree, AsPreviewed
    <2>7. Left(toRename'[r]) = Left(toRename[r]) \ {old} BY <1>3, <2>1, <2>5
    <2> HIDE DEF old, new
    <2>8. /\ folder'[new] = folder[old]
          /\ \A n \in FileName \ {old, new} : folder'[n] = folder[n]
          /\ old # new => folder'[old] = NoSong
      BY <1>2, <1>3, <2>1, <2>4, MovedToIs
    <2>9. \A n \in FileName \ {old, new} : PreviewOf(n)' = PreviewOf(n) BY <2>8 DEF PreviewOf
    <2>10. \A n \in Left(toRename[r]) : n \in FileName /\ folder[n] # NoSong /\ PreviewOf(n) = expected[n]
      BY <1>2 DEF Left, RenTyped, AsPreviewed
    <2>11. new \notin Left(toRename'[r]) BY <2>3, <2>7, <2>10
    <2>12. \A n \in Left(toRename'[r]) : folder'[n] # NoSong /\ PreviewOf(n)' = expected'[n]
      BY <2>4, <2>7, <2>8, <2>9, <2>10, <2>11
    <2>13. NameFor(folder[old]) = new /\ folder[old] # NoSong
      BY <1>3, <2>1, <2>2 DEF PreviewOf
    <2>14. ASSUME NEW i \in DOMAIN renamed'[r] PROVE HoldsFor(r, renamed[r][i])'
      <3>1. CASE renamed'[r][i] = Result(old, new, TRUE)
        <4>1. renamed'[r][i].old = old /\ renamed'[r][i].new = new /\ renamed'[r][i].ok
          BY <3>1 DEF Result
        <4> QED BY <4>1, <2>2, <2>4, <2>8, <2>11, <2>13 DEF HoldsFor
      <3>2. CASE i \in DOMAIN renamed[r] /\ renamed'[r][i] = renamed[r][i]
        <4>0. PICK result : result = renamed[r][i] OBVIOUS
        <4>1. HoldsFor(r, result) BY <3>2, <4>0, <1>2 DEF AsPreviewed
        <4>2. result.old \in FileName /\ result.new \in FileName \cup {NoName} /\ result.ok \in BOOLEAN
          BY <3>2, <4>0, <1>2, ResultIs
        <4>3. renamed'[r][i] = result BY <3>2, <4>0
        <4>4. old \in Left(toRename[r]) BY <1>3, <2>1
        <4>5. ASSUME expected[result.old] # NoName, result.ok
              PROVE  /\ folder'[result.new] # NoSong /\ NameFor(folder'[result.new]) = result.new
                     /\ result.new \notin Left(toRename'[r])
          <5>1. /\ folder[result.new] # NoSong /\ NameFor(folder[result.new]) = result.new
                /\ result.new \notin Left(toRename[r]) /\ result.new \in FileName
            BY <4>1, <4>2, <4>5 DEF HoldsFor
          <5>2. result.new # old /\ result.new # new BY <5>1, <4>4, <2>3
          <5> QED BY <5>1, <5>2, <2>7, <2>8
        <4>6. ASSUME ~result.ok
              PROVE  /\ folder'[result.old] # NoSong /\ PreviewOf(result.old)' = expected'[result.old]
                     /\ result.old \notin Left(toRename'[r])
          <5>1. /\ folder[result.old] # NoSong /\ PreviewOf(result.old) = expected[result.old]
                /\ result.old \notin Left(toRename[r])
            BY <4>1, <4>6 DEF HoldsFor
          <5>2. result.old # old /\ result.old # new BY <5>1, <4>4, <2>3
          <5> QED BY <5>1, <5>2, <4>2, <2>4, <2>7, <2>8 DEF PreviewOf
        <4>7. result.new = expected'[result.old] BY <4>1, <2>4 DEF HoldsFor
        <4> QED BY <4>3, <4>5, <4>6, <4>7, <2>4 DEF HoldsFor, PreviewOf
      <3> QED BY <2>5, <3>1, <3>2
    <2> QED BY <2>5, <2>6, <2>12, <2>14 DEF AsPreviewed
  <1> QED BY <1>1, <1>4, <1>5, <1>6

(* The folder at the start has different names to rename, each with its file. *)
LEMMA RenInitInv == RenInit => RenInv
  <1> SUFFICES ASSUME RenInit PROVE RenInv
    OBVIOUS
  <1>1. /\ folder \in [FileName -> Song \cup {NoSong}] /\ renPc = [r \in Renamer |-> "next"]
        /\ newName = [r \in Renamer |-> NoName] /\ renamed = [r \in Renamer |-> <<>>]
        /\ expected = [n \in FileName |-> PreviewOf(n)]
        /\ stored = Present /\ landings = 0 /\ slippedIn = FALSE
        /\ \A n, o \in Names : folder[n] = folder[o] => n = o
        /\ \A n \in Names : n[2] = KindOf[folder[n]]
    BY DEF RenInit
  <1>2. RenTypeOK BY <1>1 DEF RenTypeOK, Present
  <1>3. IsFiniteSet(FileName) BY RenamingAssumption, FS_Product DEF FileName
  <1>4. IsFiniteSet(Names) BY <1>3, FS_Subset DEF Names
  <1>5. ASSUME NEW r \in Renamer
        PROVE  /\ toRename[r] \in Seq(FileName) /\ Left(toRename[r]) \subseteq Names
               /\ \A i, j \in DOMAIN toRename[r] : toRename[r][i] = toRename[r][j] => i = j
    <2>1. toRename[r] \in SetToAllKPermutations(Names) BY DEF RenInit
    <2>2. PICK s \in SUBSET Names : toRename[r] \in SetToSeqs(s)
      BY <2>1 DEF SetToAllKPermutations
    <2>3. Cardinality(s) \in Nat BY <1>4, <2>2, FS_Subset, FS_CardinalityType
    <2>4. /\ toRename[r] \in [1..Cardinality(s) -> s]
          /\ \A i, j \in 1..Cardinality(s) : i # j => toRename[r][i] # toRename[r][j]
      BY <2>2 DEF SetToSeqs
    <2>5. s \subseteq FileName BY <2>2 DEF Names
    <2>6. toRename[r] \in Seq(FileName) BY <2>3, <2>4, <2>5
    <2> QED BY <2>2, <2>4, <2>6 DEF Left
  <1>6. toRename \in [Renamer -> Seq(FileName)]
    <2>1. toRename \in [Renamer -> SetToAllKPermutations(Names)] BY DEF RenInit
    <2> QED BY <2>1, <1>5
  <1>7. expected \in [FileName -> FileName \cup {NoName}]
    <2>1. \A n \in FileName : PreviewOf(n) \in FileName \cup {NoName} BY <1>2, PreviewIs, Zenon
    <2> QED BY <2>1, <1>1
  <1>8. renamed \in [Renamer -> Seq(RenResult)] BY <1>1
  <1>9. RenTyped BY <1>1, <1>2, <1>5, <1>6, <1>7, <1>8 DEF RenTyped
  <1>10. NoSongIsLost /\ FreeStays BY <1>1 DEF NoSongIsLost, FreeStays
  <1>11. ASSUME NEW r \in Renamer PROVE AsPreviewed(r)
    <2>1. \A n \in Left(toRename[r]) : folder[n] # NoSong /\ PreviewOf(n) = expected[n]
      BY <1>1, <1>5 DEF Names
    <2>2. renamed[r] = <<>> /\ renPc[r] = "next" BY <1>1
    <2> QED BY <1>1, <2>1, <2>2 DEF AsPreviewed
  <1> QED BY <1>9, <1>10, <1>11 DEF RenInv

(* The inductive invariant of renaming: lists of different names that are there,
   names that are free since they were looked at, and results that hold of what
   nobody will move any more. *)
THEOREM RenInvariant == RenSpec => []RenInv
  <1>1. ASSUME RenInv, [RenNext]_renVars PROVE RenInv'
    <2>1. CASE RenNext
      <3>1. RenTyped /\ NoSongIsLost /\ FreeStays BY <1>1 DEF RenInv
      <3>2. RenTyped' /\ NoSongIsLost' /\ FreeStays'
        BY <2>1, <3>1, RenTypedStep, SongsStep, FreeStep
      <3>3. \A r \in Renamer : Alone(r)' => AsPreviewed(r)' BY <1>1, <2>1, PreviewedStep
      <3> QED BY <3>2, <3>3 DEF RenInv
    <2>2. CASE UNCHANGED renVars
      BY <1>1, <2>2 DEF renVars, RenInv, RenTyped, RenTypeOK, NoSongIsLost, FreeStays, Alone,
             AsPreviewed,
                        HoldsFor, PreviewOf, Names, Present
    <2> QED BY <1>1, <2>1, <2>2
  <1> QED BY <1>1, RenInitInv, PTL DEF RenSpec

(* Names, lists and results keep to their types, and a song to the extension of
   its file, whatever RenameFiles and the downloads do. *)
THEOREM RenTypeCorrect == RenSpec => []RenTypeOK
  <1>1. RenInv => RenTypeOK BY DEF RenInv, RenTyped
  <1> QED BY <1>1, RenInvariant, PTL

(* No song is lost or doubled by any number of requests to RenameFiles, unless a
   name was taken between the look and the move. *)
THEOREM SongsAreKept == RenSpec => []NoSongIsLost
  <1>1. RenInv => NoSongIsLost BY DEF RenInv
  <1> QED BY <1>1, RenInvariant, PTL

(* A request to RenameFiles that is alone does what PreviewRename said, in
   whichever order it takes the files. *)
THEOREM PreviewsHold == RenSpec => []PreviewComesTrue
  <1>1. ASSUME RenInv PROVE PreviewComesTrue
    BY <1>1 DEF RenInv, AsPreviewed, HoldsFor, PreviewComesTrue
  <1> QED BY <1>1, RenInvariant, PTL

-----------------------------------------------------------------------------
-----------------------------------------------------------------------------
(* The answers, question by question. *)

(* A length that is off by a quarter of a minute passes, a preview and half or
   twice a track do not. *)
LEMMA LengthsAreJudged ==
    ASSUME question \in LengthQuestions, answer = LengthAnswer(question) PROVE LengthBands
  <1>1. PICK s \in Int, d \in Int : s = question.should /\ d = question.does
    BY LengthAssumption DEF LengthAssumption
  <1>2. answer.passes = LengthIsRight(s, d) BY <1>1 DEF LengthAnswer
  <1>3. /\ Apart(s, d) <= 15 => LengthIsRight(s, d)
        /\ s >= 60 /\ d \in 1..30 => ~LengthIsRight(s, d)
        /\ s >= 90 /\ d > 0 /\ (2 * d <= s \/ d >= 2 * s) => ~LengthIsRight(s, d)
        /\ s <= 0 \/ d <= 0 => LengthIsRight(s, d)
    BY DEF LengthIsRight, LongestTolerated, Apart, PreviewLimit
  <1> QED BY <1>1, <1>2, <1>3 DEF LengthBands

(* A check by both finds what either alone would. *)
LEMMA HybridFinds ==
    ASSUME question \in ExistsQuestions, answer = ExistsAnswer(question) PROVE HybridFindsMost
  <1> DEFINE F(mode) == Found(mode, question.files, question.track)
             t == question.track
  <1>1. \A mode \in {"filename", "isrc", "hybrid"} :
            /\ answer.by[mode] = F(mode)
            /\ answer.says[mode] = SaysItExists(mode, question.suffix, question.files, t)
    BY DEF ExistsAnswer
  <1>2. DOMAIN answer.says = {"filename", "isrc", "hybrid"} BY DEF ExistsAnswer
  <1>3. F("filename") = WithName(question.files, t.name, t.kind) BY DEF Found
  <1>4. F("hybrid") = IF WithISRC(question.files, t.isrc) # {} THEN WithISRC(question.files, t.isrc)
                      ELSE F("filename")
    BY <1>3 DEF Found
  <1>5. F("isrc") = IF t.isrc = Blank
                    THEN IF t.resolved = Blank THEN F("filename") ELSE WithISRC(question.files, t.resolved)
                    ELSE WithISRC(question.files, t.isrc)
    BY <1>3 DEF Found
  <1> HIDE DEF F
  <1>6. F("filename") # {} => F("hybrid") # {} BY <1>4
  <1>7. t.isrc # Blank /\ F("isrc") # {} => F("hybrid") # {} BY <1>4, <1>5
  <1>8. \A f \in F("isrc") : f.isrc # Blank \/ (t.isrc = Blank /\ t.resolved = Blank)
    BY <1>5 DEF WithISRC
  <1>9. \A f \in F("hybrid") : f.large /\ (f.isrc # Blank \/ f.name = t.name)
    BY <1>3, <1>4 DEF WithISRC, WithName
  <1>10. question.suffix => \A mode \in DOMAIN answer.says : ~answer.says[mode]
    BY <1>1, <1>2 DEF SaysItExists
  <1>11. /\ answer.by["filename"] = F("filename") /\ answer.by["isrc"] = F("isrc")
         /\ answer.by["hybrid"] = F("hybrid")
    BY <1>1
  <1> QED BY <1>6, <1>7, <1>8, <1>9, <1>10, <1>11 DEF HybridFindsMost

(* What is owned by its name is matched. *)
LEMMA OwnedIsFound ==
    ASSUME question \in MatchQuestions, answer = MatchAnswer(question) PROVE OwnedIsMatched
  <1> DEFINE f == question.file
             x == question.item
             C == CreditsMatch(f.credit, x.credit)
             A == ArtistsOverlap(f.credit, x.credit)
  <1>1. answer.owned <=> x.title # NoKey /\ f.title = x.title /\ C BY DEF MatchAnswer, OwnedHas
  <1>2. answer.matches <=> f.title # NoKey /\ f.title = x.title /\ A BY DEF MatchAnswer, SongMatches
  <1>3. answer.type \in {"isrc", "name", "none"}
        /\ (answer.type = "name" => x.title # NoKey /\ f.title = x.title /\ C)
        /\ (answer.type = "none" => ~(x.title # NoKey /\ f.title = x.title /\ C))
    BY DEF MatchAnswer, MatchType
  <1>4. (C => A) /\ (A /\ f.credit # {} => C) BY DEF CreditsMatch
  <1> HIDE DEF C, A
  <1> QED BY <1>1, <1>2, <1>3, <1>4 DEF OwnedIsMatched

(* Which fields of a request are completed. *)
LEMMA RequestCompleted ==
    ASSUME NEW r \in NameQuestions, NEW c, c = CompletedRow(r, r.page)
    PROVE  /\ \A f \in RequestField \ {"number", "total", "discs", "date"} : c[f] = r[f]
           /\ c.total = IF r.total = 0 THEN r.page.total ELSE r.total
           /\ c.date = IF r.date = NoDate THEN r.page.date ELSE r.date
           /\ \A putIn : IsTemplate(c, putIn) <=> IsTemplate(r, putIn)
           /\ \A putIn : Tokens(c, putIn) = Tokens(r, putIn) /\ Tokens(r, putIn) \subseteq Token
           /\ FirstCredited(c, c.credit) = FirstCredited(r, r.credit)
           /\ FirstAlbumArtist(c) = FirstAlbumArtist(r)
  <1>1. DOMAIN r = RequestField /\ r.template \subseteq Token BY NameAssumption DEF NameAssumption
  <1>2. \A f \in RequestField \ {"number", "total", "discs", "date"} : c[f] = r[f]
    BY <1>1 DEF CompletedRow
  <1>3. /\ c.total = IF r.total = 0 THEN r.page.total ELSE r.total
        /\ c.date = IF r.date = NoDate THEN r.page.date ELSE r.date
    BY <1>1 DEF CompletedRow, RequestField
  <1>4. /\ c.template = r.template /\ c.numbered = r.numbered /\ c.titleOnly = r.titleOnly
        /\ c.separator = r.separator /\ c.credit = r.credit /\ c.albumCredit = r.albumCredit
    BY <1>2 DEF RequestField
  <1>5. ASSUME NEW putIn
        PROVE  /\ IsTemplate(c, putIn) <=> IsTemplate(r, putIn)
               /\ Tokens(c, putIn) = Tokens(r, putIn) /\ Tokens(r, putIn) \subseteq Token
    <2>1. IsTemplate(c, putIn) <=> IsTemplate(r, putIn) BY <1>4 DEF IsTemplate
    <2>2. Tokens(c, putIn) = Tokens(r, putIn) BY <1>4, <2>1 DEF Tokens
    <2>3. Tokens(r, putIn) \subseteq Token BY <1>1 DEF Tokens, Token
    <2> QED BY <2>1, <2>2, <2>3
  <1>7. \A credit : FirstCredited(c, credit) = FirstCredited(r, credit) BY <1>4 DEF FirstCredited
  <1>8. FirstAlbumArtist(c) = FirstAlbumArtist(r) BY <1>4, <1>7 DEF FirstAlbumArtist
  <1> QED BY <1>2, <1>3, <1>4, <1>5, <1>7, <1>8

(* Two names are the same when they are for each token of the format, and of
   different tokens they are not. *)
LEMMA NamesAreTokens ==
    ASSUME NEW r, NEW c, NEW p, NEW q, NEW v, NEW w
    PROVE  /\ Tokens(r, p) = Tokens(c, q) =>
                  (NameOf(r, p, v) = NameOf(c, q, w) <=> \A t \in Tokens(r, p) : v[t] = w[t])
           /\ Tokens(r, p) # Tokens(c, q) => NameOf(r, p, v) # NameOf(c, q, w)
  <1>1. DOMAIN NameOf(r, p, v) = Tokens(r, p) /\ DOMAIN NameOf(c, q, w) = Tokens(c, q) BY DEF NameOf
  <1>2. Tokens(r, p) = Tokens(c, q) =>
            (NameOf(r, p, v) = NameOf(c, q, w) <=> \A t \in Tokens(r, p) : v[t] = w[t])
    BY DEF NameOf
  <1> QED BY <1>1, <1>2

(* What the tokens stand for in a template, and in a plain format. *)
LEMMA TokensInTemplate ==
    ASSUME NEW r, NEW p
    PROVE  LET v == InTemplate(r, Common(r, p))
               inTemplate == IsTemplate(r, PutInByDownload)
           IN  /\ v["artist"] = IF inTemplate THEN FirstCredited(r, r.credit) ELSE Named(r.credit)
               /\ v["album_artist"] = IF inTemplate THEN FirstAlbumArtist(r) ELSE Named(r.albumCredit)
               /\ v["creator"] = IF inTemplate THEN r.owner ELSE Unknown
               /\ v["playlist"] = Unknown /\ v["title"] = <<r.title>> /\ v["date"] = Named(r.date)
               /\ v["isrc"] = r.isrc /\ v["disc"] = NumberText(r.disc) /\ v["track"] = NumberText(p)
               /\ v["total_tracks"] = NumberText(r.total)
               /\ DOMAIN v = Token
  <1> DEFINE u == Common(r, p)
  <1>1. /\ u["artist"] = Named(r.credit) /\ u["album_artist"] = Named(r.albumCredit)
        /\ u["creator"] = Unknown /\ u["playlist"] = Unknown /\ u["title"] = <<r.title>>
        /\ u["date"] = Named(r.date) /\ u["isrc"] = r.isrc /\ u["disc"] = NumberText(r.disc)
        /\ u["track"] = NumberText(p) /\ u["total_tracks"] = NumberText(r.total)
        /\ DOMAIN u = Token
    BY DEF Common, Token
  <1>2. CASE ~IsTemplate(r, PutInByDownload) BY <1>1, <1>2 DEF InTemplate
  <1>3. CASE IsTemplate(r, PutInByDownload)
    <2> DEFINE v == [u EXCEPT !["artist"] = FirstCredited(r, r.credit),
                              !["album_artist"] = FirstAlbumArtist(r), !["creator"] = r.owner]
    <2>1. InTemplate(r, u) = v BY <1>3 DEF InTemplate
    <2> HIDE DEF u
    <2>2. /\ v["artist"] = FirstCredited(r, r.credit) /\ v["album_artist"] = FirstAlbumArtist(r)
          /\ v["creator"] = r.owner /\ DOMAIN v = Token
          /\ \A t \in Token \ {"artist", "album_artist", "creator"} : v[t] = u[t]
      BY <1>1 DEF Token
    <2> HIDE DEF v
    <2>3. /\ v["playlist"] = u["playlist"] /\ v["title"] = u["title"] /\ v["date"] = u["date"]
          /\ v["isrc"] = u["isrc"] /\ v["disc"] = u["disc"] /\ v["track"] = u["track"]
          /\ v["total_tracks"] = u["total_tracks"]
      BY <2>2 DEF Token
    <2>4. InTemplate(r, Common(r, p)) = v BY <2>1 DEF u
    <2> QED BY <1>1, <1>3, <2>2, <2>3, <2>4
  <1> QED BY <1>2, <1>3

(* Two files are the same when everything of them is. *)
LEMMA FilesAre ==
    ASSUME NEW r, NEW page, NEW name, NEW kind
    PROVE  LET down == DownloadedName(r, page)
               same == FileCalled(name, kind) \in LeftByDownload(r, page)
               to == AutoConvertExtension(r)
           IN  same <=> /\ name = down
                        /\ \/ /\ kind = "flac"
                              /\ ~r.remove \/ r.resample = "beside" \/ to = "flac"
                           \/ kind = to /\ r.resample # "beside"
  <1> DEFINE down == DownloadedName(r, page)
             to == AutoConvertExtension(r)
             f == FileCalled(name, kind)
             got == FileCalled(down, "flac")
             beside == r.resample = "beside"
             sampled == [got EXCEPT !.labelled = beside]
             converted == [sampled EXCEPT !.kind = to]
  <1>1. f \in LeftByDownload(r, page) <=>
            \/ f = converted
            \/ (f = got \/ f = sampled) /\ ~(r.remove /\ f = sampled)
    BY DEF LeftByDownload
  <1>2. sampled = [name |-> down, kind |-> "flac", labelled |-> beside] BY DEF FileCalled
  <1>3. converted = [name |-> down, kind |-> to, labelled |-> beside]
    <2>1. \A t : [sampled EXCEPT !.kind = t] = [name |-> down, kind |-> t, labelled |-> beside]
      <3> HIDE DEF sampled, down, beside
      <3> QED BY <1>2
    <2> QED BY <2>1, Zenon
  <1>4. f = [name |-> name, kind |-> kind, labelled |-> FALSE]
        /\ got = [name |-> down, kind |-> "flac", labelled |-> FALSE]
    BY DEF FileCalled
  <1> HIDE DEF f, got, sampled, converted, down, to
  <1> DEFINE file(n, k, l) == [name |-> n, kind |-> k, labelled |-> l]
  <1>5. ASSUME NEW n, NEW k, NEW l
        PROVE  file(name, kind, FALSE) = file(n, k, l) <=> name = n /\ kind = k /\ l = FALSE
    <2>1. file(name, kind, FALSE) = file(n, k, l) => name = n /\ kind = k /\ l = FALSE
      <3> SUFFICES ASSUME file(name, kind, FALSE) = file(n, k, l) PROVE name = n /\ kind = k /\ l = FALSE
        OBVIOUS
      <3>1. /\ file(name, kind, FALSE).name = file(n, k, l).name
            /\ file(name, kind, FALSE).kind = file(n, k, l).kind
            /\ file(name, kind, FALSE).labelled = file(n, k, l).labelled
        BY Zenon
      <3> QED BY <3>1
    <2> QED BY <2>1
  <1>6. f = got <=> name = down /\ kind = "flac" BY <1>4, <1>5
  <1>7. f = sampled <=> name = down /\ kind = "flac" /\ ~beside BY <1>2, <1>4, <1>5
  <1>8. f = converted <=> name = down /\ kind = to /\ ~beside BY <1>3, <1>4, <1>5
  <1>9. (f \in LeftByDownload(r, page)) <=> /\ name = down
                        /\ \/ /\ kind = "flac"
                              /\ ~r.remove \/ beside \/ to = "flac"
                           \/ kind = to /\ ~beside
    BY <1>1, <1>6, <1>7, <1>8
  <1> QED BY <1>9 DEF f, down, to

(* A track that was downloaded is skipped, and found by the check. *)
LEMMA SkippedAsDownloaded ==
    ASSUME question \in NameQuestions, answer = NameAnswer(question)
    PROVE  NextDownloadIsSkipped /\ CheckFindsDownload
  <1> DEFINE r == question
             c == CompletedRow(r, r.page)
             v == InTemplate(c, Common(c, c.position))
             in == PutInByDownload
             down == IF c.firstOnly /\ ~IsTemplate(c, in)
                     THEN [v EXCEPT !["artist"] = FirstCredited(c, c.credit)] ELSE v
             skip == [v EXCEPT !["playlist"] = Named(c.playlist)]
             check == [Common(r, CheckedPosition(r)) EXCEPT !["creator"] = Blank]
             downloaded == DownloadedName(r, r.page)
             skipped == SkippedName(r, r.page)
             checked == CheckedName(r)
  <1>1. /\ downloaded = NameOf(c, in, down) /\ skipped = NameOf(c, in, skip)
        /\ checked = NameOf(r, PutInByCheck, check)
    BY DEF DownloadedName, SkippedName, CheckedName
  <1> DEFINE first == FirstCredited(r, r.credit)
             plain == ~IsTemplate(r, in)
             T == Tokens(r, in)
  <1>2. /\ Tokens(c, in) = T /\ T \subseteq Token
        /\ FirstCredited(c, c.credit) = first /\ FirstAlbumArtist(c) = FirstAlbumArtist(r)
        /\ c.total = IF r.total = 0 THEN r.page.total ELSE r.total
        /\ c.date = IF r.date = NoDate THEN r.page.date ELSE r.date
        /\ (IsTemplate(c, in) <=> ~plain)
    BY RequestCompleted
  <1>13. /\ c.position = r.position /\ c.credit = r.credit
         /\ c.albumCredit = r.albumCredit /\ c.owner = r.owner /\ c.title = r.title
         /\ c.isrc = r.isrc /\ c.disc = r.disc /\ c.firstOnly = r.firstOnly /\ c.playlist = r.playlist
    BY RequestCompleted DEF RequestField
  <1> HIDE DEF c
  <1>3. /\ v["artist"] = IF ~plain THEN first ELSE Named(r.credit)
        /\ v["playlist"] = Unknown /\ v["title"] = <<r.title>> /\ v["date"] = Named(c.date)
        /\ v["isrc"] = r.isrc /\ v["disc"] = NumberText(r.disc) /\ v["track"] = NumberText(r.position)
        /\ v["total_tracks"] = NumberText(c.total)
        /\ DOMAIN v = Token
    BY <1>2, <1>13, TokensInTemplate
  <1> HIDE DEF v
  <1>4. /\ down["artist"] = IF r.firstOnly /\ plain THEN first ELSE v["artist"]
        /\ \A t \in Token \ {"artist"} : down[t] = v[t]
    BY <1>2, <1>13, <1>3 DEF Token
  <1>5. /\ skip["playlist"] = Named(r.playlist)
        /\ \A t \in Token \ {"playlist"} : skip[t] = v[t]
    BY <1>13, <1>3 DEF Token
  <1> HIDE DEF down, skip
  <1>6. r.credit # Blank /\ Named(r.credit) = r.credit /\ (r.titleOnly => r.template = {})
    BY NameAssumption DEF NameAssumption, Named
  <1>7. /\ plain => T = {"title"} \cup (IF r.titleOnly THEN {} ELSE {"artist"})
                              \cup (IF r.numbered THEN {"track"} ELSE {})
        /\ ~plain => T = r.template
        /\ "playlist" \in r.template => ~plain
    BY DEF Tokens, IsTemplate, PutInByDownload
  <1>8. "playlist" \in T <=> "playlist" \in r.template BY <1>7
  <1> HIDE DEF plain, T
  <1>9. skipped = downloaded <=> NamedAlike
    <2>1. skipped = downloaded <=> \A t \in T : skip[t] = down[t]
      BY <1>1, NamesAreTokens, <1>2
    <2>2. skip["artist"] = down["artist"] <=> ~(plain /\ r.firstOnly /\ first # r.credit)
      BY <1>3, <1>4, <1>5, <1>6 DEF Token
    <2>3. skip["playlist"] = down["playlist"] <=> ~(Named(r.playlist) # Unknown)
      BY <1>3, <1>4, <1>5 DEF Token
    <2>4. \A t \in Token \ {"artist", "playlist"} : skip[t] = down[t] BY <1>4, <1>5
    <2>5. skipped = downloaded
          <=> /\ ~("artist" \in T /\ plain /\ r.firstOnly /\ first # r.credit)
              /\ ~("playlist" \in T /\ Named(r.playlist) # Unknown)
      BY <2>1, <2>2, <2>3, <2>4, <1>2
    <2> QED BY <2>5, <1>8 DEF NamedAlike, T, plain
  <1> DEFINE to == AutoConvertExtension(r)
  <1>10. to \in ConvertKind \cup {"flac"} /\ (to = "flac" <=> r.convert \notin ConvertKind)
         /\ (to # "flac" => to = r.convert)
    BY DEF AutoConvertExtension, ConvertKind
  <1>11. OriginalStays <=> ~r.remove \/ r.resample = "beside" \/ to = "flac"
    BY <1>10 DEF OriginalStays
  <1>12. answer.skipped = SkipsThese(r, r.page, LeftByDownload(r, r.page))
         /\ answer.found = ChecksFor(r, LeftByDownload(r, r.page))
    BY DEF NameAnswer
  <1>14. NextDownloadIsSkipped
    <2>1. answer.skipped <=> \/ FileCalled(skipped, to) \in LeftByDownload(r, r.page)
                             \/ FileCalled(downloaded, "flac") \in LeftByDownload(r, r.page)
      BY <1>12 DEF SkipsThese
    <2>2. FileCalled(downloaded, "flac") \in LeftByDownload(r, r.page) <=> OriginalStays
      BY FilesAre, <1>11
    <2>3. FileCalled(skipped, to) \in LeftByDownload(r, r.page) <=>
             skipped = downloaded /\ (to = "flac" \/ r.resample # "beside")
      BY FilesAre
    <2>4. (~OriginalStays => r.resample # "beside") /\ (to = "flac" => OriginalStays) BY <1>11
    <2> QED BY <2>1, <2>2, <2>3, <2>4, <1>9 DEF NextDownloadIsSkipped
  <1> DEFINE asked == CheckedKind(r)
  <1>15. answer.found <=> /\ checked = downloaded
                          /\ (asked = "flac" /\ OriginalStays) \/ (asked = to /\ r.resample # "beside")
    <2>1. answer.found <=> FileCalled(checked, asked) \in LeftByDownload(r, r.page)
      BY <1>12 DEF ChecksFor
    <2> QED BY <2>1, FilesAre, <1>11
  <1>16. asked \in {"flac", "mp3", "m4a"} BY DEF CheckedKind
  <1> HIDE DEF to, asked
  <1>17. ASSUME FilledInAlike PROVE checked = downloaded
    <2> DEFINE u == Common(r, CheckedPosition(r))
               K == Tokens(r, PutInByCheck)
    <2>2. /\ u["artist"] = Named(r.credit) /\ u["playlist"] = Unknown /\ u["title"] = <<r.title>>
          /\ u["date"] = Named(r.date) /\ u["isrc"] = r.isrc /\ u["disc"] = NumberText(r.disc)
          /\ u["track"] = NumberText(CheckedPosition(r)) /\ u["total_tracks"] = NumberText(r.total)
          /\ DOMAIN u = Token
      BY DEF Common, Token
    <2> HIDE DEF u
    <2>3. \A t \in Token \ {"creator"} : check[t] = u[t] BY <2>2 DEF u
    <2> HIDE DEF check
    <2>12. K = T BY <1>17 DEF FilledInAlike, Tokens, T
    <2>1. checked = downloaded <=> \A t \in T : check[t] = down[t]
      <3>1. Tokens(c, in) = K BY <1>2, <2>12
      <3>2. NameOf(r, PutInByCheck, check) = NameOf(c, in, down) <=> \A t \in K : check[t] = down[t]
        BY <3>1, NamesAreTokens
      <3> QED BY <1>1, <2>12, <3>2
    <2>4. "artist" \in T => check["artist"] = down["artist"]
      <3>1. "artist" \in T => ~((~plain \/ r.firstOnly) /\ first # r.credit)
        BY <1>17, <2>12 DEF FilledInAlike, FirstArtistMatters, plain
      <3> QED BY <3>1, <1>3, <1>4, <1>6, <2>2, <2>3 DEF Token
    <2>5. CheckedPosition(r) = r.position BY <1>17 DEF FilledInAlike, CheckedPosition
    <2>6. "date" \in T => c.date = r.date
      BY <1>17, <1>2, <1>7 DEF FilledInAlike, Blank, NoDate, plain
    <2>7. "total_tracks" \in T => c.total = r.total
      BY <1>17, <1>2, <1>7 DEF FilledInAlike, plain
    <2>8. ~("album_artist" \in T) /\ ~("creator" \in T)
      BY <1>17, <1>7 DEF FilledInAlike, plain
    <2>9. \A t \in {"playlist", "title", "isrc", "disc", "track"} : check[t] = down[t]
      BY <1>3, <1>4, <2>2, <2>3, <2>5 DEF Token
    <2>10. \A t \in {"date", "total_tracks"} : t \in T => check[t] = down[t]
      BY <1>3, <1>4, <2>2, <2>3, <2>6, <2>7 DEF Token
    <2> QED BY <2>1, <2>4, <2>8, <2>9, <2>10, <1>2 DEF Token
  <1>18. CheckFindsDownload
    <2>1. to \in {"wav", "aiff", "opus"} /\ ~OriginalStays => ~answer.found
      BY <1>15, <1>16
    <2>2. FilledInAlike => (answer.found <=> \/ asked = "flac" /\ OriginalStays
                                             \/ asked = to /\ r.resample # "beside")
      BY <1>15, <1>17
    <2> QED BY <2>1, <2>2 DEF CheckFindsDownload, to, asked
  <1> QED BY <1>14, <1>18

(* Which sizes a cover has. *)
LEMMA CoverSizes ==
    ASSUME NEW sources, \A s \in sources : s.width \in Nat
    PROVE  LET usable == {s \in sources : Usable(s)}
               HasWidth(w) == \E s \in usable : s.width = w
               named == \E s \in usable : s.prefixed
               cover == CoverImage(sources)
           IN  IF HasWidth(300) \/ HasWidth(640) \/ named
               THEN /\ cover.small # {} <=> HasWidth(300)
                    /\ cover.medium # {} <=> HasWidth(640)
                    /\ cover.large # {} <=> named
               ELSE /\ cover.small # {} <=> HasWidth(0)
                    /\ cover.medium # {} <=> HasWidth(0)
                    /\ cover.large # {} <=> HasWidth(0)
  <1> DEFINE usable == {s \in sources : Usable(s)}
             HasWidth(w) == \E s \in usable : s.width = w
             named == \E s \in usable : s.prefixed
             Sized(w) == {<<s.image, w>> : s \in {u \in usable : u.width = w}}
             known == {s \in usable : s.prefixed}
             large == {<<s.image, LargeUrl>> : s \in {k \in known : \A o \in known : k.width <= o.width}}
             cover == CoverImage(sources)
  <1>1. \A w : Sized(w) # {} <=> HasWidth(w) OBVIOUS
  <1>2. large # {} <=> named
    <2>1. named <=> known # {} OBVIOUS
    <2>2. ASSUME known # {} PROVE large # {}
      <3> DEFINE W == {s.width : s \in known}
      <3>1. W \subseteq Nat /\ W # {} BY <2>2
      <3>2. PICK w \in W : \A y \in W : w <= y
        <4> HIDE DEF W
        <4> QED BY <3>1, LeastOf
      <3>3. PICK k \in known : k.width = w BY <3>2
      <3>4. \A o \in known : k.width <= o.width BY <3>2, <3>3
      <3> QED BY <3>3, <3>4
    <2>3. known = {} => large = {} OBVIOUS
    <2> QED BY <2>1, <2>2, <2>3
  <1>3. cover = IF Sized(300) \cup Sized(640) \cup large = {}
                THEN [small |-> Sized(0), medium |-> Sized(0), large |-> Sized(0)]
                ELSE [small |-> Sized(300), medium |-> Sized(640), large |-> large]
    BY DEF CoverImage
  <1>4. Sized(300) \cup Sized(640) \cup large = {} <=> ~(HasWidth(300) \/ HasWidth(640) \/ named)
    <2>1. Sized(300) \cup Sized(640) \cup large = {} <=> Sized(300) = {} /\ Sized(640) = {} /\ large = {}
      <3> HIDE DEF Sized, large
      <3> QED OBVIOUS
    <2> QED BY <1>1, <1>2, <2>1
  <1>5. IF HasWidth(300) \/ HasWidth(640) \/ named
        THEN /\ cover.small # {} <=> HasWidth(300)
             /\ cover.medium # {} <=> HasWidth(640)
             /\ cover.large # {} <=> named
        ELSE /\ cover.small # {} <=> HasWidth(0)
             /\ cover.medium # {} <=> HasWidth(0)
             /\ cover.large # {} <=> HasWidth(0)
    <2> HIDE DEF Sized, large, HasWidth, named, cover
    <2> QED BY <1>1, <1>2, <1>3, <1>4
  <1> QED BY <1>5

(* A cover is shown wherever one of its sizes is wanted. *)
LEMMA CoversAreFound ==
    ASSUME question \in CoverQuestions, answer = CoverAnswer(question) PROVE CoverIsFound
  <1> DEFINE usable == {s \in question.sources : Usable(s)}
             HasWidth(w) == \E s \in usable : s.width = w
             named == \E s \in usable : s.prefixed
             cover == CoverImage(question.sources)
             Sizes(W) == \E s \in usable : s.width \in W
  <1>1. IF HasWidth(300) \/ HasWidth(640) \/ named
        THEN /\ cover.small # {} <=> HasWidth(300)
             /\ cover.medium # {} <=> HasWidth(640)
             /\ cover.large # {} <=> named
        ELSE /\ cover.small # {} <=> HasWidth(0)
             /\ cover.medium # {} <=> HasWidth(0)
             /\ cover.large # {} <=> HasWidth(0)
    BY CoverSizes, CoverAssumption DEF CoverAssumption
  <1>2. /\ answer.page = Shown(cover) /\ answer.found = cover.medium
        /\ answer.avatar = IF cover.medium # {} THEN cover.medium ELSE cover.small
    BY DEF CoverAnswer, ShownInSearch, ArtistAvatar
  <1>3. answer.page # {} <=> cover.small # {} \/ cover.medium # {} \/ cover.large # {}
    BY <1>2 DEF Shown
  <1>4. /\ Sizes({0, 300, 640}) <=> HasWidth(0) \/ HasWidth(300) \/ HasWidth(640)
        /\ Sizes({640}) <=> HasWidth(640)
        /\ Sizes({0}) <=> HasWidth(0)
        /\ Sizes({300}) <=> HasWidth(300)
    OBVIOUS
  <1>5. (\A s \in usable : ~s.prefixed) <=> ~named OBVIOUS
  <1> HIDE DEF HasWidth, Sizes, named, cover
  <1>6. /\ answer.page # {} <=> Sizes({0, 300, 640}) \/ named
        /\ answer.found # {} => answer.page # {}
        /\ answer.found # {} <=> Sizes({640}) \/ (Sizes({0}) /\ ~Sizes({300}) /\ ~named)
        /\ answer.avatar # {} <=> answer.found # {} \/ Sizes({300})
    BY <1>1, <1>2, <1>3, <1>4
  <1> QED BY <1>5, <1>6 DEF CoverIsFound, Sizes, named

-----------------------------------------------------------------------------
(* A list of one is kept or not. *)
LEMMA SiftOne ==
    ASSUME NEW x, NEW S
    PROVE  Sift(<<x>>, S) = IF x \in S THEN <<x>> ELSE <<>>
  <1> DEFINE s == <<x>>
             t == Sift(s, S)
  <1>1. s \in Seq({x}) /\ Len(s) = 1 /\ s[1] = x OBVIOUS
  <1> HIDE DEF s
  <1>2. CASE x \in S
    <2>1. \A i \in 1..Len(s) : s[i] \in S BY <1>1, <1>2
    <2> QED BY <1>1, <1>2, <2>1, SiftKeepsAll DEF s
  <1>3. CASE x \notin S
    <2>1. t \in Seq({x}) /\ \A k \in 1..Len(t) : t[k] \in S /\ \E i \in 1..Len(s) : t[k] = s[i]
      BY <1>1, SiftHas
    <2> HIDE DEF t
    <2>2. \A k \in 1..Len(t) : FALSE BY <1>1, <1>3, <2>1
    <2>3. t = <<>> BY <2>1, <2>2
    <2> QED BY <1>3, <2>3 DEF s, t
  <1> QED BY <1>2, <1>3

(* The first that is kept is one that is wanted, if there is one. *)
LEMMA SiftFirst ==
    ASSUME NEW X, NEW s \in Seq(X), NEW S
    PROVE  /\ Sift(s, S) \in Seq(X)
           /\ Sift(s, S) = <<>> <=> \A x \in Range(s) : x \notin S
           /\ Sift(s, S) # <<>> => Sift(s, S)[1] \in S \cap Range(s)
  <1> DEFINE t == Sift(s, S)
  <1>1. /\ t \in Seq(X)
        /\ \A k \in 1..Len(t) : t[k] \in S /\ \E i \in 1..Len(s) : t[k] = s[i]
        /\ \A i \in 1..Len(s) : s[i] \in S => \E k \in 1..Len(t) : t[k] = s[i]
    BY SiftHas
  <1> HIDE DEF t
  <1>2. Range(s) = {s[i] : i \in 1..Len(s)} BY DEF Range
  <1>3. t # <<>> => 1 \in 1..Len(t) BY <1>1
  <1>4. t # <<>> => t[1] \in S \cap Range(s) BY <1>1, <1>2, <1>3
  <1>5. t = <<>> => \A x \in Range(s) : x \notin S
    <2>1. t = <<>> => 1..Len(t) = {} OBVIOUS
    <2> QED BY <1>1, <1>2, <2>1
  <1> QED BY <1>1, <1>4, <1>5 DEF t

(* Synced lyrics are taken wherever they are. *)
LEMMA LyricsAreTaken ==
    ASSUME question \in LyricsQuestions, answer = LyricsAnswer(question)
    PROVE  LET among == Range(Places(question.hasAlbum, question.isShorter))
               tells == question.told
           IN  /\ (\E p \in among : tells[p] = "synced") =>
                    answer.from \in among /\ tells[answer.from] = "synced"
               /\ answer.from = "none" <=> \A p \in among : tells[p] = "none"
  <1> DEFINE places == Places(question.hasAlbum, question.isShorter)
             tells == question.told
             S == {p \in Range(places) : tells[p] = "synced"}
             U == {p \in Range(places) : tells[p] = "unsynced"}
             s == Sift(places, S)
             u == Sift(places, U)
  <1>1. places \in Seq(LyricsPlace)
    <2>1. <<"exact">> \in Seq(LyricsPlace) /\ <<"search">> \in Seq(LyricsPlace) BY DEF LyricsPlace
    <2>2. <<"no album">> \in Seq(LyricsPlace) /\ <<"simplified", "simplified search">> \in Seq(LyricsPlace)
          /\ <<>> \in Seq(LyricsPlace)
      BY DEF LyricsPlace
    <2> DEFINE second == IF question.hasAlbum THEN <<"no album">> ELSE <<>>
               last == IF question.isShorter THEN <<"simplified", "simplified search">> ELSE <<>>
    <2>3. second \in Seq(LyricsPlace) /\ last \in Seq(LyricsPlace) BY <2>2
    <2>4. places = <<"exact">> \o second \o <<"search">> \o last BY DEF Places
    <2> HIDE DEF second, last, places
    <2> QED BY <2>1, <2>3, <2>4, ConcatProperties
  <1>2. tells \in [LyricsPlace -> Tells] BY LyricsAssumption DEF LyricsAssumption
  <1>3. answer.from = IF s # <<>> THEN s[1] ELSE IF u # <<>> THEN u[1] ELSE "none"
    BY DEF LyricsAnswer, TakenFrom
  <1> HIDE DEF places
  <1>4. Range(places) \subseteq LyricsPlace BY <1>1 DEF Range
  <1>5. /\ s = <<>> <=> \A x \in Range(places) : x \notin S
        /\ s # <<>> => s[1] \in S \cap Range(places)
    <2> HIDE DEF S
    <2> QED BY <1>1, SiftFirst
  <1>6. /\ u = <<>> <=> \A x \in Range(places) : x \notin U
        /\ u # <<>> => u[1] \in U \cap Range(places)
    <2> HIDE DEF U
    <2> QED BY <1>1, SiftFirst
  <1> HIDE DEF s, u, tells
  <1>7. \A p \in Range(places) : p # "none" /\ tells[p] \in Tells
    BY <1>2, <1>4 DEF LyricsPlace
  <1>8. (\E p \in Range(places) : tells[p] = "synced")
        => answer.from \in Range(places) /\ tells[answer.from] = "synced"
    BY <1>3, <1>5
  <1>9. answer.from = "none" <=> \A p \in Range(places) : tells[p] = "none"
    <2>1. CASE s # <<>> BY <1>3, <1>5, <1>7, <2>1
    <2>2. CASE s = <<>> /\ u # <<>> BY <1>3, <1>6, <1>7, <2>2
    <2>3. CASE s = <<>> /\ u = <<>> BY <1>3, <1>5, <1>6, <1>7, <2>3 DEF Tells
    <2> QED BY <2>1, <2>2, <2>3
  <1> QED BY <1>8, <1>9 DEF places, tells

(* One turn of the loop. *)
LEMMA KeepsOn ==
    ASSUME NEW X, NEW s \in Seq(X), NEW S, NEW k \in [0..Len(s) -> Seq(X)], Keeps(s, S, k),
           NEW m \in 1..Len(s), NEW n, n = m - 1
    PROVE  k[m] = IF s[m] \in S THEN Append(k[n], s[m]) ELSE k[n]
  <1>1. m \in 0..Len(s) /\ m # 0 OBVIOUS
  <1> QED BY <1>1 DEF Keeps

(* A list is another one translated, and what is wanted of it is what is
   wanted of the other. *)
Translates(s, u, f, S, T) ==
    Len(u) = Len(s) /\ \A i \in 1..Len(s) : u[i] = f[s[i]] /\ (s[i] \in S <=> u[i] \in T)

(* What is kept of a list whose elements are translated one by one is what is
   kept of the list, translated. *)
LEMMA SiftTranslated ==
    ASSUME NEW X, NEW Y, NEW s \in Seq(X), NEW u \in Seq(Y), NEW f \in [X -> Y], NEW S, NEW T,
           Translates(s, u, f, S, T)
    PROVE  Sift(u, T) = [i \in 1..Len(Sift(s, S)) |-> f[Sift(s, S)[i]]]
  <1> DEFINE N == Len(s)
  <1>1. N \in Nat /\ Len(u) = N /\ \A i \in 1..N : u[i] = f[s[i]] /\ s[i] \in X /\
          (s[i] \in S <=> u[i] \in T)
    BY DEF Translates
  <1>2. PICK k \in [0..N -> Seq(X)] : Keeps(s, S, k) /\ Sift(s, S) = k[N]
    <2>1. \E k \in [0..Len(s) -> Seq(X)] : Keeps(s, S, k) /\ Sift(s, S) = k[Len(s)] BY SiftKeeps
    <2> QED BY <2>1
  <1>3. PICK h \in [0..N -> Seq(Y)] : Keeps(u, T, h) /\ Sift(u, T) = h[N] BY <1>1, SiftKeeps
  <1> HIDE DEF N
  <1> DEFINE Image(r) == [i \in 1..Len(r) |-> f[r[i]]]
             Done == {n \in 0..N : h[n] = Image(k[n])}
  <1>4. 0 \in Done
    <2>1. h[0] = <<>> /\ k[0] = <<>> BY <1>1, <1>2, <1>3 DEF Keeps, N
    <2>2. Image(<<>>) = <<>> OBVIOUS
    <2> QED BY <1>1, <2>1, <2>2
  <1>5. ASSUME NEW n \in 0..N, n < N, n \in Done PROVE n + 1 \in Done
    <2>1. PICK m \in 1..N : m = n + 1 BY <1>1, <1>5
    <2>2. n = m - 1 /\ m \in 1..Len(s) /\ m \in 1..Len(u) /\ Len(s) \in Nat /\ Len(u) \in Nat
      BY <1>1, <2>1 DEF N
    <2> HIDE DEF Image, Done
    <2>3. k[m] = IF s[m] \in S THEN Append(k[n], s[m]) ELSE k[n]
      <3>1. Keeps(s, S, k) /\ k \in [0..Len(s) -> Seq(X)] BY <1>2 DEF N
      <3> QED BY <2>2, <3>1, KeepsOn, SMTT(30)
    <2>4. h[m] = IF u[m] \in T THEN Append(h[n], u[m]) ELSE h[n]
      <3>1. Keeps(u, T, h) /\ h \in [0..Len(u) -> Seq(Y)] /\ u \in Seq(Y) BY <1>1, <1>3
      <3>2. m \in 0..Len(u) /\ m # 0 BY <2>2
      <3>3. h[m] = IF u[m] \in T THEN Append(h[m - 1], u[m]) ELSE h[m - 1]
        BY ONLY <3>1, <3>2 DEF Keeps
      <3> QED BY <2>2, <3>3
    <2>5. (s[m] \in S <=> u[m] \in T) /\ u[m] = f[s[m]] /\ s[m] \in X BY <1>1, <2>1
    <2>6. h[n] = Image(k[n]) BY <1>5 DEF Done
    <2>7. CASE s[m] \notin S
      <3>1. k[m] = k[n] /\ h[m] = h[n] BY <2>3, <2>4, <2>5, <2>7
      <3> QED BY <1>5, <2>1, <2>6, <3>1 DEF Done
    <2>8. CASE s[m] \in S
      <3>1. PICK r \in Seq(X), x \in X : r = k[n] /\ x = s[m] BY <2>5
      <3>2. Image(Append(r, x)) = Append(Image(r), f[x]) BY DEF Image
      <3>3. h[m] = Append(Image(r), f[x]) BY <2>4, <2>5, <2>6, <2>8, <3>1
      <3>4. k[m] = Append(r, x) BY <2>3, <2>8, <3>1
      <3>5. h[m] = Image(k[m]) BY <3>2, <3>3, <3>4
      <3>6. m \in 0..N /\ m = n + 1 BY <1>1, <2>1
      <3> QED BY <3>5, <3>6 DEF Done
    <2> QED BY <2>7, <2>8
  <1>6. N \in Done
    <2> HIDE DEF Done
    <2>1. 0..N \subseteq Done BY <1>1, <1>4, <1>5, StepByStep
    <2> QED BY <1>1, <2>1
  <1> QED BY <1>2, <1>3, <1>6 DEF N

(* A time is written as it was read, to the hundredth. *)
LEMMA TimesAreKept ==
    ASSUME NEW m \in Nat, NEW s \in 0..59, NEW f \in 0..99
    PROVE  ToStamp(ToMs(<<m, s, f>>)) = <<m, s, f>>
  <1> DEFINE ms == m * 60000 + s * 1000 + f * 10
  <1>1. ToMs(<<m, s, f>>) = ms BY DEF ToMs
  <1>2. ms \div 60000 = m OBVIOUS
  <1>3. ms \div 1000 = m * 60 + s OBVIOUS
  <1>4. (m * 60 + s) % 60 = s OBVIOUS
  <1>5. ms % 1000 = f * 10 OBVIOUS
  <1>6. (f * 10) \div 10 = f OBVIOUS
  <1> HIDE DEF ms
  <1> QED BY <1>1, <1>2, <1>3, <1>4, <1>5, <1>6 DEF ToStamp

(* How a line is written. *)
StampOf(timed) == IF timed.start = <<>> THEN timed.bare ELSE ToStamp(timed.start[1])

(* A line of lyrics is written if it is to be kept, with its time if that is short. *)
LEMMA LinesAreKept ==
    ASSUME NEW l \in LyricsLine
    PROVE  /\ HasWords(Timed(l)) <=> IsToBeKept(l)
           /\ Timed(l).words = l.words
           /\ IsToBeKept(l) /\ l.stamp = <<>> => StampOf(Timed(l)) = <<>>
           /\ IsToBeKept(l) /\ l.stamp # <<>> /\ l.stamp[3] < 100 => StampOf(Timed(l)) = l.stamp
  <1>1. CASE l.stamp = <<>> BY <1>1 DEF HasWords, Timed, IsToBeKept, StampOf
  <1>2. CASE l.stamp # <<>>
    <2> DEFINE st == l.stamp
               m == st[1]
               f == st[3]
    <2>1. st \in Nat \X (0..59) \X Nat BY <1>2 DEF LyricsLine
    <2>2. m \in Nat /\ st[2] \in 0..59 /\ f \in Nat /\ st = <<m, st[2], f>> BY <2>1
    <2>3. LongStamp(st) <=> ~(m < 100 /\ f < 100) BY <2>2 DEF LongStamp
    <2>4. IsToBeKept(l) <=> l.words # "" \/ ~LongStamp(st) BY <1>2, <2>3 DEF IsToBeKept
    <2>5. CASE l.words # "" \/ LongStamp(st)
      <3>1. Timed(l) = [start |-> <<ToMs(st)>>, bare |-> <<>>, words |-> l.words]
        BY <1>2, <2>5 DEF Timed
      <3>2. StampOf(Timed(l)) = ToStamp(ToMs(st)) BY <3>1 DEF StampOf
      <3>3. ASSUME f < 100 PROVE StampOf(Timed(l)) = st
        <4>1. f \in 0..99 BY <2>2, <3>3
        <4>2. ToStamp(ToMs(<<m, st[2], f>>)) = <<m, st[2], f>> BY <2>2, <4>1, TimesAreKept
        <4> QED BY <2>2, <3>2, <4>2
      <3>4. HasWords(Timed(l)) <=> l.words # "" BY <3>1 DEF HasWords
      <3>5. Timed(l).words = l.words BY <3>1
      <3> QED BY <1>2, <2>4, <2>5, <3>3, <3>4, <3>5
    <2>6. CASE l.words = "" /\ ~LongStamp(st)
      <3>1. Timed(l) = [start |-> <<>>, bare |-> st, words |-> l.words] BY <2>6 DEF Timed
      <3>2. StampOf(Timed(l)) = st BY <3>1 DEF StampOf
      <3>3. Timed(l).bare = st /\ Timed(l).words = l.words BY <3>1
      <3>4. HasWords(Timed(l)) BY <1>2, <3>3 DEF HasWords
      <3> QED BY <1>2, <2>4, <2>6, <3>2, <3>3, <3>4
    <2> QED BY <2>5, <2>6
  <1> QED BY <1>1, <1>2

(* The best result is one of those given, synced if any is. *)
LEMMA BestIsBest ==
    ASSUME NEW results \in Seq(LyricsResult)
    PROVE  /\ BestResult(results) \in LyricsResult
           /\ BestResult(results).synced = <<>> <=> \A i \in DOMAIN results : results[i].synced = <<>>
  <1> DEFINE S == {r \in Range(results) : r.synced # <<>>}
             P == {r \in Range(results) : r.plain # <<>>}
             s == Sift(results, S)
             p == Sift(results, P)
  <1>1. BestResult(results) = IF s # <<>> THEN s[1] ELSE IF p # <<>> THEN p[1] ELSE NoLyrics
    BY DEF BestResult
  <1>2. Range(results) \subseteq LyricsResult /\ Range(results) = {results[i] : i \in DOMAIN results}
    BY DEF Range
  <1>3. /\ s = <<>> <=> \A x \in Range(results) : x \notin S
        /\ s # <<>> => s[1] \in S \cap Range(results)
    <2> HIDE DEF S
    <2> QED BY SiftFirst
  <1>4. p # <<>> => p[1] \in P \cap Range(results)
    <2> HIDE DEF P
    <2> QED BY SiftFirst
  <1>5. NoLyrics \in LyricsResult /\ NoLyrics.synced = <<>> BY DEF NoLyrics, LyricsResult
  <1>6. (\A x \in Range(results) : x \notin S) <=> \A i \in DOMAIN results : results[i].synced = <<>>
    BY <1>2
  <1> HIDE DEF s, p
  <1>7. CASE s # <<>> BY <1>1, <1>2, <1>3, <1>6, <1>7
  <1>8. CASE s = <<>> /\ p # <<>> BY <1>1, <1>2, <1>3, <1>4, <1>6, <1>8
  <1>9. CASE s = <<>> /\ p = <<>> BY <1>1, <1>3, <1>5, <1>6, <1>9
  <1> QED BY <1>7, <1>8, <1>9

(* Of a text every line that is to be kept is written. *)
LEMMA TextsAreKept ==
    ASSUME question \in TextQuestions, answer = TextAnswer(question)
    PROVE  TextIsKept /\
             (answer.best.synced = <<>> <=> \A i \in DOMAIN question.results :
             question.results[i].synced = <<>>)
  <1> DEFINE best == BestResult(question.results)
             lines == IF best.synced # <<>> THEN best.synced ELSE best.plain
             G == {l \in Range(lines) : IsToBeKept(l)}
             given == Sift(lines, G)
             f == [l \in LyricsLine |-> Timed(l)]
             Y == {Timed(l) : l \in LyricsLine}
             timed == [i \in 1..Len(lines) |-> f[lines[i]]]
             W == {l \in Range(timed) : HasWords(l)}
             kept == Sift(timed, W)
  <1>1. question.results \in Seq(LyricsResult) BY TextAssumption DEF TextAssumption
  <1>2. best \in LyricsResult
        /\ (best.synced = <<>> <=> \A i \in DOMAIN question.results : question.results[i].synced = <<>>)
    BY <1>1, BestIsBest
  <1>3. answer.best = best /\ answer.lrc = ToLRC(Converted(best)) BY DEF TextAnswer
  <1> HIDE DEF best
  <1>4. lines \in Seq(LyricsLine) BY <1>2 DEF LyricsResult
  <1> HIDE DEF lines
  <1>5. f \in [LyricsLine -> Y] /\ \A l \in LyricsLine : f[l] = Timed(l) OBVIOUS
  <1> HIDE DEF f, Y
  <1>6. Len(lines) \in Nat /\ DOMAIN lines = 1..Len(lines) /\
          \A i \in 1..Len(lines) : lines[i] \in LyricsLine
    BY <1>4
  <1>7. timed = [i \in DOMAIN lines |-> Timed(lines[i])] BY <1>5, <1>6
  <1>8. Converted(best).lines = timed BY <1>7 DEF Converted, lines
  <1>9. answer.lrc = [i \in DOMAIN kept |-> [stamp |-> StampOf(kept[i]), words |-> kept[i].words]]
    BY <1>3, <1>8 DEF ToLRC, StampOf
  <1>10. \A i \in 1..Len(lines) : timed[i] = f[lines[i]] /\ (lines[i] \in G <=> timed[i] \in W)
    <2>1. \A i \in 1..Len(lines) : lines[i] \in Range(lines) /\ timed[i] \in Range(timed)
      BY <1>6 DEF Range
    <2> SUFFICES ASSUME NEW i \in 1..Len(lines)
                 PROVE  timed[i] = f[lines[i]] /\ (lines[i] \in G <=> timed[i] \in W)
      OBVIOUS
    <2>2. timed[i] = f[lines[i]] /\ f[lines[i]] = Timed(lines[i]) BY <1>5, <1>6
    <2> HIDE DEF timed
    <2>3. HasWords(Timed(lines[i])) <=> IsToBeKept(lines[i]) BY <1>6, LinesAreKept
    <2> QED BY <2>1, <2>2, <2>3
  <1>11. given \in Seq(LyricsLine) /\ \A k \in 1..Len(given) : given[k] \in G
    <2> HIDE DEF G
    <2> QED BY <1>4, SiftHas
  <1>12. kept = [i \in 1..Len(given) |-> f[given[i]]]
    <2>1. timed \in Seq(Y) /\ Len(timed) = Len(lines) BY <1>5, <1>6
    <2> HIDE DEF G, W, timed
    <2>2. Translates(lines, timed, f, G, W) BY <1>10, <2>1 DEF Translates
    <2> QED BY <1>4, <1>5, <2>1, <2>2, SiftTranslated
  <1> HIDE DEF kept
  <1>13. Len(given) \in Nat BY <1>11
  <1>14. \A i \in 1..Len(given) : kept[i] = Timed(given[i]) /\ given[i] \in LyricsLine /\
           IsToBeKept(given[i])
    BY <1>5, <1>11, <1>12
  <1> HIDE DEF given
  <1>15. answer.lrc = [i \in 1..Len(given) |-> [stamp |-> StampOf(kept[i]), words |-> kept[i].words]]
    BY <1>9, <1>12
  <1>16. Len(answer.lrc) = Len(given) /\ DOMAIN given = 1..Len(given) BY <1>11, <1>13, <1>15
  <1>17. \A i \in 1..Len(given) :
            /\ answer.lrc[i].words = given[i].words
            /\ given[i].stamp = <<>> => answer.lrc[i].stamp = <<>>
            /\ given[i].stamp # <<>> /\ given[i].stamp[3] < 100 => answer.lrc[i].stamp = given[i].stamp
    <2> SUFFICES ASSUME NEW i \in 1..Len(given)
                 PROVE  /\ answer.lrc[i].words = given[i].words
                        /\ given[i].stamp = <<>> => answer.lrc[i].stamp = <<>>
                        /\ given[i].stamp # <<>> /\ given[i].stamp[3] < 100 =>
                             answer.lrc[i].stamp = given[i].stamp
      OBVIOUS
    <2>1. answer.lrc[i].stamp = StampOf(Timed(given[i])) /\ answer.lrc[i].words = Timed(given[i]).words
      BY <1>14, <1>15
    <2> QED BY <2>1, <1>14, LinesAreKept
  <1>18. TextIsKept BY <1>3, <1>16, <1>17 DEF TextIsKept, given, lines
  <1> QED BY <1>2, <1>3, <1>18

(* The fields of a link. *)
LEMMA LinkFields ==
    ASSUME NEW k, NEW i, NEW g, NEW to, to = [kind |-> k, id |-> i, group |-> g]
    PROVE  to.kind = k /\ to.id = i /\ to.group = g
  OBVIOUS

(* What a part before a path makes of it. *)
LEMMA PartBefore ==
    ASSUME NEW P, NEW x \in P, NEW p \in Seq(P)
    PROVE  /\ <<x>> \o p \in Seq(P) /\ <<x>> \o p # <<>>
           /\ (<<x>> \o p)[1] = x /\ Tail(<<x>> \o p) = p
  <1> DEFINE q == <<x>> \o p
  <1>1. <<x>> \in Seq(P) /\ Len(<<x>>) = 1 /\ <<x>>[1] = x OBVIOUS
  <1>2. /\ q \in Seq(P) /\ Len(q) = 1 + Len(p)
        /\ \A i \in 1..1 + Len(p) : q[i] = IF i <= 1 THEN x ELSE p[i - 1]
    BY <1>1, ConcatProperties
  <1> HIDE DEF q
  <1>3. Len(p) \in Nat OBVIOUS
  <1>4. q # <<>> /\ q[1] = x BY <1>2, <1>3
  <1>5. /\ Tail(q) \in Seq(P) /\ Len(Tail(q)) = Len(p)
        /\ \A i \in 1..Len(Tail(q)) : Tail(q)[i] = q[i + 1]
    BY <1>2, <1>3, <1>4, HeadTailProperties
  <1>6. \A i \in 1..Len(p) : Tail(q)[i] = p[i] BY <1>2, <1>3, <1>5
  <1>7. Tail(q) = p BY <1>5, <1>6
  <1> QED BY <1>2, <1>4, <1>7 DEF q

(* The parts of a link, with what comes behind its kind and id. *)
LEMMA PartsOfLink ==
    ASSUME NEW P, NEW k \in P, NEW id \in P, NEW suffix \in Seq(P)
    PROVE  LET parts == <<k, id>> \o suffix
           IN  /\ parts \in Seq(P) /\ Len(parts) = 2 + Len(suffix) /\ parts # <<>>
               /\ parts[1] = k /\ parts[2] = id
               /\ \A i \in 1..Len(suffix) : parts[2 + i] = suffix[i]
  <1> DEFINE parts == <<k, id>> \o suffix
  <1>1. <<k, id>> \in Seq(P) /\ Len(<<k, id>>) = 2 /\ <<k, id>>[1] = k /\ <<k, id>>[2] = id OBVIOUS
  <1>2. /\ parts \in Seq(P) /\ Len(parts) = 2 + Len(suffix)
        /\ \A i \in 1..2 + Len(suffix) : parts[i] = IF i <= 2 THEN <<k, id>>[i] ELSE suffix[i - 2]
    BY <1>1, ConcatProperties
  <1> HIDE DEF parts
  <1>3. Len(suffix) \in Nat OBVIOUS
  <1>4. parts[1] = k /\ parts[2] = id /\ parts # <<>> BY <1>1, <1>2, <1>3
  <1>5. \A i \in 1..Len(suffix) : parts[2 + i] = suffix[i] BY <1>2, <1>3
  <1> QED BY <1>2, <1>4, <1>5 DEF parts

(* What comes before a link's kind and id is taken off. *)
LEMMA LinksAreCleaned ==
    ASSUME NEW P, {"embed", "intl-de"} \subseteq P,
           NEW k \in Kinds \cap P, NEW id \in P, NEW prefix \in LinkHeads, NEW suffix \in Seq(P)
    PROVE  CleanLink(prefix \o <<k, id>> \o suffix) = <<k, id>> \o suffix
  <1> DEFINE path == <<k, id>> \o suffix
  <1>1. k \in P /\ k \notin {"embed"} /\ k \notin Locales BY DEF Kinds, Locales
  <1>2. path \in Seq(P) /\ path # <<>> /\ path[1] = k BY <1>1, PartsOfLink
  <1>3. prefix \in Seq(P)
    <2>1. "embed" \in P /\ "intl-de" \in P OBVIOUS
    <2>2. \A x, y \in P : <<x>> \in Seq(P) /\ <<x, y>> \in Seq(P) OBVIOUS
    <2>3. <<"embed">> \in Seq(P) /\ <<"intl-de">> \in Seq(P) /\ <<"embed", "intl-de">> \in Seq(P)
      BY <2>1, <2>2
    <2>4. <<>> \in Seq(P) OBVIOUS
    <2> QED BY <2>3, <2>4 DEF LinkHeads
  <1>4. <<k, id>> \in Seq(P) BY <1>1
  <1>5. prefix \o <<k, id>> \o suffix = prefix \o path BY <1>3, <1>4, ConcatAssociative
  <1> HIDE DEF path
  <1>6. Without(path, {"embed"}) = path /\ Without(path, Locales) = path BY <1>1, <1>2 DEF Without
  <1> DEFINE local == <<"intl-de">> \o path
  <1>7. local \in Seq(P) /\ Without(local, {"embed"}) = local /\ Without(local, Locales) = path
    <2>1. local \in Seq(P) /\ local # <<>> /\ local[1] = "intl-de" /\ Tail(local) = path
      BY <1>2, PartBefore
    <2> HIDE DEF local
    <2> QED BY <2>1 DEF Without, Locales
  <1>8. \A p \in Seq(P) : Without(<<"embed">> \o p, {"embed"}) = p
    <2> SUFFICES ASSUME NEW p \in Seq(P) PROVE Without(<<"embed">> \o p, {"embed"}) = p OBVIOUS
    <2>1. <<"embed">> \o p # <<>> /\ (<<"embed">> \o p)[1] = "embed" /\ Tail(<<"embed">> \o p) = p
      BY PartBefore
    <2> QED BY <2>1 DEF Without
  <1>9. CASE prefix = <<>>
    <2>1. prefix \o path = path BY <1>2, <1>9, ConcatEmptySeq
    <2> QED BY <1>5, <1>6, <2>1 DEF CleanLink, path
  <1>10. CASE prefix = <<"embed">>
    <2> QED BY <1>2, <1>5, <1>6, <1>8, <1>10 DEF CleanLink, path
  <1>11. CASE prefix = <<"intl-de">>
    <2> QED BY <1>5, <1>7, <1>11 DEF CleanLink, path
  <1>12. CASE prefix = <<"embed", "intl-de">>
    <2>1. prefix = <<"embed">> \o <<"intl-de">> BY <1>12
    <2>2. <<"embed">> \in Seq(P) /\ <<"intl-de">> \in Seq(P) OBVIOUS
    <2>3. prefix \o path = <<"embed">> \o local BY <1>2, <2>1, <2>2, ConcatAssociative
    <2> HIDE DEF local
    <2> QED BY <1>5, <1>7, <1>8, <2>3 DEF CleanLink, path
  <1> QED BY <1>9, <1>10, <1>11, <1>12 DEF LinkHeads

(* What a link leads to, by what comes behind its kind and id. *)
LeadsBack(to, k, id, suffix) ==
    /\ IF suffix = <<>> \/ k = "artist"
       THEN to.id = id /\ to.kind \in {k, "artist_discography"}
       ELSE to = NotALink
    /\ to.kind = "artist_discography" <=> k = "artist" /\ "discography" \in Range(suffix)
    /\ to.kind = "artist_discography" =>
            to.group = IF Len(suffix) = 2 /\ suffix[2] \in Groups THEN suffix[2] ELSE "all"

LEMMA LinksAreParsed ==
    ASSUME NEW k \in Kinds, NEW prefix \in LinkHeads, NEW suffix, IsLinkTail(suffix),
           NEW id \in STRING, NEW to, to = ParsePath(prefix \o <<k, id>> \o suffix)
    PROVE  LeadsBack(to, k, id, suffix)
  <1> USE DEF LeadsBack
  <1> DEFINE parts == <<k, id>> \o suffix
  <1>1. k # "artist_discography" /\ k # "none" BY DEF Kinds
  <1> PICK P : P = STRING \cup {"embed", "intl-de"} \cup Kinds OBVIOUS
  <1>0. {"embed", "intl-de"} \subseteq P /\ k \in Kinds \cap P /\ id \in P OBVIOUS
  <1>2. suffix \in Seq(P) /\ Len(suffix) <= 2 /\ Len(suffix) \in Nat BY DEF IsLinkTail
  <1>3. CleanLink(prefix \o <<k, id>> \o suffix) = parts BY <1>0, <1>2, LinksAreCleaned
  <1>4. /\ Len(parts) = 2 + Len(suffix) /\ parts[1] = k /\ parts[2] = id
        /\ \A i \in 1..Len(suffix) : parts[2 + i] = suffix[i]
    BY <1>0, <1>2, PartsOfLink
  <1> HIDE DEF parts
  <1>5. to = IF Len(parts) = 2 /\ k \in Kinds
             THEN [kind |-> k, id |-> id, group |-> ""]
             ELSE IF Len(parts) >= 3 /\ k = "artist" /\ parts[3] = "discography"
             THEN [kind |-> "artist_discography", id |-> id,
                   group |-> IF Len(parts) >= 4 /\ parts[4] \in Groups THEN parts[4] ELSE "all"]
             ELSE IF Len(parts) >= 3 /\ k = "artist" THEN [kind |-> "artist", id |-> id, group |-> ""]
             ELSE NotALink
    BY <1>3, <1>4 DEF ParsePath
  <1>6. CASE Len(suffix) = 0
    <2>1. suffix = <<>> BY <1>2, <1>6
    <2>2. Len(parts) = 2 BY <1>4, <1>6
    <2>3. to = [kind |-> k, id |-> id, group |-> ""] BY <1>5, <2>2
    <2>4. ~("discography" \in Range(suffix)) BY <2>1 DEF Range
    <2>5. to.kind = k /\ to.id = id BY ONLY <2>3, LinkFields
    <2> QED BY <1>1, <2>1, <2>4, <2>5
  <1>7. CASE Len(suffix) = 1
    <2>1. Len(parts) = 3 /\ parts[3] = suffix[1] BY <1>4, <1>7
    <2>2. "discography" \in Range(suffix) <=> suffix[1] = "discography" BY <1>2, <1>7 DEF Range
    <2>3. suffix # <<>>
      <3>1. Len(<<>>) # 1 OBVIOUS
      <3> QED BY <1>7, <3>1, Zenon
    <2>4. Len(parts) # 2 /\ Len(parts) >= 3 /\ ~(Len(parts) >= 4) /\ Len(suffix) # 2 BY <1>7, <2>1
    <2>5. CASE k # "artist"
      <3>1. to = NotALink BY <1>5, <2>4, <2>5
      <3>2. to.kind = "none" BY ONLY <3>1, LinkFields DEF NotALink
      <3> QED BY <2>3, <2>5, <3>1, <3>2
    <2>6. CASE k = "artist" /\ suffix[1] = "discography"
      <3>1. to = [kind |-> "artist_discography", id |-> id, group |-> "all"]
        BY <1>5, <2>1, <2>4, <2>6
      <3>2. to.kind = "artist_discography" /\ to.id = id /\ to.group = "all" BY <3>1
      <3> QED BY <2>2, <2>3, <2>4, <2>6, <3>2
    <2>7. CASE k = "artist" /\ suffix[1] # "discography"
      <3>1. to = [kind |-> "artist", id |-> id, group |-> ""] BY <1>5, <2>1, <2>4, <2>7
      <3>2. to.kind = "artist" /\ to.id = id BY ONLY <3>1, LinkFields
      <3> QED BY <2>2, <2>3, <2>7, <3>2
    <2> QED BY <2>5, <2>6, <2>7
  <1>8. CASE Len(suffix) = 2
    <2>1. suffix[1] = "discography" BY <1>8 DEF IsLinkTail
    <2>2. Len(parts) = 4 /\ parts[3] = suffix[1] /\ parts[4] = suffix[2] BY <1>4, <1>8
    <2>3. "discography" \in Range(suffix)
      <3>1. 1 \in DOMAIN suffix BY <1>2, <1>8
      <3> QED BY <2>1, <3>1 DEF Range
    <2>4. suffix # <<>>
      <3>1. Len(<<>>) # 2 OBVIOUS
      <3> QED BY <1>8, <3>1, Zenon
    <2>5. Len(parts) # 2 /\ Len(parts) >= 3 /\ Len(parts) >= 4 BY <2>2
    <2>6. CASE k # "artist"
      <3>1. to = NotALink BY <1>5, <2>5, <2>6
      <3>2. to.kind = "none" BY ONLY <3>1, LinkFields DEF NotALink
      <3> QED BY <2>4, <2>6, <3>1, <3>2
    <2>7. CASE k = "artist"
      <3> DEFINE group == IF suffix[2] \in Groups THEN suffix[2] ELSE "all"
      <3>1. to = [kind |-> "artist_discography", id |-> id, group |-> group]
        BY <1>5, <2>1, <2>2, <2>5, <2>7
      <3>2. to.kind = "artist_discography" /\ to.id = id /\ to.group = group BY <3>1
      <3> QED BY <1>8, <2>3, <2>7, <3>2
    <2> QED BY <2>6, <2>7
  <1>9. Len(suffix) = 0 \/ Len(suffix) = 1 \/ Len(suffix) = 2
    <2>1. \A n \in Nat : n <= 2 => n = 0 \/ n = 1 \/ n = 2 OBVIOUS
    <2> QED BY ONLY <1>2, <2>1
  <1> QED BY <1>6, <1>7, <1>8, <1>9

(* The links of search results lead back. *)
LEMMA LinksAreFollowed ==
    ASSUME question \in LinkQuestions, answer = LinkAnswer(question) PROVE LinksLeadBack
  <1> DEFINE e == question.entry
             k == question.kind
             hits == SearchRows(k, <<e>>)
  <1>1. /\ k \in Kinds /\ question.limit \in Int /\ question.prefix \in LinkHeads
        /\ IsLinkTail(question.suffix) /\ e.uri \in STRING /\ e.id \in {"", e.uri}
    BY LinkAssumption DEF LinkAssumption
  <1>2. DOMAIN hits \subseteq {1} /\ \A i \in DOMAIN hits : hits[i].kind = k /\ hits[i].id = e.uri
    <2> DEFINE K == {x \in Range(<<e>>) : Listed(k, x)}
               kept == Sift(<<e>>, K)
    <2>1. kept = IF e \in K THEN <<e>> ELSE <<>> BY SiftOne
    <2>2. DOMAIN kept \subseteq {1} /\ \A i \in DOMAIN kept : kept[i] = e
      <3>1. DOMAIN <<e>> = {1} /\ <<e>>[1] = e /\ DOMAIN <<>> = {} OBVIOUS
      <3> HIDE DEF K
      <3> QED BY <2>1, <3>1
    <2>3. IdOf(k, e) = e.uri BY <1>1 DEF IdOf
    <2>4. hits = [i \in DOMAIN kept |-> [kind |-> k, id |-> IdOf(k, kept[i]),
            cover |-> SearchCover(k, kept[i])]]
      BY DEF SearchRows
    <2> HIDE DEF kept
    <2> QED BY <2>2, <2>3, <2>4
  <1>3. /\ answer.rows = hits
        /\ answer.leadsTo = [i \in DOMAIN hits |->
              ParseLink("open.spotify.com",
                question.prefix \o <<hits[i].kind, hits[i].id>> \o question.suffix)]
        /\ answer.elsewhere = ParseLink("example.org", <<k, e.uri>>)
        /\ answer.limit = SearchLimit(question.limit)
        /\ answer.artist = Fetched(ParsePath(<<"artist", e.uri>>))
    BY DEF LinkAnswer
  <1> HIDE DEF hits
  <1>4. \A i \in DOMAIN hits :
          answer.leadsTo[i] = ParsePath(question.prefix \o <<k, e.uri>> \o question.suffix)
    BY <1>2, <1>3 DEF ParseLink, Hosts
  <1>5. answer.elsewhere = NotALink BY <1>3 DEF ParseLink, Hosts
  <1>6. answer.limit \in 1..50
    <2>1. PICK l \in Int : l = question.limit BY <1>1
    <2>2. SearchLimit(l) \in 1..50 BY DEF SearchLimit
    <2> QED BY <1>3, <2>1, <2>2
  <1>7. answer.artist = ParsePath(<<"artist", e.uri, "discography">>)
    <2> DEFINE link == <<"artist", e.uri>>
               all == <<"artist", e.uri, "discography">>
    <2>1. CleanLink(link) = link /\ CleanLink(all) = all BY DEF CleanLink, Without, Locales
    <2>2. /\ Len(link) = 2 /\ link[1] = "artist" /\ link[2] = e.uri
          /\ Len(all) = 3 /\ all[1] = "artist" /\ all[2] = e.uri /\ all[3] = "discography"
      OBVIOUS
    <2> HIDE DEF link, all
    <2>3. ParsePath(link) = [kind |-> "artist", id |-> e.uri, group |-> ""]
      BY <2>1, <2>2 DEF ParsePath, Kinds
    <2>4. ParsePath(all) = [kind |-> "artist_discography", id |-> e.uri, group |-> "all"]
      BY <2>1, <2>2 DEF ParsePath
    <2> DEFINE l == ParsePath(link)
    <2>5. l.kind = "artist" /\ l.id = e.uri
      <3> HIDE DEF l, link
      <3>1. l = [kind |-> "artist", id |-> e.uri, group |-> ""] BY <2>3 DEF l
      <3> QED BY <3>1
    <2>6. Fetched(l) = ParsePath(all) BY <2>4, <2>5 DEF Fetched
    <2> QED BY <1>3, <2>6 DEF link, all
  <1> DEFINE to == ParsePath(question.prefix \o <<k, e.uri>> \o question.suffix)
             suffix == question.suffix
  <1>8. LeadsBack(to, k, e.uri, suffix)
    <2>1. to = ParsePath(question.prefix \o <<k, e.uri>> \o suffix) OBVIOUS
    <2> HIDE DEF to
    <2>2. /\ k \in Kinds /\ question.prefix \in LinkHeads /\ IsLinkTail(suffix) /\ e.uri \in STRING
      BY <1>1
    <2> HIDE DEF k, e, suffix
    <2> QED BY <2>1, <2>2, LinksAreParsed
  <1>9. \A i \in DOMAIN answer.rows : answer.rows[i].kind = k /\ answer.rows[i].id = e.uri /\
          answer.leadsTo[i] = to
    BY <1>2, <1>3, <1>4
  <1> HIDE DEF to
  <1> QED BY <1>5, <1>6, <1>7, <1>8, <1>9 DEF LinksLeadBack, LeadsBack

(* The greatest of a set of numbers with a bound is one of them. *)
LEMMA GreatestOf ==
    ASSUME NEW S, S \subseteq Nat, S # {}, NEW b \in Nat, \A x \in S : x <= b
    PROVE  Max(S) \in S /\ \A x \in S : x <= Max(S)
  <1> DEFINE T == {b - x : x \in S}
  <1>1. T \subseteq Nat /\ T # {}
    <2>1. \A x \in S : b - x \in Nat OBVIOUS
    <2> QED BY <2>1
  <1>2. PICK t \in T : \A u \in T : t <= u
    <2> HIDE DEF T
    <2> QED BY <1>1, LeastOf
  <1>3. PICK g \in S : t = b - g OBVIOUS
  <1>4. \A x \in S : g >= x
    <2> SUFFICES ASSUME NEW x \in S PROVE g >= x OBVIOUS
    <2>1. b - x \in T OBVIOUS
    <2>2. b - g <= b - x BY <1>2, <1>3, <2>1
    <2>3. g \in Nat /\ x \in Nat OBVIOUS
    <2> HIDE DEF T
    <2> QED BY <2>2, <2>3
  <1>5. Max(S) \in S /\ \A y \in S : Max(S) >= y BY <1>4 DEF Max
  <1>6. Max(S) \in Nat BY <1>5
  <1> QED BY <1>5, <1>6

(* A list of numbers has a bound. *)
LEMMA ListHasBound ==
    ASSUME NEW s \in Seq(Nat)
    PROVE  \E b \in Nat : \A i \in 1..Len(s) : s[i] <= b
  <1> DEFINE N == Len(s)
             T == {n \in 0..N : \E b \in Nat : \A i \in 1..n : s[i] <= b}
  <1>1. N \in Nat /\ \A i \in 1..N : s[i] \in Nat OBVIOUS
  <1> HIDE DEF N
  <1>2. 0 \in T BY <1>1
  <1>3. \A n \in 0..N : n < N /\ n \in T => n + 1 \in T
    <2> SUFFICES ASSUME NEW n \in 0..N, n < N, n \in T PROVE n + 1 \in T OBVIOUS
    <2>1. PICK b \in Nat : \A i \in 1..n : s[i] <= b OBVIOUS
    <2>2. PICK m \in 1..N : m = n + 1 BY <1>1
    <2>3. PICK c \in Nat : c >= b /\ c >= s[m] BY <1>1, <2>2
    <2>4. \A i \in 1..m : s[i] <= c
      <3> SUFFICES ASSUME NEW i \in 1..m PROVE s[i] <= c OBVIOUS
      <3>1. s[i] \in Nat BY <1>1
      <3>2. CASE i = m BY <2>3, <3>2
      <3>3. CASE i # m
        <4>1. i \in 1..n BY <2>2, <3>3
        <4> QED BY <2>1, <2>3, <3>1, <4>1
      <3> QED BY <3>2, <3>3
    <2>5. m \in T BY <1>1, <2>2, <2>3, <2>4, SMTT(30)
    <2> QED BY <2>2, <2>5
  <1>4. 0..N \subseteq T
    <2> HIDE DEF T
    <2> QED BY <1>1, <1>2, <1>3, StepByStep
  <1>5. N \in T
    <2> HIDE DEF T
    <2> QED BY <1>1, <1>4
  <1> QED BY <1>5 DEF N

(* The highest disc of an album is one of its discs, and none is higher. *)
LEMMA HighestIsHighest ==
    ASSUME NEW discs \in Seq(Nat), NEW i \in DOMAIN discs
    PROVE  /\ HighestDisc(discs) \in Nat \ {0}
           /\ OneIfZero(discs[i]) \in 1..HighestDisc(discs)
           /\ LET given == {discs[j] : j \in DOMAIN discs}
                  together == {OneIfZero(d) : d \in given} \cup {1}
              IN  Max(together) = HighestDisc(discs)
  <1> DEFINE S == {OneIfZero(discs[j]) : j \in DOMAIN discs}
             together == {OneIfZero(d) : d \in {discs[j] : j \in DOMAIN discs}} \cup {1}
  <1>1. \A j \in DOMAIN discs : discs[j] \in Nat /\ OneIfZero(discs[j]) \in Nat \ {0}
    BY DEF OneIfZero
  <1>2. PICK b \in Nat : \A j \in 1..Len(discs) : discs[j] <= b BY ListHasBound
  <1>3. \A j \in DOMAIN discs : OneIfZero(discs[j]) <= b + 1 BY <1>1, <1>2, SMTT(30) DEF OneIfZero
  <1>4. S \subseteq Nat \ {0} /\ S # {} /\ b + 1 \in Nat /\ \A x \in S : x <= b + 1 BY <1>1, <1>3
  <1>5. together = S \cup {1} OBVIOUS
  <1> HIDE DEF together
  <1>6. Max(S) \in S /\ \A x \in S : x <= Max(S)
    <2> HIDE DEF S
    <2> QED BY <1>4, GreatestOf
  <1>7. OneIfZero(discs[i]) \in S OBVIOUS
  <1>8. Max(together) = Max(S)
    <2>1. together \subseteq Nat /\ together # {} /\ \A x \in together : x <= b + 1
      <3> HIDE DEF S
      <3> QED BY <1>4, <1>5
    <2> HIDE DEF S
    <2>2. Max(together) \in together /\ \A x \in together : x <= Max(together)
      BY <1>4, <2>1, GreatestOf
    <2>3. Max(together) >= Max(S) /\ Max(together) \in Nat BY <1>5, <1>6, <2>1, <2>2
    <2>4. Max(together) <= Max(S)
      <3>1. CASE Max(together) \in S BY <1>6, <3>1
      <3>2. CASE Max(together) = 1
        <4>1. Max(S) \in Nat \ {0} BY <1>4, <1>6
        <4> QED BY <3>2, <4>1
      <3> QED BY <1>5, <2>2, <3>1, <3>2
    <2>5. Max(S) \in Nat BY <1>4, <1>6
    <2> QED BY <2>3, <2>4, <2>5
  <1> HIDE DEF S
  <1>9. Max(S) \in Nat \ {0} BY <1>4, <1>6
  <1>10. OneIfZero(discs[i]) \in 1..Max(S)
    <2>1. PICK d \in Nat \ {0} : d = OneIfZero(discs[i]) /\ d <= Max(S) BY <1>4, <1>6, <1>7
    <2> QED BY <1>9, <2>1
  <1>11. HighestDisc(discs) = Max(S) BY DEF HighestDisc, S
  <1> QED BY <1>8, <1>9, <1>10, <1>11 DEF together

(* A track's number on its disc is its number on the album if only tracks of
   its disc come before it. *)
LEMMA NumbersAgree ==
    ASSUME NEW discs \in Seq(Nat), NEW i \in DOMAIN discs
    PROVE  NumberOnDisc(discs, i) = i <=> \A j \in 1..i : discs[j] = discs[i]
  <1> DEFINE T == {j \in 1..i : discs[j] = discs[i]}
  <1>1. i \in Nat /\ i >= 1 OBVIOUS
  <1>2. IsFiniteSet(1..i) /\ Cardinality(1..i) = i
    <2>1. 1 \in Int /\ i \in Int BY <1>1
    <2>2. IsFiniteSet(1..i) /\ Cardinality(1..i) = IF 1 > i THEN 0 ELSE i - 1 + 1
      BY <2>1, FS_Interval
    <2> QED BY <1>1, <2>2
  <1>3. T \in SUBSET (1..i) OBVIOUS
  <1>4. Cardinality(1..i) = Cardinality(T) => 1..i = T
    <2> HIDE DEF T
    <2> QED BY <1>2, <1>3, FS_Subset
  <1>5. 1..i = T <=> \A j \in 1..i : discs[j] = discs[i] OBVIOUS
  <1>6. NumberOnDisc(discs, i) = Cardinality(T) BY DEF NumberOnDisc
  <1> HIDE DEF T
  <1> QED BY <1>2, <1>4, <1>5, <1>6

(* In order, those are the tracks of the first disc. *)
LEMMA FirstDiscCountsThrough ==
    ASSUME NEW discs \in Seq(Nat), NEW i \in DOMAIN discs, DiscsInOrder(discs)
    PROVE  NumberOnDisc(discs, i) = i <=> OneIfZero(discs[i]) = 1
  <1>1. i \in Nat /\ i >= 1 /\ DOMAIN discs = 1..Len(discs) /\ Len(discs) \in Nat OBVIOUS
  <1>2. \A j \in 1..i : j \in DOMAIN discs /\ discs[j] \in Nat BY <1>1
  <1>3. 1 \in 1..i /\ i \in 1..i BY <1>1
  <1>4. ASSUME NEW j \in 1..i
        PROVE  discs[j] <= discs[i] /\ (discs[j] = 0 <=> discs[i] = 0)
    <2>1. CASE j = i BY <1>2, <2>1
    <2>2. CASE j # i
      <3>1. j < i /\ j \in DOMAIN discs BY <1>1, <1>2, <2>2
      <3> QED BY <3>1 DEF DiscsInOrder
    <2> QED BY <2>1, <2>2
  <1>5. discs[1] = 0 \/ discs[1] = 1 BY DEF DiscsInOrder
  <1>6. ASSUME OneIfZero(discs[i]) = 1 PROVE \A j \in 1..i : discs[j] = discs[i]
    <2>1. discs[i] = 0 \/ discs[i] = 1 BY <1>6 DEF OneIfZero
    <2> QED BY <1>2, <1>3, <1>4, <2>1
  <1>7. ASSUME \A j \in 1..i : discs[j] = discs[i] PROVE OneIfZero(discs[i]) = 1
    <2>1. discs[i] = discs[1] BY <1>3, <1>7
    <2> QED BY <1>5, <2>1 DEF OneIfZero
  <1> QED BY <1>6, <1>7, NumbersAgree

(* Two rows that agree but for their discs, credits and covers. *)
RowField == {"id", "number", "total", "disc", "discs", "credit", "albumCredit", "date", "ms", "cover"}
IsRow(r) == r = [f \in RowField |-> r[f]]
AreAlike(r, s) == \A f \in RowField \ {"disc", "credit", "albumCredit", "cover"} : r[f] = s[f]
Bared(r) == [r EXCEPT !.disc = 1, !.credit = <<>>, !.albumCredit = <<>>, !.cover = {}]

LEMMA RowsAreAlike ==
    ASSUME NEW r, NEW s, IsRow(r), IsRow(s), AreAlike(r, s)
    PROVE  Bared(r) = Bared(s)
  <1> DEFINE rr == Bared(r)
             ss == Bared(s)
  <1>1. DOMAIN r = RowField /\ DOMAIN s = RowField BY DEF IsRow
  <1>2. rr = [f \in RowField |-> rr[f]] BY <1>1 DEF Bared
  <1>3. ss = [f \in RowField |-> ss[f]] BY <1>1 DEF Bared
  <1>4. \A f \in RowField : rr[f] = ss[f] BY <1>1 DEF RowField, AreAlike, Bared
  <1> HIDE DEF rr, ss
  <1>5. rr = ss BY <1>2, <1>3, <1>4
  <1> QED BY <1>5 DEF rr, ss

(* A row without numbers and date has the page's. *)
LEMMA RowIsCompleted ==
    ASSUME NEW r, IsRow(r), r.number = 0, r.total = 0, r.discs = 0, r.date = NoDate, NEW page,
           NEW c, c = CompletedRow(r, page)
    PROVE  /\ IsRow(c) /\ c.number = page.number /\ c.total = page.total /\ c.discs = page.discs
           /\ c.date = page.date /\ c.id = r.id /\ c.disc = r.disc /\ c.ms = r.ms
  <1>1. DOMAIN r = RowField BY DEF IsRow
  <1>2. c = [r EXCEPT !.number = page.number, !.total = page.total, !.discs = page.discs,
          !.date = page.date]
    BY DEF CompletedRow
  <1>3. c = [f \in RowField |-> c[f]] BY <1>1, <1>2
  <1> QED BY <1>1, <1>2, <1>3 DEF RowField, IsRow

(* What the row of a track among its album's says, and its own page. *)
RowSays(q, j, row) ==
    /\ row.id = j /\ row.number = j /\ row.total = Len(q.discs) /\ row.ms = DurationMs(q.lengths[j])
    /\ row.disc = OneIfZero(q.discs[j])
    /\ row.discs = IF q.declared THEN HighestDisc(q.discs) ELSE 1
    /\ row.credit = q.first \o q.others /\ row.albumCredit = q.albumCredit
    /\ row.date = q.date.iso /\ row.cover = Shown(CoverImage(q.sources))

PageSays(q, page) ==
    /\ page.number = NumberOnDisc(q.discs, q.i) /\ page.ms = DurationMs(q.lengths[q.i])
    /\ page.credit = q.first \o q.others
    /\ q.inAlbum => /\ page.total = Len(q.discs) /\ page.albumCredit = q.albumCredit
                    /\ page.date = DateOf(q.date) /\ page.cover = Shown(CoverImage(q.sources))
    /\ q.inAlbum /\ q.reached => page.disc = OneIfZero(q.discs[q.i]) /\ page.discs = HighestDisc(q.discs)
    /\ q.inAlbum /\ ~q.reached /\ q.said.discs
         => page.disc \in {1, OneIfZero(q.discs[q.i])} /\ page.discs = HighestDisc(q.discs)

(* The row of a track. *)
LEMMA RowOfTrack ==
    ASSUME NEW q \in TrackQuestions, NEW a, a = AlbumAsked(q), NEW j \in DOMAIN q.discs
    PROVE  RowSays(q, j, AlbumRow(a, j))
  <1>1. q.discs \in Seq(Nat) /\ DOMAIN q.discs = 1..Len(q.discs) /\ Len(q.discs) \in Nat
    <2>1. q.discs \in Seq(Nat) BY TrackAssumption DEF TrackAssumption
    <2> QED BY <2>1
  <1>2. HighestDisc(q.discs) # Unsaid
    <2>1. HighestDisc(q.discs) \in Nat \ {0} BY <1>1, HighestIsHighest
    <2> QED BY <2>1 DEF Unsaid
  <1>3. /\ a.declared = IF q.declared THEN HighestDisc(q.discs) ELSE Unsaid
        /\ a.credit = q.albumCredit /\ a.date = q.date /\ a.sources = q.sources
        /\ a.tracks = [k \in 1..Len(q.discs) |-> [id |-> k, disc |-> q.discs[k], ms |-> q.lengths[k],
                                                  credit |-> q.first \o q.others]]
    BY <1>1 DEF AlbumAsked
  <1>4. Len(a.tracks) = Len(q.discs) BY <1>1, <1>3
  <1>5. /\ a.tracks[j].id = j /\ a.tracks[j].disc = q.discs[j] /\ a.tracks[j].ms = q.lengths[j]
        /\ a.tracks[j].credit = q.first \o q.others
    <2>1. PICK c : c = q.first \o q.others OBVIOUS
    <2>2. a.tracks[j] = [id |-> j, disc |-> q.discs[j], ms |-> q.lengths[j], credit |-> c]
      BY <1>1, <1>3, <2>1
    <2>3. /\ a.tracks[j].id = j /\ a.tracks[j].disc = q.discs[j] /\ a.tracks[j].ms = q.lengths[j]
          /\ a.tracks[j].credit = c
      BY ONLY <2>2
    <2> QED BY <2>1, <2>3
  <1>6. AlbumDiscs(a) = IF q.declared THEN HighestDisc(q.discs) ELSE 1 BY <1>2, <1>3 DEF AlbumDiscs
  <1> QED BY <1>3, <1>4, <1>5, <1>6 DEF AlbumRow, RowSays

(* What an album that could be read says. *)
LEMMA AlbumIsRead ==
    ASSUME NEW q \in TrackQuestions, NEW a, a = AlbumAsked(q), NEW t, t.id = q.i
    PROVE  /\ FetchedAlbum(a).rows # <<>>
           /\ FetchedAlbum(a).credit = q.albumCredit
           /\ TrackDisc(t, FetchedAlbum(a)) = OneIfZero(q.discs[q.i])
           /\ TrackDiscs(t, FetchedAlbum(a)) = HighestDisc(q.discs)
  <1> DEFINE f == FetchedAlbum(a)
             N == Len(q.discs)
             R == f.rows
  <1>1. q.discs \in Seq(Nat) /\ DOMAIN q.discs = 1..N /\ N \in Nat /\ q.i \in 1..N
    <2>1. q.discs \in Seq(Nat) /\ q.i \in DOMAIN q.discs BY TrackAssumption DEF TrackAssumption
    <2>2. DOMAIN q.discs = 1..Len(q.discs) /\ Len(q.discs) \in Nat BY <2>1
    <2> QED BY <2>1, <2>2
  <1>2. DOMAIN a.tracks = 1..N /\ a.credit = q.albumCredit BY <1>1 DEF AlbumAsked
  <1>3. R = [j \in 1..N |-> AlbumRow(a, j)] /\ f.credit = q.albumCredit
    BY <1>2 DEF FetchedAlbum, AlbumRows
  <1> HIDE DEF f
  <1>4. DOMAIN R = 1..N /\ \A j \in 1..N : R[j].id = j /\ R[j].disc = OneIfZero(q.discs[j])
    <2>1. DOMAIN R = 1..N /\ \A j \in 1..N : R[j] = AlbumRow(a, j) BY <1>1, <1>3
    <2>2. \A j \in DOMAIN q.discs : AlbumRow(a, j).id = j /\ AlbumRow(a, j).disc = OneIfZero(q.discs[j])
      <3>1. \A j \in DOMAIN q.discs : RowSays(q, j, AlbumRow(a, j)) BY RowOfTrack
      <3> QED BY ONLY <3>1 DEF RowSays
    <2> QED BY <1>1, <2>1, <2>2
  <1>5. R # <<>> BY <1>1, <1>4
  <1>6. {j \in DOMAIN R : R[j].id = t.id} = {q.i} BY <1>1, <1>4
  <1>7. Max({q.i}) = q.i
    <2>1. q.i >= q.i BY <1>1
    <2> QED BY <2>1 DEF Max
  <1>8. TrackDisc(t, f) = OneIfZero(q.discs[q.i]) BY <1>1, <1>4, <1>6, <1>7 DEF TrackDisc
  <1>9. {R[j].disc : j \in DOMAIN R} = {OneIfZero(q.discs[j]) : j \in DOMAIN q.discs}
    BY <1>1, <1>4, SMTT(30)
  <1>10. TrackDiscs(t, f) = HighestDisc(q.discs) BY <1>5, <1>9 DEF TrackDiscs, HighestDisc
  <1> QED BY <1>3, <1>5, <1>8, <1>10 DEF f

(* The page of the track. *)
LEMMA PageOfTrack ==
    ASSUME NEW q \in TrackQuestions, NEW a, a = AlbumAsked(q), NEW t, t = TrackOf(q),
           NEW f, f = IF q.reached /\ q.inAlbum THEN FetchedAlbum(a) ELSE NotFetched,
           NEW page, page = TrackPage(t, f)
    PROVE  PageSays(q, page)
  <1>1. /\ q.discs \in Seq(Nat) /\ q.i \in DOMAIN q.discs /\ q.first \o q.others # NoCredit
    BY TrackAssumption DEF TrackAssumption
  <1>2. /\ t.id = q.i /\ t.number = NumberOnDisc(q.discs, q.i) /\ t.ms = q.lengths[q.i]
        /\ t.inAlbum = q.inAlbum /\ t.first = q.first /\ t.others = q.others
        /\ t.disc = IF q.said.disc THEN q.discs[q.i] ELSE 0
        /\ t.credit = IF q.said.credit THEN q.first \o q.others ELSE NoCredit
        /\ t.visual = IF q.said.disc THEN q.sources ELSE {}
        /\ t.album.credit = q.albumCredit /\ t.album.total = Len(q.discs) /\ t.album.date = q.date
        /\ t.album.sources = q.sources
        /\ t.album.discs = IF q.said.discs THEN {q.discs[j] : j \in DOMAIN q.discs} ELSE {}
    BY DEF TrackOf
  <1>3. /\ page.number = t.number /\ page.ms = DurationMs(t.ms) /\ page.credit = TrackCredit(t)
        /\ page.total = IF t.inAlbum THEN t.album.total ELSE 0
        /\ page.albumCredit = TrackAlbumCredit(t, f)
        /\ page.date = IF t.inAlbum THEN DateOf(t.album.date) ELSE NoDate
        /\ page.cover = Shown(TrackCover(t)) /\ page.disc = TrackDisc(t, f) /\ page.discs = TrackDiscs(t, f)
    BY DEF TrackPage
  <1>4. TrackCredit(t) = q.first \o q.others
    <2> DEFINE credit == q.first \o q.others
    <2> HIDE DEF credit
    <2>1. t.first \o t.others = credit BY <1>2 DEF credit
    <2>2. credit # NoCredit /\ t.credit = IF q.said.credit THEN credit ELSE NoCredit
      BY <1>1, <1>2 DEF credit
    <2>3. TrackCredit(t) = credit BY <2>1, <2>2 DEF TrackCredit
    <2> QED BY <2>3 DEF credit
  <1>5. q.inAlbum => TrackAlbumCredit(t, f) = q.albumCredit
    <2>1. ~q.reached => f.credit = NoCredit BY DEF NotFetched
    <2>2. q.inAlbum /\ q.reached => f.credit = q.albumCredit BY <1>2, AlbumIsRead
    <2> QED BY <1>2, <2>1, <2>2 DEF TrackAlbumCredit
  <1>6. q.inAlbum => TrackCover(t) = CoverImage(q.sources)
    BY <1>2 DEF TrackCover, NoCover
  <1>7. q.inAlbum /\ q.reached => page.disc = OneIfZero(q.discs[q.i]) /\ page.discs = HighestDisc(q.discs)
    BY <1>2, <1>3, AlbumIsRead
  <1>8. q.inAlbum /\ ~q.reached /\ q.said.discs
            => page.disc \in {1, OneIfZero(q.discs[q.i])} /\ page.discs = HighestDisc(q.discs)
    <2> SUFFICES ASSUME q.inAlbum, ~q.reached, q.said.discs
                 PROVE  page.disc \in {1, OneIfZero(q.discs[q.i])} /\ page.discs = HighestDisc(q.discs)
      OBVIOUS
    <2>1. f.rows = <<>> /\ DOMAIN f.rows = {} BY DEF NotFetched
    <2>2. TrackDisc(t, f) = OneIfZero(t.disc) BY <2>1 DEF TrackDisc
    <2>3. OneIfZero(t.disc) \in {1, OneIfZero(q.discs[q.i])} BY <1>2 DEF OneIfZero
    <2> DEFINE together == {OneIfZero(d) : d \in {q.discs[j] : j \in DOMAIN q.discs}} \cup {1}
    <2>4. {OneIfZero(d) : d \in t.album.discs} \cup {1} = together BY <1>2
    <2>5. Max(together) = HighestDisc(q.discs) BY <1>1, HighestIsHighest
    <2> HIDE DEF together
    <2>6. TrackDiscs(t, f) = HighestDisc(q.discs) BY <1>2, <2>1, <2>4, <2>5 DEF TrackDiscs
    <2> QED BY <1>3, <2>2, <2>3, <2>6
  <1> QED BY <1>2, <1>3, <1>4, <1>5, <1>6, <1>7, <1>8 DEF PageSays

(* A track of its own agrees with the same among its album's, is on one of its
   discs, and is what a row of a playlist is completed to. *)
LEMMA TracksAgree ==
    ASSUME question \in TrackQuestions, answer = TrackAnswer(question)
    PROVE  TrackAgreesWithAlbum /\ DiscWithinDiscs /\ PlaylistRowIsCompleted
  <1> DEFINE q == question
             a == AlbumAsked(q)
             t == TrackOf(q)
             f == IF q.reached /\ q.inAlbum THEN FetchedAlbum(a) ELSE NotFetched
             page == TrackPage(t, f)
             row == AlbumRow(a, q.i)
             disc == OneIfZero(q.discs[q.i])
             H == HighestDisc(q.discs)
  <1>1. /\ answer.page = page /\ answer.row = row /\ answer.release = ReleaseRow(a)
        /\ answer.completed = CompletedRow(PlaylistRow(t), page)
    BY DEF TrackAnswer
  <1>2. q.discs \in Seq(Nat) /\ q.i \in DOMAIN q.discs BY TrackAssumption DEF TrackAssumption
  <1>3. H \in Nat \ {0} /\ disc \in 1..H BY <1>2, HighestIsHighest
  <1>4. PageSays(q, page)
    <2> HIDE DEF page, f, a, t
    <2> QED BY PageOfTrack DEF page, f, a, t
  <1>5. RowSays(q, q.i, row)
    <2> HIDE DEF a
    <2> QED BY <1>2, RowOfTrack DEF a
  <1>6. answer.release.date = DateOf(q.date) BY <1>1 DEF ReleaseRow, AlbumAsked
  <1>7. DiscsInOrder(q.discs) => (NumberOnDisc(q.discs, q.i) = q.i <=> disc = 1)
    BY <1>2, FirstDiscCountsThrough
  <1>8. q.date.iso # NoDate => DateOf(q.date) = q.date.iso BY DEF DateOf
  <1> HIDE DEF page, row, a, t, disc, H
  <1>9. TrackAgreesWithAlbum
    BY <1>1, <1>4, <1>5, <1>6, <1>7, <1>8 DEF TrackAgreesWithAlbum, RowSays, PageSays, disc, H
  <1>10. DiscWithinDiscs
    <2>1. 1 \in 1..H BY <1>3
    <2> QED BY <1>1, <1>3, <1>4, <1>5, <2>1 DEF DiscWithinDiscs, RowSays, PageSays, disc, H
  <1>11. PlaylistRowIsCompleted
    <2> DEFINE bare == PlaylistRow(t)
               completed == CompletedRow(bare, page)
    <2>1. t.ms = q.lengths[q.i] /\ t.id = q.i /\ t.disc = IF q.said.disc THEN q.discs[q.i] ELSE 0
      BY DEF t, TrackOf
    <2>2. /\ IsRow(bare) /\ bare.number = 0 /\ bare.total = 0 /\ bare.discs = 0 /\ bare.date = NoDate
          /\ bare.id = t.id /\ bare.disc = t.disc /\ bare.ms = DurationMs(t.ms)
      BY DEF PlaylistRow, IsRow, RowField
    <2>3. IsRow(page) /\ page.id = t.id /\ page.ms = DurationMs(t.ms)
      BY DEF page, TrackPage, IsRow, RowField
    <2> HIDE DEF bare
    <2>4. /\ IsRow(completed) /\ completed.number = page.number /\ completed.total = page.total
          /\ completed.discs = page.discs /\ completed.date = page.date /\ completed.id = bare.id
          /\ completed.disc = bare.disc /\ completed.ms = bare.ms
      BY <2>2, RowIsCompleted
    <2> HIDE DEF completed
    <2>5. AreAlike(completed, page) BY <2>2, <2>3, <2>4 DEF RowField, AreAlike
    <2>6. Bared(completed) = Bared(page) BY <2>3, <2>4, <2>5, RowsAreAlike
    <2>7. q.said.disc /\ q.inAlbum /\ q.reached /\ completed.disc # 0 => completed.disc = page.disc
      BY <1>4, <2>1, <2>2, <2>4 DEF PageSays, OneIfZero
    <2>8. answer.completed = completed /\ answer.page = page BY <1>1 DEF completed, bare
    <2> QED BY <2>6, <2>7, <2>8 DEF PlaylistRowIsCompleted, Bared
  <1> QED BY <1>9, <1>10, <1>11

-----------------------------------------------------------------------------
(* Each question is of one kind, and its answer is the one for that kind.     *)

AnsweredRightly ==
    \/ question \in TrackQuestions /\ answer = TrackAnswer(question)
    \/ question \in CoverQuestions /\ answer = CoverAnswer(question)
    \/ question \in LinkQuestions /\ answer = LinkAnswer(question)
    \/ question \in NameQuestions /\ answer = NameAnswer(question)
    \/ question \in ExistsQuestions /\ answer = ExistsAnswer(question)
    \/ question \in LengthQuestions /\ answer = LengthAnswer(question)
    \/ question \in LyricsQuestions /\ answer = LyricsAnswer(question)
    \/ question \in TextQuestions /\ answer = TextAnswer(question)
    \/ question \in MatchQuestions /\ answer = MatchAnswer(question)

Questions == TrackQuestions \cup CoverQuestions \cup LinkQuestions \cup NameQuestions
               \cup ExistsQuestions \cup LengthQuestions \cup LyricsQuestions
               \cup TextQuestions \cup MatchQuestions

AnswersInv == question \in Questions /\ (answer = NotAnswered \/ AnsweredRightly)

(* A question says of which kind it is. *)
LEMMA KindsOfQuestions ==
    ASSUME NEW q \in Questions
    PROVE  /\ q.about = "track" => q \in TrackQuestions
           /\ q.about = "cover" => q \in CoverQuestions
           /\ q.about = "link" => q \in LinkQuestions
           /\ q.about = "name" => q \in NameQuestions
           /\ q.about = "exists" => q \in ExistsQuestions
           /\ q.about = "length" => q \in LengthQuestions
           /\ q.about = "lyrics" => q \in LyricsQuestions
           /\ q.about = "text" => q \in TextQuestions
           /\ q.about = "match" => q \in MatchQuestions
  <1>1. /\ q \in TrackQuestions => q.about = "track"
        /\ q \in CoverQuestions => q.about = "cover"
        /\ q \in LinkQuestions => q.about = "link"
        /\ q \in NameQuestions => q.about = "name"
        /\ q \in ExistsQuestions => q.about = "exists"
        /\ q \in LengthQuestions => q.about = "length"
        /\ q \in LyricsQuestions => q.about = "lyrics"
        /\ q \in TextQuestions => q.about = "text"
        /\ q \in MatchQuestions => q.about = "match"
    BY TrackAssumption, CoverAssumption, LinkAssumption, NameAssumption, ExistsAssumption,
       LengthAssumption, LyricsAssumption, TextAssumption, MatchAssumption
    DEF TrackAssumption, CoverAssumption, LinkAssumption, NameAssumption, ExistsAssumption,
        LengthAssumption, LyricsAssumption, TextAssumption, MatchAssumption
  <1> QED BY <1>1 DEF Questions

(* A question is answered by its own kind of answer. *)
LEMMA AnswersStep == AnswersInv /\ [AnswersNext]_answerVars => AnswersInv'
  <1> SUFFICES ASSUME AnswersInv, [AnswersNext]_answerVars PROVE AnswersInv' OBVIOUS
  <1>1. CASE UNCHANGED answerVars
    <2>1. question' = question /\ answer' = answer BY <1>1 DEF answerVars
    <2> QED BY <2>1 DEF AnswersInv, AnsweredRightly
  <1>2. CASE AnswersNext
    <2>1. /\ question \in Questions /\ question' = question
          /\ \/ question.about = "track" /\ answer' = TrackAnswer(question)
             \/ question.about = "cover" /\ answer' = CoverAnswer(question)
             \/ question.about = "link" /\ answer' = LinkAnswer(question)
             \/ question.about = "name" /\ answer' = NameAnswer(question)
             \/ question.about = "exists" /\ answer' = ExistsAnswer(question)
             \/ question.about = "length" /\ answer' = LengthAnswer(question)
             \/ question.about = "lyrics" /\ answer' = LyricsAnswer(question)
             \/ question.about = "text" /\ answer' = TextAnswer(question)
             \/ question.about = "match" /\ answer' = MatchAnswer(question)
      BY <1>2 DEF AnswersNext, Answering, AnswersInv
    <2>2. \/ question \in TrackQuestions /\ answer' = TrackAnswer(question)
          \/ question \in CoverQuestions /\ answer' = CoverAnswer(question)
          \/ question \in LinkQuestions /\ answer' = LinkAnswer(question)
          \/ question \in NameQuestions /\ answer' = NameAnswer(question)
          \/ question \in ExistsQuestions /\ answer' = ExistsAnswer(question)
          \/ question \in LengthQuestions /\ answer' = LengthAnswer(question)
          \/ question \in LyricsQuestions /\ answer' = LyricsAnswer(question)
          \/ question \in TextQuestions /\ answer' = TextAnswer(question)
          \/ question \in MatchQuestions /\ answer' = MatchAnswer(question)
      BY <2>1, KindsOfQuestions
    <2> QED BY <2>1, <2>2 DEF AnswersInv, AnsweredRightly
  <1> QED BY <1>1, <1>2

(* What the right answers have in common. *)
AnswersHold ==
    /\ TrackAgreesWithAlbum /\ DiscWithinDiscs /\ PlaylistRowIsCompleted
    /\ CoverIsFound /\ LinksLeadBack
    /\ NextDownloadIsSkipped /\ CheckFindsDownload /\ HybridFindsMost /\ LengthBands
    /\ SyncedAreTaken /\ TextIsKept
    /\ OwnedIsMatched

(* An answer about one thing promises nothing of another. *)
LEMMA OtherAnswers ==
    /\ answer.about # "track" => TrackAgreesWithAlbum /\ DiscWithinDiscs /\ PlaylistRowIsCompleted
    /\ answer.about # "cover" => CoverIsFound
    /\ answer.about # "link" => LinksLeadBack
    /\ answer.about # "name" => NextDownloadIsSkipped /\ CheckFindsDownload
    /\ answer.about # "exists" => HybridFindsMost
    /\ answer.about # "length" => LengthBands
    /\ answer.about # "lyrics" /\ answer.about # "text" => SyncedAreTaken
    /\ answer.about # "text" => TextIsKept
    /\ answer.about # "match" => OwnedIsMatched
  BY DEF Is, TrackAgreesWithAlbum, DiscWithinDiscs, PlaylistRowIsCompleted, CoverIsFound,
         LinksLeadBack,
         NextDownloadIsSkipped, CheckFindsDownload, HybridFindsMost, LengthBands, SyncedAreTaken,
         TextIsKept, OwnedIsMatched

(* The right answers agree. *)
LEMMA RightAnswersAgree == AnswersInv => AnswersHold
  <1> SUFFICES ASSUME AnswersInv PROVE AnswersHold OBVIOUS
  <1>1. CASE answer = NotAnswered
    <2>1. answer.about = "nothing" BY <1>1 DEF NotAnswered
    <2> QED BY <2>1, OtherAnswers DEF AnswersHold
  <1>2. CASE question \in TrackQuestions /\ answer = TrackAnswer(question)
    <2>1. answer.about = "track" BY <1>2 DEF TrackAnswer
    <2> QED BY <1>2, <2>1, TracksAgree, OtherAnswers DEF AnswersHold
  <1>3. CASE question \in CoverQuestions /\ answer = CoverAnswer(question)
    <2>1. answer.about = "cover" BY <1>3 DEF CoverAnswer
    <2> QED BY <1>3, <2>1, CoversAreFound, OtherAnswers DEF AnswersHold
  <1>4. CASE question \in LinkQuestions /\ answer = LinkAnswer(question)
    <2>1. answer.about = "link" BY <1>4 DEF LinkAnswer
    <2> QED BY <1>4, <2>1, LinksAreFollowed, OtherAnswers DEF AnswersHold
  <1>5. CASE question \in NameQuestions /\ answer = NameAnswer(question)
    <2>1. answer.about = "name" BY <1>5 DEF NameAnswer
    <2> QED BY <1>5, <2>1, SkippedAsDownloaded, OtherAnswers DEF AnswersHold
  <1>6. CASE question \in ExistsQuestions /\ answer = ExistsAnswer(question)
    <2>1. answer.about = "exists" BY <1>6 DEF ExistsAnswer
    <2> QED BY <1>6, <2>1, HybridFinds, OtherAnswers DEF AnswersHold
  <1>7. CASE question \in LengthQuestions /\ answer = LengthAnswer(question)
    <2>1. answer.about = "length" BY <1>7 DEF LengthAnswer
    <2> QED BY <1>7, <2>1, LengthsAreJudged, OtherAnswers DEF AnswersHold
  <1>8. CASE question \in LyricsQuestions /\ answer = LyricsAnswer(question)
    <2>1. answer.about = "lyrics" BY <1>8 DEF LyricsAnswer
    <2>2. SyncedAreTaken BY <1>8, <2>1, LyricsAreTaken DEF SyncedAreTaken, Is
    <2> QED BY <2>1, <2>2, OtherAnswers DEF AnswersHold
  <1>9. CASE question \in TextQuestions /\ answer = TextAnswer(question)
    <2>1. answer.about = "text" BY <1>9 DEF TextAnswer
    <2>2. SyncedAreTaken BY <1>9, <2>1, TextsAreKept DEF SyncedAreTaken, Is
    <2> QED BY <1>9, <2>1, <2>2, TextsAreKept, OtherAnswers DEF AnswersHold
  <1>10. CASE question \in MatchQuestions /\ answer = MatchAnswer(question)
    <2>1. answer.about = "match" BY <1>10 DEF MatchAnswer
    <2> QED BY <1>10, <2>1, OwnedIsFound, OtherAnswers DEF AnswersHold
  <1> QED
    BY <1>1, <1>2, <1>3, <1>4, <1>5, <1>6, <1>7, <1>8, <1>9, <1>10 DEF AnswersInv, AnsweredRightly

(* Whatever is asked of them, the parts of the code that answer the same question
   by code of their own answer it alike: a track alone, in its album and in a
   playlist; a cover, a link, a name, a file, lyrics, a song. *)
THEOREM AnswersCorrect == AnswersSpec => []AnswersHold
  <1>1. AnswersInit => AnswersInv BY DEF AnswersInit, AnswersInv, Questions
  <1> QED BY <1>1, AnswersStep, RightAnswersAgree, PTL DEF AnswersSpec
==============================================================================
