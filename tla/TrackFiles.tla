------------------------------ MODULE TrackFiles ------------------------------
(***************************************************************************)
(* The files of one track: what DownloadTrack, the downloader and the two  *)
(* steps after it leave on disk (app.go:700-925, backend/flacit.go:100-236, *)
(* backend/resample.go:143-194, backend/ffmpeg.go:756-842), one attempt    *)
(* after another, with other settings each time.  The gateway may fail,    *)
(* ffmpeg may fail or be killed by a cancellation, renames and writes may  *)
(* fail, and the process may die between any two steps; the queue then     *)
(* runs the track again.                                                   *)
(***************************************************************************)
EXTENDS Integers, FiniteSets

CONSTANTS
    AttemptSettings, \* settings of an attempt: [suffix, resample, replace, convert, remove]
    LastSuffix,     \* bound: x.flac, x_01.flac, ... up to this number
    MaxAttempts,    \* bound: attempts
    MaxFileCrashes, \* bound: times the process dies
    MaxFileFaults   \* bound: renames and writes that fail

ASSUME TrackFilesAssumption ==
    /\ AttemptSettings \subseteq [suffix : BOOLEAN, resample : BOOLEAN, replace : BOOLEAN,
                          convert : BOOLEAN, remove : BOOLEAN]
    /\ LastSuffix \in Nat /\ MaxAttempts \in Nat /\ MaxFileCrashes \in Nat /\ MaxFileFaults \in Nat

(* x.flac, x.autoresample.flac, x.autoresample-backup.flac, x [label].flac,
   x.mp3 and x [label].mp3, x being the name with its suffix. *)
Suffix == 0..LastSuffix
Extension == {"flac", "resampling", "backup", "labelled", "converted", "labelled converted"}
TrackPath == Suffix \X Extension

VARIABLES
    trackDisk,      \* each path: "absent", "partial", "whole" or "damaged", which
                    \* is in part for good: a write failed and was only warned about
    covers,         \* so for each x.flac.cover.jpg
    fetch,          \* the goroutine that downloads the cover to tag with
    attempt,        \* [pc, set, name, file, original]
    finished,       \* history: the whole files that attempts have reported
    told,           \* what the last attempt returned: [ok, found, file]
    filesIndexed,   \* the files that noteLibraryFile has taken up
    attempts, fileCrashes, fileFaults

coverVars == <<covers, fetch>>
filesVars == <<trackDisk, covers, fetch, attempt, finished, told, filesIndexed, attempts,
               fileCrashes, fileFaults>>

NoPath == <<0, "none">>
NoSettings == [suffix |-> FALSE, resample |-> FALSE, replace |-> FALSE, convert |-> FALSE, remove |-> FALSE]
NoAttempt == [pc |-> "none", set |-> NoSettings, name |-> 0, file |-> NoPath, original |-> NoPath]

FilesInit ==
    /\ trackDisk = [p \in TrackPath |-> "absent"]
    /\ covers = [n \in Suffix |-> "absent"] /\ fetch = "none"
    /\ attempt = NoAttempt
    /\ finished = {} /\ told = [ok |-> FALSE, found |-> FALSE, file |-> NoPath]
    /\ filesIndexed = {} /\ attempts = 0 /\ fileCrashes = 0 /\ fileFaults = 0

Has(p) == trackDisk[p] # "absent"
At(pc) == attempt.pc = pc
To(pc) == attempt' = [attempt EXCEPT !.pc = pc]
Put(p, is) == trackDisk' = [trackDisk EXCEPT ![p] = is]
Still == UNCHANGED <<finished, told, filesIndexed, attempts, fileCrashes, fileFaults, covers, fetch>>
Failed == attempt' = NoAttempt /\ told' = [ok |-> FALSE, found |-> FALSE, file |-> NoPath]

Begin(set) ==
    /\ At("none") /\ attempts < MaxAttempts /\ attempts' = attempts + 1
    /\ attempt' = [NoAttempt EXCEPT !.pc = "check", !.set = set]
    /\ UNCHANGED <<trackDisk, finished, told, filesIndexed, fileCrashes, fileFaults, covers, fetch>>

FoundAt(p) ==
    /\ attempt' = NoAttempt
    /\ told' = [ok |-> TRUE, found |-> TRUE, file |-> p]
    /\ UNCHANGED <<trackDisk, finished, filesIndexed, attempts, fileCrashes, fileFaults, covers, fetch>>

(* DownloadTrack's own check, of the name the file will have in the end: more
   than 100 KB of it, which a part of the file may have or not. *)
ExpectedPath == <<0, IF attempt.set.convert THEN "converted" ELSE "flac">>

LookForFile ==
    /\ At("check")
    /\ \/ ~attempt.set.suffix /\ Has(ExpectedPath) /\ FoundAt(ExpectedPath)
       \/ /\ attempt.set.suffix \/ trackDisk[ExpectedPath] # "whole"
          /\ To("resolve") /\ Still /\ UNCHANGED trackDisk

\* mutant: no name is taken
TakenNever(n) == FALSE

(* ResolveOutputPathForDownload: not an empty file, or the first free suffix.
   A part of a file may be empty still. *)
Taken(n) == Has(<<n, "flac">>)
ResolvedSuffix(n) == ~Taken(n) /\ \A i \in 0..(n - 1) : Taken(i)

(* With a name, the cover is asked for beside the gateway, if the track has one. *)
Resolve ==
    /\ At("resolve")
    /\ \/ ~attempt.set.suffix /\ Taken(0) /\ FoundAt(<<0, "flac">>)
       \/ /\ \/ /\ ~attempt.set.suffix /\ trackDisk[<<0, "flac">>] # "whole"
                /\ attempt' = [attempt EXCEPT !.pc = "create", !.name = 0]
             \/ \E n \in Suffix : /\ attempt.set.suffix /\ ResolvedSuffix(n)
                                  /\ attempt' = [attempt EXCEPT !.pc = "create", !.name = n]
          /\ fetch' \in {"none", "asked"}
          /\ UNCHANGED <<trackDisk, covers, finished, told, filesIndexed, attempts, fileCrashes, fileFaults>>

FailsOnce == fileFaults < MaxFileFaults /\ fileFaults' = fileFaults + 1

CoverIs(is) == covers' = [covers EXCEPT ![attempt.name] = is]

(* DownloadCoverToPath.  If it fails after os.Create what it has written stays,
   and "" is sent as for one that wrote nothing. *)
FetchCover ==
    /\ \/ fetch = "asked" /\ fetch' = "writing" /\ CoverIs("partial") /\ UNCHANGED fileFaults
       \/ fetch = "asked" /\ fetch' = "failed" /\ UNCHANGED <<covers, fileFaults>>
       \/ fetch = "writing" /\ fetch' = "sent" /\ CoverIs("whole") /\ UNCHANGED fileFaults
       \/ fetch = "writing" /\ FailsOnce /\ fetch' = "failed" /\ CoverIs("damaged")
    /\ UNCHANGED <<trackDisk, attempt, finished, told, filesIndexed, attempts, fileCrashes>>

CoverIsIn == fetch \in {"none", "sent", "failed"}

\* mutant: only the way that uses the cover removes it
UncoveredOnSuccess ==
    /\ fetch' = "none"
    /\ IF fetch = "sent" /\ At("uncover") THEN CoverIs("absent") ELSE UNCHANGED covers

(* The deferred removal, of a cover whose path was sent.                   *)
Uncovered ==
    /\ fetch' = "none"
    /\ IF fetch = "sent" THEN CoverIs("absent") ELSE UNCHANGED covers

(* The gateway or downloadFile; an error while the body comes in removes the file. *)
Landing == <<attempt.name, "flac">>

Create ==
    /\ At("create") /\ Still
    /\ \/ Put(Landing, "partial") /\ To("receive")
       \/ To("give up") /\ UNCHANGED trackDisk

\* mutant: an error leaves what has come so far
LeftAfterError == UNCHANGED trackDisk

RemovedAfterError == Put(Landing, "absent")

Receive ==
    /\ At("receive") /\ Still
    /\ \/ /\ Put(Landing, "whole")
          /\ attempt' = [attempt EXCEPT !.pc = "tag", !.file = Landing, !.original = Landing]
       \/ RemovedAfterError /\ To("give up")

(* Download returns the error once the cover is in or has failed.          *)
GiveUp ==
    /\ At("give up") /\ CoverIsIn
    /\ Uncovered /\ Failed
    /\ UNCHANGED <<trackDisk, finished, filesIndexed, attempts, fileCrashes, fileFaults>>

(* What is made of a damaged file is damaged.                              *)
AsGoodAs(p) == IF trackDisk[p] = "damaged" THEN "damaged" ELSE "whole"

(* Tags and lyrics are written into the file itself, if it can be read and
   there is anything to write; the write may fail, which is only warned about. *)
WriteTags(p, from, writing, to) ==
    \/ At(from) /\ To(to) /\ Still /\ UNCHANGED trackDisk
    \/ /\ At(from) /\ To(writing) /\ Still
       /\ Put(p, IF trackDisk[p] = "damaged" THEN "damaged" ELSE "partial")
    \/ At(writing) /\ Put(p, AsGoodAs(p)) /\ To(to) /\ Still
    \/ /\ At(writing) /\ FailsOnce /\ Put(p, "damaged") /\ To(to)
       /\ UNCHANGED <<finished, told, filesIndexed, attempts, fileCrashes, covers, fetch>>

TagFile == CoverIsIn /\ WriteTags(attempt.file, "tag", "writing tags", "uncover")

Uncover ==
    /\ At("uncover") /\ To("validate") /\ Uncovered
    /\ UNCHANGED <<trackDisk, finished, told, filesIndexed, attempts, fileCrashes, fileFaults>>

(* A cancellation, a preview or a file of the wrong length is removed.     *)
Validate ==
    /\ At("validate")
    /\ \/ To("lyrics") /\ Still /\ UNCHANGED trackDisk
       \/ /\ RemovedAfterError /\ Failed
          /\ UNCHANGED <<finished, filesIndexed, attempts, fileCrashes, fileFaults, covers, fetch>>

EmbedLyrics == WriteTags(attempt.file, "lyrics", "writing lyrics", "resample")
-----------------------------------------------------------------------------
(* ResampleDownloadedFile: to a name of its own, or in place of the file by
   way of a backup. *)
ResampleOutput == <<attempt.name, IF attempt.set.replace THEN "resampling" ELSE "labelled">>
Backup == <<attempt.name, "backup">>

RunResample ==
    \/ /\ At("resample") /\ attempt.set.resample
       /\ Put(ResampleOutput, "partial") /\ To("resampling") /\ Still
    \/ At("resample") /\ ~attempt.set.resample /\ To("convert") /\ Still /\ UNCHANGED trackDisk
    \/ /\ At("resampling") /\ Put(ResampleOutput, AsGoodAs(attempt.file)) /\ Still
       /\ attempt' = [attempt EXCEPT !.pc = IF attempt.set.replace THEN "backup" ELSE "convert",
                                     !.file = IF attempt.set.replace THEN @ ELSE ResampleOutput]
    \/ /\ At("resampling") /\ Put(ResampleOutput, "absent") /\ Failed
       /\ UNCHANGED <<finished, filesIndexed, attempts, fileCrashes, fileFaults, covers, fetch>>

\* mutant: the original is removed and not set aside
MovedAwayForGood(from, to) == trackDisk' = [trackDisk EXCEPT ![to] = "absent", ![from] = "absent"]

(* The old backup is removed and the original renamed to it.               *)
Moved(from, to) == trackDisk' = [trackDisk EXCEPT ![to] = trackDisk[from], ![from] = "absent"]

SetAside ==
    /\ At("backup")
    /\ \/ Moved(attempt.file, Backup) /\ To("place") /\ Still
       \/ /\ FailsOnce /\ Failed
          /\ trackDisk' = [trackDisk EXCEPT ![Backup] = "absent", ![ResampleOutput] = "absent"]
          /\ UNCHANGED <<finished, filesIndexed, attempts, fileCrashes, covers, fetch>>

(* The result takes its place, or the backup is put back.                  *)
Place ==
    /\ At("place")
    /\ \/ Moved(ResampleOutput, attempt.file) /\ To("unback") /\ Still
       \/ /\ FailsOnce /\ Failed
          /\ trackDisk' = [trackDisk EXCEPT ![attempt.file] = trackDisk[Backup], ![Backup] = "absent",
                                           ![ResampleOutput] = "absent"]
          /\ UNCHANGED <<finished, filesIndexed, attempts, fileCrashes, covers, fetch>>

Unback == At("unback") /\ Put(Backup, "absent") /\ To("convert") /\ Still

\* mutant: the suffix is dropped
ConvertOutputUnsuffixed == <<0, IF attempt.file[2] = "flac" THEN "converted" ELSE "labelled converted">>

(* ConvertDownloadedFile, from .flac to another extension: straight to the
   final name, over what is there; then its tags, then the original. *)
ConvertOutput == <<attempt.name, IF attempt.file[2] = "flac" THEN "converted" ELSE "labelled converted">>

RunConvert ==
    \/ /\ At("convert") /\ attempt.set.convert
       /\ Put(ConvertOutput, "partial") /\ To("converting") /\ Still
    \/ At("convert") /\ ~attempt.set.convert /\ To("select") /\ Still /\ UNCHANGED trackDisk
    \/ At("converting") /\ Put(ConvertOutput, AsGoodAs(attempt.file)) /\ To("embed") /\ Still
    \/ /\ At("converting") /\ Put(ConvertOutput, "absent") /\ Failed
       /\ UNCHANGED <<finished, filesIndexed, attempts, fileCrashes, fileFaults, covers, fetch>>

EmbedConverted == WriteTags(ConvertOutput, "embed", "writing embed", "original")

RemoveOriginal ==
    /\ At("original")
    /\ IF attempt.set.remove THEN Put(attempt.file, "absent") ELSE UNCHANGED trackDisk
    /\ attempt' = [attempt EXCEPT !.pc = "select", !.file = ConvertOutput]
    /\ Still

(* ApplyMetadataTagSelection, if a tag is switched off.                    *)
SelectTags == WriteTags(attempt.file, "select", "writing selection", "report")

\* mutant: the file that came is not taken up
NotedFileOnly == {p \in {attempt.file} : Has(p)}

(* CompleteDownloadItem, then noteLibraryFile for the file and for the one
   that came, which takes up what is there. *)
NotedFiles == {p \in {attempt.file, attempt.original} : Has(p)}

Report ==
    /\ At("report")
    /\ finished' = finished \cup {p \in {attempt.file} : trackDisk[p] = "whole"}
    /\ told' = [ok |-> TRUE, found |-> FALSE, file |-> attempt.file]
    /\ filesIndexed' = filesIndexed \cup NotedFiles
    /\ attempt' = NoAttempt
    /\ UNCHANGED <<trackDisk, attempts, fileCrashes, fileFaults, covers, fetch>>

FilesCrash ==
    /\ ~At("none") /\ fileCrashes < MaxFileCrashes /\ fileCrashes' = fileCrashes + 1
    /\ Failed /\ fetch' = "none"
    /\ UNCHANGED <<trackDisk, covers, finished, filesIndexed, attempts, fileFaults>>

FilesNext ==
    \/ \E set \in AttemptSettings : Begin(set)
    \/ LookForFile \/ Resolve \/ FetchCover \/ Create \/ Receive \/ GiveUp
    \/ TagFile \/ Uncover \/ Validate \/ EmbedLyrics
    \/ RunResample \/ SetAside \/ Place \/ Unback
    \/ RunConvert \/ EmbedConverted \/ RemoveOriginal \/ SelectTags \/ Report \/ FilesCrash

FilesSpec == FilesInit /\ [][FilesNext]_filesVars
-----------------------------------------------------------------------------
Audible == {"whole", "damaged"}
WholeOf(n) == {p \in TrackPath : p[1] = n /\ trackDisk[p] = "whole"}

(* Every path is absent, in part or whole there; an attempt that has its file
   has it under its own name, and only the last suffix bounds the names. *)
TrackFilesTypeOK ==
    /\ trackDisk \in [TrackPath -> {"absent", "partial"} \cup Audible]
    /\ attempt.set \in AttemptSettings \cup {NoSettings} /\ attempt.name \in Suffix
    /\ attempt.file \in TrackPath \cup {NoPath} /\ attempt.original \in TrackPath \cup {NoPath}
    /\ attempt.file # NoPath => attempt.file[1] = attempt.name /\ attempt.original = Landing
    /\ finished \subseteq TrackPath /\ filesIndexed \subseteq TrackPath

(* Once a download is found good, its audio is on disk under some name at
   every moment, so also if the process dies there: between the renames, while
   ffmpeg runs and after the original is gone.  It is whole there, or as a
   failed rewrite has left it, and then nobody but the log is told.  Only the
   two rewrites in place have but the file they rewrite. *)
AudioIsKept ==
    /\ attempt.pc \in {"lyrics", "resample", "resampling", "backup", "place", "unback", "convert",
                       "converting", "embed", "writing embed", "original", "select", "report"}
    => \E p \in TrackPath : p[1] = attempt.name /\ trackDisk[p] \in Audible

(* What an attempt reports is there and whole, but for a failed rewrite: the
   file it has made, and, as long as the process has not died before, the one
   it has found. *)
ToldIsWhole ==
    told.ok /\ At("none") => \/ trackDisk[told.file] \in Audible
                             \/ told.found /\ fileCrashes > 0

(* Without a crash nothing is left of attempts that failed: no file in part,
   no temporary, no backup; and no cover but one whose download failed once
   it had begun to write. *)
FailuresCleanUp ==
    At("none") /\ fileCrashes = 0 =>
        /\ \A p \in TrackPath : trackDisk[p] # "partial" /\ (p[2] \in {"resampling", "backup"} => ~Has(p))
        /\ \A n \in Suffix : covers[n] \in {"absent", "damaged"}

(* Downloading again does not take away what an earlier attempt reported and
   had whole; but a converted file is written over when its original was
   removed, for the suffix looks at the original's name alone. *)
EarlierIsKept ==
    \A p \in finished : \/ trackDisk[p] = "whole"
                        \/ p[2] \in {"converted", "labelled converted"}

(* Whole audio that an attempt has left is in the library's index, except the
   resampled file between the two when both steps kept theirs. *)
LeftIsIndexed ==
    At("none") /\ told.ok /\ ~told.found /\ fileCrashes = 0 =>
        \A p \in WholeOf(told.file[1]) : p \in filesIndexed \/ p[2] = "labelled"
==============================================================================
