------------------------------- MODULE Renaming -------------------------------
(***************************************************************************)
(* Files renamed after their tags (filemanager.go): PreviewRename says what*)
(* RenameFiles would do, and RenameFiles takes the files one by one: reads *)
(* the tags, looks whether the new name is taken, and moves the file.      *)
(* Two requests may run at once, and a download may land in the folder at  *)
(* any time.                                                               *)
(***************************************************************************)
EXTENDS Integers, Sequences, FiniteSets, SequencesExt, FiniteSetsExt

CONSTANTS
    Renamer,        \* requests to RenameFiles
    Song,           \* contents of files
    Base, FileKind, \* names without their extension; extensions
    KindOf,         \* the extension of a song's file
    TitleOf,        \* the base GenerateFilename makes of its tags, or NoBase
    Damaged,        \* songs whose tags cannot be read
    NoSong, NoBase,
    MaxLandings     \* bound: downloads that land meanwhile

ASSUME RenamingAssumption ==
    /\ KindOf \in [Song -> FileKind] /\ TitleOf \in [Song -> Base \cup {NoBase}]
    /\ IsFiniteSet(Base) /\ IsFiniteSet(FileKind)
    /\ Damaged \subseteq Song /\ NoSong \notin Song /\ NoBase \notin Base /\ MaxLandings \in Nat

FileName == Base \X FileKind

VARIABLES
    folder,         \* what is under each name
    toRename,       \* the names a request still has to do
    renPc,          \* "next", "checked", "finished"
    newName,        \* the name it has found free
    renamed,        \* its results so far
    expected,       \* what PreviewRename said of the names, before
    stored,         \* the songs that have ever been there
    landings,       \* how many landed
    slippedIn       \* whether a name was taken between the look and the move

renVars == <<folder, toRename, renPc, newName, renamed, expected, stored, landings, slippedIn>>

Present == {folder[n] : n \in FileName} \ {NoSong}
Names == {n \in FileName : folder[n] # NoSong}
NoName == <<NoBase, NoBase>>
-----------------------------------------------------------------------------
(* ReadAudioMetadata: an .aac is listed but not read, an .m4a that cannot be
   read has no tags, any other is an error. *)
Readable(s) == KindOf[s] # "aac" /\ (s \in Damaged => KindOf[s] = "m4a")

\* mutant: every file becomes a .flac
GeneratedFlac(s) == IF s \in Damaged \/ TitleOf[s] = NoBase THEN NoName ELSE <<TitleOf[s], "flac">>

(* GenerateFilename: no name at all without tags; the extension stays. *)
Generated(s) == IF s \in Damaged \/ TitleOf[s] = NoBase THEN NoName ELSE <<TitleOf[s], KindOf[s]>>

NameFor(s) == IF Readable(s) THEN Generated(s) ELSE NoName

PreviewOf(n) == IF folder[n] = NoSong THEN NoName ELSE NameFor(folder[n])

RenInit ==
    /\ folder \in [FileName -> Song \cup {NoSong}]
    /\ \A n, o \in Names : folder[n] = folder[o] => n = o
    /\ \A n \in Names : n[2] = KindOf[folder[n]]
    /\ toRename \in [Renamer -> SetToAllKPermutations(Names)]
    /\ renPc = [r \in Renamer |-> "next"] /\ newName = [r \in Renamer |-> NoName]
    /\ renamed = [r \in Renamer |-> <<>>]
    /\ expected = [n \in FileName |-> PreviewOf(n)]
    /\ stored = Present /\ landings = 0 /\ slippedIn = FALSE

Result(old, new, ok) == [old |-> old, new |-> new, ok |-> ok]

(* Another request has found the name free and is about to move to it.     *)
FoundFree(n, others) == \E o \in others : renPc[o] = "checked" /\ newName[o] = n

Finish(r, result) ==
    /\ renamed' = [renamed EXCEPT ![r] = Append(@, result)]
    /\ toRename' = [toRename EXCEPT ![r] = Tail(@)]
    /\ renPc' = [renPc EXCEPT ![r] = "next"]

(* Tags that cannot be read, or make no name. *)
CannotName(r) ==
    /\ renPc[r] = "next" /\ toRename[r] # <<>>
    /\ PreviewOf(Head(toRename[r])) = NoName
    /\ Finish(r, Result(Head(toRename[r]), NoName, FALSE))
    /\ UNCHANGED <<folder, newName, expected, stored, landings, slippedIn>>

\* mutant: a name that is taken is free
IsFreeAlways(old, new) == TRUE

IsFree(old, new) == new = old \/ folder[new] = NoSong

LookAtName(r) ==
    /\ renPc[r] = "next" /\ toRename[r] # <<>>
    /\ LET old == Head(toRename[r])
           new == PreviewOf(old)
       IN  /\ new # NoName
           /\ \/ /\ IsFree(old, new)
                 /\ newName' = [newName EXCEPT ![r] = new]
                 /\ renPc' = [renPc EXCEPT ![r] = "checked"]
                 /\ UNCHANGED <<toRename, renamed>>
              \/ /\ ~IsFree(old, new)
                 /\ Finish(r, Result(old, new, FALSE)) /\ UNCHANGED newName
    /\ UNCHANGED <<folder, expected, stored, landings, slippedIn>>

\* mutant: the file that keeps its name is removed with the old one
MovedAway(old, new) ==
    [n \in FileName |-> IF n = old THEN NoSong ELSE IF n = new THEN folder[old] ELSE folder[n]]

(* os.Rename takes the place of what is there. *)
MovedTo(old, new) ==
    [n \in FileName |-> IF n = new THEN folder[old] ELSE IF n = old THEN NoSong ELSE folder[n]]

MoveFile(r) ==
    /\ renPc[r] = "checked"
    /\ LET old == Head(toRename[r])
           new == newName[r]
       IN  \/ /\ folder[old] = NoSong
              /\ Finish(r, Result(old, new, FALSE)) /\ UNCHANGED <<folder, slippedIn>>
           \/ /\ folder[old] # NoSong
              /\ folder' = MovedTo(old, new)
              /\ slippedIn' = (slippedIn \/ FoundFree(new, Renamer \ {r}))
              /\ Finish(r, Result(old, new, TRUE))
    /\ newName' = [newName EXCEPT ![r] = NoName]
    /\ UNCHANGED <<expected, stored, landings>>

(* A download of a song that is not there yet. *)
Land(n, s) ==
    /\ landings < MaxLandings /\ landings' = landings + 1
    /\ s \notin stored /\ folder[n] = NoSong /\ n[2] = KindOf[s]
    /\ folder' = [folder EXCEPT ![n] = s] /\ stored' = stored \cup {s}
    /\ slippedIn' = (slippedIn \/ FoundFree(n, Renamer))
    /\ UNCHANGED <<toRename, renPc, newName, renamed, expected>>

RenNext ==
    \/ \E r \in Renamer : CannotName(r) \/ LookAtName(r) \/ MoveFile(r)
    \/ \E n \in FileName, s \in Song : Land(n, s)

RenSpec == RenInit /\ [][RenNext]_renVars
-----------------------------------------------------------------------------
(* Every variable keeps to its type, and a song to its kind of file.       *)
RenTypeOK ==
    /\ folder \in [FileName -> Song \cup {NoSong}]
    /\ \A n \in Names : n[2] = KindOf[folder[n]]
    /\ renPc \in [Renamer -> {"next", "checked"}]
    /\ newName \in [Renamer -> FileName \cup {NoName}]
    /\ \A r \in Renamer : newName[r] # NoName <=> renPc[r] = "checked"
    /\ Present \subseteq stored /\ stored \subseteq Song

(* No song is lost or doubled, whichever names the tags give and in whichever
   order the files are taken, unless its name was taken after the look. *)
NoSongIsLost ==
    /\ \A n, o \in Names : folder[n] = folder[o] => n = o
    /\ ~slippedIn => Present = stored

(* Alone, and with nothing landing, a request keeps to the preview: what it
   says it renamed is under the previewed name, and what it says it did not is
   where it was. *)
Alone(r) == landings = 0 /\ \A o \in Renamer \ {r} : renamed[o] = <<>> /\ renPc[o] = "next"

PreviewComesTrue ==
    \A r \in Renamer : Alone(r) => \A i \in DOMAIN renamed[r] :
        LET result == renamed[r][i]
        IN  /\ result.new = expected[result.old]
            /\ expected[result.old] # NoName /\ result.ok
                    => folder[result.new] # NoSong /\ NameFor(folder[result.new]) = result.new
            /\ ~result.ok => folder[result.old] # NoSong /\ PreviewOf(result.old) = expected[result.old]
==============================================================================
