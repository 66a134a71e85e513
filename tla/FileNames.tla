------------------------------- MODULE FileNames -------------------------------
(***************************************************************************)
(* What a track's file is called.  The name is worked out three times from *)
(* one request: by CheckFilesExistence, for the web UI; by DownloadTrack,  *)
(* which skips what is there; and by FlacItDownloader.Download, whose name *)
(* the file gets.  A name is what each token of the format stands for; no  *)
(* name of a track or an artist has a brace in it.                         *)
(***************************************************************************)
EXTENDS SpotifyData

Token == {"title", "artist", "album_artist", "date", "playlist", "creator", "isrc", "disc",
          "track", "total_tracks"}

Unknown == <<"Unknown">>    \* SanitizeFilename of nothing
Blank == <<>>               \* SanitizeOptionalFilename of nothing
Named(x) == IF x = Blank THEN Unknown ELSE x
NumberText(n) == IF n > 0 THEN <<n>> ELSE Blank

(* GetFirstArtist, firstArtistCredit: a credit joined by commas is one name. *)
FirstCredited(r, credit) ==
    IF r.separator = "semicolon" /\ credit # Blank THEN <<credit[1]>> ELSE credit

(* ApplyArtistFilenameTokens. *)
FirstAlbumArtist(r) ==
    IF FirstCredited(r, r.albumCredit) = Blank THEN FirstCredited(r, r.credit)
    ELSE FirstCredited(r, r.albumCredit)

(* buildFormattedFilenameBase: the tokens every format has in common. *)
Common(r, position) ==
    [t \in Token |->
        CASE t = "title" -> <<r.title>>
          [] t = "date" -> Named(r.date)
          [] t = "isrc" -> r.isrc
          [] t = "disc" -> NumberText(r.disc)
          [] t = "track" -> NumberText(position)
          [] t = "total_tracks" -> NumberText(r.total)
          [] t = "artist" -> Named(r.credit)
          [] t = "album_artist" -> Named(r.albumCredit)
          [] OTHER -> Unknown]

(* Tokens that DownloadTrack puts into the format before a name is built of it;
   the check puts in fewer.  They stand for {artists}, {total_discs},
   {category} and {upc} as well, which both put in. *)
PutInByDownload == {"artist", "album_artist", "creator", "total_tracks"}
PutInByCheck == {"creator", "total_tracks"}

(* A format in which no token is left is a template no more: it is one that is
   not known, of title and artist, and what was put into it is lost. *)
IsTemplate(r, putIn) == r.template \ putIn # {}

Tokens(r, putIn) ==
    IF IsTemplate(r, putIn) THEN r.template
    ELSE {"title"} \cup (IF r.titleOnly THEN {} ELSE {"artist"})
                   \cup (IF r.numbered THEN {"track"} ELSE {})

NameOf(r, putIn, values) == [t \in Tokens(r, putIn) |-> values[t]]

(* The artists of a template are the first ones, for both names of a download. *)
InTemplate(r, values) ==
    IF IsTemplate(r, PutInByDownload)
    THEN [values EXCEPT !["artist"] = FirstCredited(r, r.credit),
                        !["album_artist"] = FirstAlbumArtist(r),
                        !["creator"] = r.owner]
    ELSE values

\* mutant: the date that was found is used for the tags only
DownloadedUncompletedName(r, page) == NameOf(r, PutInByDownload, InTemplate(r, Common(r, r.position)))

(* FlacItDownloader.Download. *)
DownloadedName(r, page) ==
    LET c == CompletedRow(r, page)
        values == InTemplate(c, Common(c, c.position))
    IN  NameOf(c, PutInByDownload,
               IF c.firstOnly /\ ~IsTemplate(c, PutInByDownload)
               THEN [values EXCEPT !["artist"] = FirstCredited(c, c.credit)] ELSE values)

(* DownloadTrack: it knows the playlist, and not the setting for first artists. *)
SkippedName(r, page) ==
    LET c == CompletedRow(r, page)
    IN  NameOf(c, PutInByDownload,
               [InTemplate(c, Common(c, c.position)) EXCEPT !["playlist"] = Named(c.playlist)])

\* mutant: the number of the track on its album is always taken
CheckedAlbumPosition(r) == r.number

(* CheckFilesExistence: the number of the track on its album, if it is asked for. *)
CheckedPosition(r) == IF r.useAlbumNumber /\ r.number > 0 THEN r.number ELSE r.position

CheckedName(r) ==
    NameOf(r, PutInByCheck, [Common(r, CheckedPosition(r)) EXCEPT !["creator"] = Blank])

(* The files, all of one folder and large enough to count.  autoConvertExtension:
   what a download ends as; a target that is not known fails it, with the FLAC
   left.  CheckFilesExistence knows fewer kinds. *)
FileCalled(name, kind) == [name |-> name, kind |-> kind, labelled |-> FALSE]

ConvertKind == {"mp3", "m4a", "wav", "aiff", "opus"}
AutoConvertExtension(r) == IF r.convert \in ConvertKind THEN r.convert ELSE "flac"
CheckedKind(r) == IF r.audio \in {"mp3", "m4a"} THEN r.audio ELSE "flac"

(* ResampleDownloadedFile, which labels what it leaves beside the original, and
   ConvertDownloadedFile, which may remove what it converts. *)
LeftByDownload(r, page) ==
    LET got == FileCalled(DownloadedName(r, page), "flac")
        sampled == [got EXCEPT !.labelled = (r.resample = "beside")]
        converted == [sampled EXCEPT !.kind = AutoConvertExtension(r)]
    IN  ({got, sampled} \ (IF r.remove THEN {sampled} ELSE {})) \cup {converted}

(* DownloadTrack looks for its name, and Download for its own, before converting. *)
SkipsThese(r, page, files) ==
    \/ FileCalled(SkippedName(r, page), AutoConvertExtension(r)) \in files
    \/ FileCalled(DownloadedName(r, page), "flac") \in files

ChecksFor(r, files) == FileCalled(CheckedName(r), CheckedKind(r)) \in files
-----------------------------------------------------------------------------
(* buildExistingFileLookupIndex and CheckFilesExistence, for one track and the
   files under the folder: [name, isrc, kind, large]. *)
Scanned == {"flac", "mp3", "m4a"}

WithISRC(files, isrc) ==
    {f \in files : f.large /\ f.kind \in Scanned /\ f.isrc = isrc /\ isrc # Blank}

WithName(files, name, kind) == {f \in files : f.large /\ f.name = name /\ f.kind = kind}

\* mutant: with an ISRC the name does not matter
FoundStrictly(mode, files, t) == 
    IF mode = "filename" THEN WithName(files, t.name, t.kind) ELSE WithISRC(files, t.isrc)

(* The ISRC is looked up only where it decides; a hybrid check goes by the one
   it was given. *)
Found(mode, files, t) ==
    LET known == IF mode = "isrc" /\ t.isrc = Blank THEN t.resolved ELSE t.isrc
        byISRC == WithISRC(files, known)
        byName == WithName(files, t.name, t.kind)
    IN  CASE mode = "filename" -> byName
          [] mode = "isrc" -> IF known = Blank THEN byName ELSE byISRC
          [] mode = "hybrid" -> IF byISRC # {} THEN byISRC ELSE byName

(* With the redownload suffix nothing ever exists. *)
SaysItExists(mode, suffix, files, t) == ~suffix /\ Found(mode, files, t) # {}
-----------------------------------------------------------------------------
(* ValidateDownloadedTrackDuration, of the seconds a file should last and does:
   a length that is not known, of either, passes. *)
PreviewLimit == 35
LongestTolerated(seconds) == IF (seconds + 2) \div 4 > 15 THEN (seconds + 2) \div 4 ELSE 15
Apart(x, y) == IF x > y THEN x - y ELSE y - x

\* mutant: the tolerance is a half
LengthIsLooselyRight(should, does) ==
    should <= 0 \/ does <= 0 \/ Apart(should, does) <= should \div 2

LengthIsRight(should, does) ==
    \/ should <= 0 \/ does <= 0
    \/ /\ ~(should >= 60 /\ does <= PreviewLimit)
       /\ ~(should >= 90 /\ Apart(should, does) > LongestTolerated(should))
==============================================================================
