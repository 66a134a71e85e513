-------------------------------- MODULE Server --------------------------------
(***************************************************************************)
(* The parts of the server that share no state the models keep, put        *)
(* together: each behaviour is one of one part, chosen at the start, while *)
(* the others rest at a fixed initial state.  The number of states is the  *)
(* sum of those of the parts, and CONSTANT Parts can leave some out.       *)
(***************************************************************************)
EXTENDS Library, Facade, FacadeSearch, Enrichment, EventHub, SpotifyClient, Discography,
        SpotifyPages, Histories, Settings, TrackFiles, MusicBrainz, TrackIds, Renaming, Answers

CONSTANT Parts      \* the parts that may move

VARIABLE part       \* the one that moves

(* A part that rests is in one initial state, where it may start in several. *)
ServerInit ==
    /\ part \in Parts
    /\ FacadeInit /\ SearchInit /\ HubInit /\ ClientInit /\ DiscInit
    /\ HistoryInit /\ SettingsInit /\ FilesInit /\ MbInit /\ IdInit
    /\ LibraryInit /\ (part # "library" => disk = Empty /\ indexFile = Missing)
    /\ EnrichInit /\ (part # "enrichment" => \A f \in AudioFile : ~audioDisk[f].present)
    /\ PagesInit /\ (part # "pages" => listing = "album" /\ listed = <<>> /\ served = 1 /\ givesTotal)
    /\ RenInit /\ (part # "renaming" => Names = {})
    /\ IF part = "answers" THEN AnswersInit
       ELSE question = NotAnswered /\ answer = NotAnswered

(* One step of the part that was chosen. *)
ServerNext ==
    \/ /\ part = "library" /\ LibraryNext
       /\ UNCHANGED <<part, facadeVars, searchVars, enrichVars, hubVars, clientVars,
                      discVars, pagesVars, historyVars, settingsVars, filesVars, mbVars,
                      idVars, renVars, answerVars>>
    \/ /\ part = "facade" /\ FacadeNext
       /\ UNCHANGED <<part, libVars, searchVars, enrichVars, hubVars, clientVars, discVars,
                      pagesVars, historyVars, settingsVars, filesVars, mbVars, idVars,
                      renVars, answerVars>>
    \/ /\ part = "search" /\ SearchNext
       /\ UNCHANGED <<part, libVars, facadeVars, enrichVars, hubVars, clientVars, discVars,
                      pagesVars, historyVars, settingsVars, filesVars, mbVars, idVars,
                      renVars, answerVars>>
    \/ /\ part = "enrichment" /\ EnrichNext
       /\ UNCHANGED <<part, libVars, facadeVars, searchVars, hubVars, clientVars, discVars,
                      pagesVars, historyVars, settingsVars, filesVars, mbVars, idVars,
                      renVars, answerVars>>
    \/ /\ part = "hub" /\ HubNext
       /\ UNCHANGED <<part, libVars, facadeVars, searchVars, enrichVars, clientVars,
                      discVars, pagesVars, historyVars, settingsVars, filesVars, mbVars,
                      idVars, renVars, answerVars>>
    \/ /\ part = "client" /\ ClientNext
       /\ UNCHANGED <<part, libVars, facadeVars, searchVars, enrichVars, hubVars, discVars,
                      pagesVars, historyVars, settingsVars, filesVars, mbVars, idVars,
                      renVars, answerVars>>
    \/ /\ part = "discography" /\ DiscNext
       /\ UNCHANGED <<part, libVars, facadeVars, searchVars, enrichVars, hubVars,
                      clientVars, pagesVars, historyVars, settingsVars, filesVars, mbVars,
                      idVars, renVars, answerVars>>
    \/ /\ part = "pages" /\ PagesNext
       /\ UNCHANGED <<part, libVars, facadeVars, searchVars, enrichVars, hubVars,
                      clientVars, discVars, historyVars, settingsVars, filesVars, mbVars,
                      idVars, renVars, answerVars>>
    \/ /\ part = "histories" /\ HistoryNext
       /\ UNCHANGED <<part, libVars, facadeVars, searchVars, enrichVars, hubVars,
                      clientVars, discVars, pagesVars, settingsVars, filesVars, mbVars,
                      idVars, renVars, answerVars>>
    \/ /\ part = "settings" /\ SettingsNext
       /\ UNCHANGED <<part, libVars, facadeVars, searchVars, enrichVars, hubVars,
                      clientVars, discVars, pagesVars, historyVars, filesVars, mbVars,
                      idVars, renVars, answerVars>>
    \/ /\ part = "files" /\ FilesNext
       /\ UNCHANGED <<part, libVars, facadeVars, searchVars, enrichVars, hubVars,
                      clientVars, discVars, pagesVars, historyVars, settingsVars, mbVars,
                      idVars, renVars, answerVars>>
    \/ /\ part = "musicbrainz" /\ MbNext
       /\ UNCHANGED <<part, libVars, facadeVars, searchVars, enrichVars, hubVars,
                      clientVars, discVars, pagesVars, historyVars, settingsVars, filesVars,
                      idVars, renVars, answerVars>>
    \/ /\ part = "ids" /\ IdNext
       /\ UNCHANGED <<part, libVars, facadeVars, searchVars, enrichVars, hubVars,
                      clientVars, discVars, pagesVars, historyVars, settingsVars, filesVars,
                      mbVars, renVars, answerVars>>
    \/ /\ part = "renaming" /\ RenNext
       /\ UNCHANGED <<part, libVars, facadeVars, searchVars, enrichVars, hubVars,
                      clientVars, discVars, pagesVars, historyVars, settingsVars, filesVars,
                      mbVars, idVars, answerVars>>
    \/ /\ part = "answers" /\ AnswersNext
       /\ UNCHANGED <<part, libVars, facadeVars, searchVars, enrichVars, hubVars,
                      clientVars, discVars, pagesVars, historyVars, settingsVars, filesVars,
                      mbVars, idVars, renVars>>

serverVars == <<part, libVars, facadeVars, searchVars, enrichVars, hubVars,
                clientVars, discVars, pagesVars, historyVars, settingsVars, filesVars,
                mbVars, idVars, renVars, answerVars>>

ServerSpec == ServerInit /\ [][ServerNext]_serverVars

-----------------------------------------------------------------------------
(* What each part promises, as the conjunction of its type and of the named
   properties of its module.  A part that rests promises nothing new: it is
   looked at while it moves. *)

(* The index follows the folder and the cleanup loses nothing (library.go,
   library_dedup.go): an index file that always parses and that catches up with
   the index, a scan that is exact, a trash that keeps what it took, and a copy
   left of every recording. *)
LibraryIsTrue == part = "library" =>
    /\ LibraryTypeOK
    /\ IndexFileIsWhole /\ IndexFileCatchesUp
    /\ QuietScanIsExact
    /\ TrashKeepsTheFile /\ CleanupLeavesACopy

(* The facade keeps its word (subsonic.go): a star or a playlist entry of a
   track that is not there yet comes true of the real one, by one download, and
   the tracks shown in a search are those that may be promised, nearest first,
   from caches that stay in step with their order. *)
FacadeKeepsItsWord ==
    /\ part = "facade" => FacadeTypeOK /\ PromiseIsKept /\ EnqueuedOnce
    /\ part = "search" => SearchTypeOK /\ CachesInStep /\ RowsAreAcquirable

(* The pass is what its status says (enrich.go): one works at a time, its
   numbers add up, no key is asked for twice, new tags are told of before the
   last pass has gone, and a stop or a limit holds. *)
PassesAreOrderly ==
    /\ [](part = "enrichment" =>
            EnrichTypeOK /\ OnePassAtATime /\ NumbersAddUp /\ AskedOnce /\ TagsAreTold)
    /\ StopIsHeeded

(* The catalog is read whole (spotfetch.go, spotify_metadata.go): goroutines
   share a token and renew a refused one, a discography shows and returns the
   same and leaves no goroutine behind, and a list is paged to its end without
   a gap. *)
CatalogIsRead ==
    /\ part = "client" => ClientTypeOK /\ TokenIsShared /\ RetriesAreFresh /\ OwnClientRecovers
    /\ part = "discography" => DiscTypeOK /\ NobodyIsLeft /\ ReturnsWhatWasShown
    /\ part = "pages" => PagesTypeOK /\ NoGaps /\ WholeListIsReturned /\ PagingEnds

(* What was saved is what is used (history.go, recent_fetches.go, app.go): the newest
   row is there and no row is there twice, settings are obeyed once they are
   saved, and the recent fetches always load. *)
SavedIsHeeded ==
    /\ part = "histories" => HistoryTypeOK /\ FetchedOnce /\ JustAddedIsKept
    /\ part = "settings" => SettingsTypeOK /\ ChoiceIsObeyed /\ RecentsLoadAlways

(* No audio is lost on its way (app.go, ffmpeg.go, filemanager.go): through
   tags, resampling, conversion and renaming a whole copy is on disk, what is
   told is there and indexed, what failed is cleaned up, and a rename doubles
   no song and does what its preview said. *)
FilesAreKept ==
    /\ part = "files" => /\ TrackFilesTypeOK /\ AudioIsKept /\ ToldIsWhole
                         /\ FailuresCleanUp /\ EarlierIsKept /\ LeftIsIndexed
    /\ part = "renaming" => RenTypeOK /\ NoSongIsLost /\ PreviewComesTrue

(* Parts of the code that answer the same question by code of their own answer
   it alike, as far as they do: a track alone, in its album and in a playlist;
   a cover in a list and on a page; a link that was made and one that is
   pasted; a name for the download, the skip and the check; the three ways to
   look for a file; the two lyrics formats; and a song that is owned here and
   matched there. *)
AnswersAgree == part = "answers" =>
    /\ TrackAgreesWithAlbum /\ DiscWithinDiscs /\ PlaylistRowIsCompleted
    /\ CoverIsFound /\ LinksLeadBack
    /\ NextDownloadIsSkipped /\ CheckFindsDownload /\ HybridFindsMost /\ LengthBands
    /\ SyncedAreTaken /\ TextIsKept
    /\ OwnedIsMatched
==============================================================================
