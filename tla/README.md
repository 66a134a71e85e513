# SpotiFLAC: verification project

SpotiFLAC is a music server's download companion: a Go process that finds tracks on
Spotify, downloads them as FLAC through a Telegram bot, tags and files them, and serves a
web page and a Subsonic facade on top. A second process, the gateway (Python), owns the
Telegram session. This directory holds TLA+ models of its concurrent core, the TLC runs
that check them and the theorems TLAPS proves about them. File names below are relative
to the repository.

## 1. Inventory

| Component | Source | State | Operations | Hard because |
|---|---|---|---|---|
| Durable download queue | `queue.go`, `backend/queue_store.go` | bolt bucket of records; the worker's `currentID`, `cancelled`, `scanPending`; one-slot `wake` channel | EnqueueDownloads, RetryQueueItem, CancelQueueItem, ClearQueue; worker: claim, process, finish, retryOrFail, flushScan; reset at start | read and write-back in separate transactions, cancellation flags, lost wake-ups, back-off, restarts, refused writes |
| DownloadTrack and its cancellation scope | `app.go`, `backend/download_cancel.go` | one context, a member count, `stopping` | begin and end of a scope, checks, ForceStopDownloads | one scope shared by overlapping downloads |
| Display queue | `backend/progress.go` | rows, current item, `is_downloading`, session figures | add, start, complete, fail, skip, clear, cancel all | every access locks by itself; several calls edit the same rows |
| Telegram gateway | `flacit-gateway/gateway.py`, `matching.py` | job table, fetch queue, cancelled ids, wake-up event, temp files | POST /fetch, status, file, DELETE; fetch worker, parallel senders, reaper, bot commands | threads beside an event loop, a bot that answers late, twice or wrongly, time limits |
| Gateway client | `backend/flacit.go` | one job per download | submit, poll, fetch, delete | gives up at any point |
| Deezer link resolution | `backend/flacit.go:236-317`, `backend/songlink.go`, `backend/deezer*.go`, `backend/link_resolver.go` | map of shared lookups, a semaphore of three | resolve, prewarm | single flight, failures not cached, the map cleared as a whole |
| Library index and dedup | `library.go`, `library_dedup.go` | index of files by path, its copy on disk, a save timer, the trash folder | scan, note a download, save, load, find duplicates, clean up, empty the trash | a rescan replaces what was noted meanwhile, saves share one temporary file, moves across file systems |
| Subsonic facade | `subsonic.go` | promises by track, two bounded caches | search, star, playlist, stream, acquire, reconcile | check-then-act on acquire, late answers, caches at their limit, promises lost with the process |
| Enrichment | `enrich.go` | one status record, a stop flag, the pass's caches | start, stop, pass over the library | one pass at a time, a predecessor saying goodbye, counters read at any moment |
| Event hub | `events.go` | subscribers' channels | subscribe, unsubscribe, broadcast | full buffers, closing while sending |
| Navidrome client | `navidrome.go` | none | trigger a scan | may fail |
| History and caches | `backend/history.go`, `isrc_cache.go`, `recent_fetches.go` | bolt buckets, one JSON file | add, trim, replace, delete, clear | trimming by a clock that may step back, deletion under a cursor |
| Settings | `app.go:2277-2360`, `backend/config.go` | `config.json`, `fonts.json`, `recent_fetches.json` | save, load by every reader, rewrite at start | writes in place without a lock, a text that does not parse means defaults |
| Spotify metadata, discovery | `backend/spotify_metadata.go`, `spotfetch.go`, `discovery.go` | a shared access token, clients' own tokens, a discography's results | query, renew, fan out, page, put answers together | refusals and renewals by several goroutines, deadlines, short pages, fields an answer leaves out |
| Tagging, covers, lyrics, conversion, analysis | `backend/tagging.go`, `ffmpeg.go`, `resample.go`, `musicbrainz.go`, `isrc_finder.go`, `filemanager.go`, `lyrics.go`, ... | the files of a track, MusicBrainz slots and lookups, an anonymous token in a file | attempt, resample, convert, look up, rename | crashes between renames, single flight, request spacing, torn files, check-then-move |
| Names, matching, validation | `backend/filename.go`, `match.go`, `download_validation.go`, ... | none | pure functions | numeric edges, one thing worked out in several places |
| RPC server, access control | `main.go`, `rpc.go`, `auth.go` | none of interest | dispatch | any call may come at any time |
| Web page | `web/` | - | client of the RPCs | - |

How they interact. Clients call RPC methods; `EnqueueDownloads` appends records and nudges
the worker; the worker claims the oldest one due, adds a display row and calls
`DownloadTrack`, which a web page may call at the same time for downloads of its own. All
downloads share one cancellation scope. `DownloadTrack` resolves a link, posts a job to
the gateway, polls it, copies the file and deletes the job; the gateway's worker fetches
one job at a time over one chat with the bot. What has landed is noted in the library's
index, and when the queue is drained the worker asks Navidrome for a scan and the facade
reconciles its promises with what Navidrome then finds. The facade enqueues downloads as any
client does. Progress goes to the web page through the event hub, and the pages are filled
from Spotify's answers, which several goroutines fetch with one shared token.

What makes each part correct:

* queue: no record is stranded or tried more often than allowed, no wake-up is lost, a
  completed file is scanned, an accepted cancellation wins, every record settles, and the
  whole thing is a FIFO of jobs done one at a time;
* scope: counted exactly, the same context from a download's beginning to its end, a stop
  reaches everybody in flight and nobody else;
* display: no row and no flag shows a download that does not run;
* gateway: a job that is ready has its whole file, and the right one as far as titles tell
  tracks apart, a reply is never slept through, partial files go away, abandoned jobs do not
  hold up others, every job ends;
* link resolution: one lookup per link, a limit on lookups, no failure handed to later
  callers, no caller left waiting, no track lost to a resolver's wrong page;
* library: the index is the folder after a quiet scan, its copy on disk parses and catches
  up, and a cleanup costs no recording and is reversible while the trash is kept;
* facade: an answered request comes true or was given up for a reason the comments accept,
  one track is enqueued once, only what can be acquired is offered, caches stay bounded;
* enrichment: one pass at a time, numbers that add up, stops heeded, Navidrome told;
* event hub: no send on a closed channel, no emitter blocked, each browser sees an emitter's
  events in order;
* Spotify: one token for everybody, a refused token is not sent again, no goroutine of a
  discography is left behind, what is returned has no gaps and is what was shown;
* histories and settings: what was added is there, once; what was saved is obeyed, if the
  write of it did not fail;
* a track's files: once the audio is good it is on disk at every moment, failures
  clean up, what was reported is there and indexed;
* lookups: one per recording at a time, an interval apart, outside the pause a 503 asked for;
  a known ISRC stays known while its cache works;
* pure functions: a track's page, its album's row and a playlist's row agree; a file is found
  again under the name it was given; lengths, lyrics and matches are judged alike everywhere.

## 2. Plan

1. `DownloadQueue`, with `QueueLifecycle` as its abstract specification. Done; inductive
   invariant proved.
2. `DownloadTrack`: overlapping downloads, the scope, the display queue. Done; invariant of
   the scope proved.
3. `Gateway`: the gateway and its clients. Done; inductive invariant proved.
4. `DeezerResolve` over `LinkChain`: the shared lookups and what a lookup returns. Done;
   inductive invariant proved.
5. `Library`, `Facade`, `FacadeSearch`, `Enrichment`, `EventHub`, `SpotifyClient`,
   `Discography`, `SpotifyPages`, `Histories`, `Settings`, `TrackFiles`, `MusicBrainz`,
   `TrackIds`, `Renaming`: the rest of the server's state, a module each. Done; put together
   by `Server`.
6. Pure functions: `SpotifyData`, `FileNames`, `Lyrics`, `Matching`, asked by `Answers`. Done.
7. Proofs about all modules of step 5, and that what a part keeps `Server` keeps. Done.
8. `QueueLifecycle` refined by `DownloadQueue`, `StrandedOnePerFault`, `FlagComesDown`,
   `ProgressIsOwn`, `NoGhostRow` and `NoMissedReply`, proved for every value of the constants.
   Done.
9. `AnswersAgree`, for all questions that the assumptions of `Answers` name. Done: every
   safety property of the runs that hold is a theorem.
10. Left: a contract between `DownloadTrack` and the phases of `DownloadQueue` that abstract
    it; the facade with the real queue in place of its three variables; search and discovery
    queries; analysis.

The model checking is kept to a dozen runs. The parts of step 5 share no state the models
keep, so they are checked in one run in which each behaviour moves one part.

## 3. Modules and how they correspond to the code

| Module | What it is |
|---|---|
| `DownloadQueue` | queue, worker, RPC handlers, restarts, refused writes; properties; inductive invariant `IInv` |
| `QueueLifecycle` | what the queue promises about a job, without the how |
| `DownloadQueueProofs` | theorems about `DownloadQueue` |
| `DownloadTrack` | overlapping downloads, scope, display queue |
| `DownloadTrackProofs` | theorems about the scope, the flag, the progress and the display's rows |
| `Gateway` | gateway, bot and clients; inductive invariant `IInv` |
| `GatewayProofs` | theorems about `Gateway` |
| `LinkChain` | what one lookup of a Deezer link may return, stage by stage |
| `DeezerResolve` | the shared lookups, their cache and limit, and their callers |
| `DeezerResolveProofs` | theorems about `DeezerResolve` and `LinkChain` |
| `Library` | the index, its saves and loads, scans, notes, cleanups and the trash |
| `Facade` | promises: star, playlist, stream, unstar, acquire, reconcile |
| `FacadeSearch` | search with injected rows, the two bounded caches |
| `Enrichment` | the tag enrichment pass, its status and its stop |
| `EventHub` | broadcast to browsers that come and go |
| `SpotifyClient` | tokens, queries, refusals and renewals |
| `Discography` | an artist's albums fetched by one goroutine each |
| `SpotifyPages` | paging of albums, playlists and discographies |
| `Histories` | the two histories in bolt |
| `Settings` | the JSON files that are saved whole, and what their readers make of them |
| `TrackFiles` | the files of one track over several attempts |
| `MusicBrainz` | shared lookups and spaced requests |
| `TrackIds` | ISRC and UPC by an anonymous token, the ISRC cache |
| `Renaming` | preview and batch renaming after tags |
| `SpotifyData`, `FileNames`, `Lyrics`, `Matching` | pure functions as operators |
| `Answers` | questions to them, which are constants, and what may be expected of the answers |
| `Sifting`, `SiftingProofs` | the loops that keep some elements of a slice, or string slices together, and what they return |
| `Server` | the modules from `Library` to `Answers` together, one moving at a time |
| `MCServer` | the instance of `Server` for TLC |
| `CatalogProofs` | theorems about `SpotifyClient`, `Discography`, `SpotifyPages`, `MusicBrainz`, `TrackIds`, `Facade` and `FacadeSearch` |
| `LibraryProofs` | theorems about `Library`, `TrackFiles`, `Renaming` and `Answers` |
| `ServerProofs` | theorems about `EventHub`, `Histories`, `Settings` and `Enrichment`, and about `Server` |
| `MCDownloadQueue`, `MCDownloadTrack`, `MCGateway`, `MCDeezerResolve` | instances for TLC: symmetry sets at most |

Each definition that stands for code is listed with its lines in `PROJECT.json` under
`map`. A definition whose comment begins with "mutant:" is a wrong version of the next
definition; nothing uses it, and it is there to show that the property named for it in
`PROJECT.json` fails when the code is wrong in that way. Where a property joins several, a
mutant of each part is listed.

### DownloadQueue

`store` is the bolt bucket (a row's status, attempts and `NextAttemptAt` compared with the
clock: none, still ahead, reached), `seq` its sequence. `wpc` is the worker's place:
`claim` (`ClaimNextQueueRecord`), `start` (unmarshal, publish `currentID`, take the
cancelled flag), `drop`, `prelude` (DownloadTrack before its scope), `fetch` (inside the
scope up to the last check), `post` (validate, convert, tag), `settle` (the critical
section after the download), `write` (`finish` or `retryOrFail`), `drained`, `scan`, `idle`.
`rec` is the worker's own copy of the record; it is written back whole, whatever the bucket
holds by then. `call[c]` is the RPC call a client is in, with the record it read: each bolt
transaction and each critical section is a step, so `CancelQueueItem` is `CancelGet`,
`CancelFlag`, then `CancelStop` or `CancelPut`. `landed`, `unscanned` and `asked` are
history variables.

`WriteFails` is a bolt transaction that leaves the bucket as it was; the code logs or drops
the error and goes on, and so does the model. `Restart` is a crash at any step followed by
`ResetInterruptedQueueRecords`. `BackoffElapses` is the clock passing `NextAttemptAt`.

Left out: payloads, titles and paths (a record is its id), the display row the worker adds
(in `DownloadTrack`), the history entry and the recent-downloads list.

### DownloadTrack

Every caller runs `Add, SetBusy, StartItem, BeginScope, FirstCheck, ...` down to `LeaveScope`
and `ClearBusy`, each a step because each takes a lock of its own. `joined[p]` is the
context a download was given, `ctx` the shared one; the code reads the shared one at every
check, and `ScopeIsStable` says that this is the same. `ForceStopDownloads` is five steps
(`StopTake` to `StopFlag`): the cancel function is looked up under the lock and called
after it. One stop or clear-all runs at a time (`stop` is one record); the other edits of
the display queue are single steps at any moment. `told` is a history variable.

Left out: file naming, tagging and conversion (their outcomes remain), the numbers of a
row's progress, the session's start and totals.

### Gateway

Handlers run on request threads, the fetch worker and its senders on the event loop. A step is
one access to the job table under its lock, one stretch of loop code between two awaits, or one
file operation. `fpc` is the worker's place, `chat` the bot's messages, `cut` the `check_after`
limit, `clock` which of the two time limits has passed, `activity` the wake-up event, `left` and
`sender[s]` the parallel download. The bot is external: it answers each link once, late or
never, with a FLAC of any track or with something else; what the FLAC says of itself
(`doc_text`) is any of the texts `Says` has for its track, also nothing. A client is one
download of the Go process: `Post, Put, Ready, LookUp, Stream, Delete, Pop, Unlink`, giving up
anywhere; the DELETE may be lost.

`MatchesExpected` is `matches_expected`: off without `FLAC_MATCH_STRICT`; what has nothing to
compare on either side is taken; otherwise the title, with or without its version qualifier, has
to be part of what the file says or the other way round, and the artist is not looked at. So the
file of a track with a similar title is taken, and `ReadyIsItsTrack` claims what is left: where
a title is apart from all that another track's file may say (`Apart`), that file is never
delivered under it unless it says nothing, whichever replies come late, twice or in another
order. `MCGateway` has both cases: a file of "Vaa Vaathi" passes for "Vaathi (Remix)", and not
the reverse. Files that say nothing come in `gateway_loop`.

A rename that fails (`RenameFails`) ends the job and leaves the partial file for good (`stuck`).

Abstractions: letters are words in the instance, so containment is of sequences of words; callers
always name the track; the five seconds of grace in
`check_after` are "at most `Recent` messages"; `ScanLimit` is the limit of
`iter_messages` (10 in the code), taken smaller; a failed `gather` ends the download in one
step (the other senders go on for a moment in the code, writing to a file that is
unlinked already); the reaper removes the files of one batch before it looks again, as its
loop does. The login dialogue and the settings menu are one-time conversations and left
out.

### LinkChain and DeezerResolve

`LinkChain` is `GetDeezerURLFromSpotify` and the resolvers under it. What is known of a link
on the way (`Links`) is the other services found, which end the search early, the Deezer
link (none, a track, another page) and whether the ISRC is known. Every service is external
and may fail or answer anything, so a stage maps this to the set of what may be known after
it, and `Outcomes` is the set of what the whole chain may return, over all four settings of
the resolvers. The chain runs inside one caller and shares nothing but the ISRC cache,
which only makes a later answer of Spotify likelier; so `DeezerResolve` takes it as one step.

`DeezerResolve` is `ResolveDeezerURL` and the end of `resolveTrackURLFor`. `cache` is the map,
`of`, `out`, `answer` and `closed` are the entries (a deezerResolution with its id, how its
lookup ended, its `url` and its closed `done`), `sem` the semaphore. Each critical section
and each channel operation of a caller is a step: `Join` or `Make` an entry, `Acquire`,
the lookup (`Found`, `Fails`, `Panics`), `Forget` (the delete by key), `Release`, `Close`, and
the answer read from the entry (`Dropped` by a prewarm, else `UseAnswer` or `NoAnswer`).
`made` numbers the entries, `epoch` and `clears` are history variables for the properties.

Left out: `FindDeezerTrack`'s own verification (a track or none, `Search`), the empty id
(returns at once), a panic under the worker or a prewarm (it ends the process, and the map
with it).

### Library

`disk` is the folder, `entries` the index in memory, `indexFile` and `tmpFile` its copy and the
temporary file. `scan`, `note`, `clean` and `saver[s]` are the goroutines: `ScanLibrary`
(`ScanStart, ScanWalk, ScanRead` per file, `ScanPublish`), `noteLibraryFile` (read, then
insert), `CleanupDuplicates` (one file after the other, each moved by a rename or by copy and
remove) and the up to three calls of `save()`. A write of the temporary file while another save
has it open leaves a whole or a partial text. A file is the recording its tags name and a number
for size and time; paths are numbered in the order of their names. `quiet`, `overlap` and `owed`
are history variables.

### Facade and FacadeSearch

A handler runs from `Ask` through `Look`, `NoteExisting` or `Promise`, `Check`, `Enqueue` to its
answer, a playlist request on through `Forward` and `FileUnder`; each critical section and each
call is a step. Navidrome's answer to a createPlaylist names the playlist if it is JSON
(`FileUnder`) and does not for `createdPlaylistID` if it is XML (`NotNamed`). `recon[w]` is a
reconciliation: it takes the promises there are, and for each finds the song, tells Navidrome,
and drops the promise, all before one deadline. The queue is reduced to what the facade reads of
it (`live`, `fetched`). In `FacadeSearch` the library's answer and the catalog's come side by
side; `Rows` is `virtualSongs`, with the comparisons of `Matching`.

### Enrichment, EventHub

A pass takes the files in the order of the walk (they are numbered so) and goes through lyrics,
genre and cover for each; `Tally` is the end of the loop body, `Ends` the deferred function and
`Notify` the rescan after it, when the next pass may already run. In `EventHub` an emitter holds
the read lock (`emit[e].locked`) while it serves the clients in any order, so unsubscribing
waits.

### SpotifyClient, Discography, SpotifyPages

`tokenCache` and `tokenLock` are the process's token and its mutex, `account` the tokens of each
`SpotifyClient` value, which a discography's goroutines share. The service hands out tokens
in order and may stop taking the old ones. `Discography` has a goroutine per album, `albumSem`
for `sem` and `albumResults` for `resultsChan`; the request collects until all are in, an error
comes or its deadline is over. `SpotifyPages` asks by offset; how long the service's pages
are, whether they name a total, and edits of the list are choices.

### Histories, Settings

Each history RPC is one transaction. Rows are ordered by the time and the sequence number of
their key. The loop that deletes under its own cursor may or may not pass over the next row.
`Settings` splits `os.WriteFile` into the open, which truncates, and the write, which may fail
after any number of its bytes (`SaveCutShort`, `RewriteFails`), nothing being done about it; a
text is one of a few with a meaning and a length, and `Behaviour` is what all readers do with it.

### TrackFiles

An attempt runs through the places of `DownloadTrack` and the steps after it: look for the file,
resolve a free name, create, receive, tag, validate, lyrics, resample (aside, in place, or by
way of a backup), convert, its tags, remove the original, select tags, report. Beside it a
goroutine downloads the cover to `x.flac.cover.jpg` (`FetchCover`), which tagging waits for and
the deferred function removes, as does an attempt that gives up (`Uncovered`). A file is absent,
in part, whole, or damaged: in part for good, because a rewrite in place failed and the attempt
went on with a warning; what is made of it is damaged too. Temporary `.tmp` files of tagging an
m4a are removed where they are made and not modelled. Cancellations and failures come at every
place where the code has a branch for them, a crash at any.

### MusicBrainz, TrackIds, Renaming

An asker of `MusicBrainz` is one call of `FetchMusicBrainzMetadata`: cache, single flight, slot,
request, retries, store, close; time is counted in ticks. `TrackIds` is
`GetSpotifyTrackIdentifiersDirect` with the token's file, which is written in place under a
mutex, and the cache of ISRCs, of which a read or a write may fail and is then only logged
(`cacheFailed`). `Renaming` takes names one by one: tags, the look for a file of the new name,
the move; two requests and a landing download interleave.

### SpotifyData, FileNames, Lyrics, Matching, Answers

These are operators on records and small sequences: a credit is a sequence or set of names, a
file's name is the function from the tokens of its format to what they stand for, a line of
lyrics is a stamp and its words. `FileNames` follows the format: the download puts some tokens
into it before a name is built (`PutInByDownload`), the check fewer (`PutInByCheck`), and where
no token is left the name is the default "Title - Artist", whatever was put in (`IsTemplate`). A
file has its kind besides: what the download leaves after resampling and conversion
(`LeftByDownload`) is asked for by the next download (`SkipsThese`) and by the check
(`ChecksFor`). Names have no braces of their own, and both look into the same folder: relative
paths and playlist folders are not modelled. In `Matching` the comparison of single names
(`Fuller`) and the containment of whole credits as letters (`Within`) are constants. `Answers`
takes one question and puts the answers of all functions about it next to each other, so that
the properties can say that they agree. The questions of each kind are a constant, of which a
named assumption says what they have in common (`TrackAssumption` to `MatchAssumption`);
`MCServer` gives bounded sets of them. Where functions agree under a condition only, the
property names it: numbers of tracks on the first disc of discs that are in order
(`DiscsInOrder`), a pause in the lyrics by how it is written (`IsToBeKept`). Lyrics in which a
bracket opens a line without being a stamp are not asked about.

## 4. Runs

All bounds are CONSTANTS of the modules. `CHECK_DEADLOCK FALSE` is set for `DownloadTrack`,
`Gateway` and `DeezerResolve`, which really come to rest: when the bounded downloads, stops,
jobs and lookups are over nothing has to happen. The queue's idle ticker never ends, so its runs
check deadlock too.

| Run | Question | Bounds |
|---|---|---|
| `queue_core` | Do the queue's safety properties hold in every interleaving? | two clients, two records (the second malformed), two attempts, three calls, one restart, one fault |
| `queue_live` | Does every record settle and every completed file get scanned? | one client, two records, two calls, a restart at any step |
| `queue_lifecycle` | Is the queue a `QueueLifecycle`? | one client (enqueue, retry, clear, stop), three records, four calls, one restart |
| `queue_clear_race` | ClearQueue leaves live work alone: violated | two clients, one record |
| `queue_retry_swallowed` | A retried record is tried: violated | one client, one record |
| `track_overlap` | Are scope and display right when downloads overlap? | the worker with two records and a web page, three downloads, one stop, one edit |
| `track_stop_joins` | A stop spares later downloads: violated | the same without edits |
| `gateway_replies` | Right file, no reply missed, no partial left? | two jobs, two tracks of which one's title is part of the other's, two messages |
| `gateway_loop` | Whole files; does everything end, and without waiting for limits where it should not? | one job, two senders, two messages, one old job, one command |
| `gateway_orphan` | DELETE drops the file: violated | one job |
| `resolve_shared` | Are lookups shared, limited, and answered to everybody? | a web page's download, two prewarms, three ids, two slots, a cache of one entry, four lookups |
| `server` | Do the other parts of the server keep their promises? | below |

`server` is one run for the modules from `Library` to `Answers`: `Server` extends them all, a
behaviour chooses one part at its start and moves only that one, and the state count is the sum.
`CONSTANT Parts` can leave parts out. It comes to rest, so deadlock is not checked: each part
has bounds on its operations. They are: two files of one recording, one below a folder of its
own, and three library operations (scan, landing, cleanup, emptying, crash) with any number of
internal steps; one track, two requests, two reconcilers and one fault of the facade; four hits,
two queries and caches of one and two entries; three files and two passes with one change; two
emitters with three events and two browsers with buffers of two; two goroutines on a shared
client and one on its own, two queries, one revocation, one failure; three albums and two slots;
lists of up to five items in pages of two, two edits; histories of two rows, four additions and
one step back of the clock; two savers, four saves, two crashes or failing writes; two attempts
with all 32 settings, one crash and one failing write or rename; three askers of two recordings,
two ticks; two callers, two tokens, one trouble; three files and two renaming requests, one
landing.

It checks one property per part or pair of parts, each the conjunction of the type invariant
and of named properties that are stated, with their comments, in the modules. The
conjunctions that `Server` makes look at a part while it is the one that moves.

| Property | Its parts |
|---|---|
| `LibraryIsTrue` | `IndexFileIsWhole`, `IndexFileCatchesUp`, `QuietScanIsExact`, `TrashKeepsTheFile`, `CleanupLeavesACopy` |
| `FacadeKeepsItsWord` | `PromiseIsKept`, `EnqueuedOnce`; `CachesInStep`, `RowsAreAcquirable` |
| `PassesAreOrderly` | `OnePassAtATime`, `NumbersAddUp`, `AskedOnce`, `TagsAreTold`, the action property `StopIsHeeded` |
| `HubIsOrderly` | `NoSendOnClosed`, `InOrder` |
| `CatalogIsRead` | `TokenIsShared`, `RetriesAreFresh`, `OwnClientRecovers`; `NobodyIsLeft`, `ReturnsWhatWasShown`; `NoGaps`, `WholeListIsReturned`, `PagingEnds` |
| `SavedIsHeeded` | `FetchedOnce`, `JustAddedIsKept`; `ChoiceIsObeyed`, `RecentsLoadAlways` |
| `FilesAreKept` | `AudioIsKept`, `ToldIsWhole`, `FailuresCleanUp`, `EarlierIsKept`, `LeftIsIndexed`; `NoSongIsLost`, `PreviewComesTrue` |
| `LookupsAreShared` | `OneLookupEach`, `SharedAlike`, `RequestsAreSpaced`, `PauseIsKept` |
| `IdsAreKept` | `TornByFaultsOnly`, `RefusedIsRenewed`, `KnownStaysKnown` |
| `AnswersAgree` | `TrackAgreesWithAlbum`, `DiscWithinDiscs`, `PlaylistRowIsCompleted`, `CoverIsFound`, `LinksLeadBack`, `NextDownloadIsSkipped`, `CheckFindsDownload`, `HybridFindsMost`, `LengthBands`, `SyncedAreTaken`, `TextIsKept`, `OwnedIsMatched` |

Why the bounds of `server` are enough. Each part has two of every actor that can interleave
(three where the third makes the difference: an asker of another recording, a goroutine with
a client of its own) and one of each fault, which can come at any step; two for the settings,
where the rewrite that fails comes after a crash. The library needs
three operations for a scan, something that changes the folder under it and a scan or a
restart that shows the effect. Caches and histories are full at two, so that the third entry
evicts, and the fourth comes back. Five items in pages of two are a full, a full and a short
page. Two attempts show what the second does to the files of the first under every pair of
settings. The questions of `Answers` are the combinations in which a field is there or left out,
alike or different. The proofs cover every number, and every question the assumptions allow.

Why the bounds of the other runs are enough. Two clients are the least for two handlers to
interleave, and a handler has at most three steps, so three calls let a cancel or clear overlap
a retry of the same record after its enqueue. Two records show every effect of one on another
(order, the wrong current item, the mark that has to accumulate). Two attempts show one back-off
and the last attempt. One restart and one fault each can come at any step; the proofs cover any
number of all of these. Three downloads of two callers are the least for a scope that is never
empty while its first member has gone. In the gateway two jobs are the least for a late reply to
the first to meet the second, two messages for a duplicate or a stale one, two senders for one
to finish before the other. `ScanLimit` 3 against two messages never cuts the scan off; a window
that does is the case of `ReplyIsFound`'s mutant. In `resolve_shared` a second id clears the
cache, and a third while the first two are still being looked up; the fourth lookup is the first
that can be a repetition caused by a failure from before a clear (dropping `Undercut` from
`LookedUpOnce` makes TLC find it); two slots let a forgotten lookup and its successor run side
by side and make three callers compete; the proofs cover the rest.

Refinement. `queue_lifecycle` checks `LifecycleSpec`: every step of the queue is a step of
`QueueLifecycle` or a stutter, where a record on back-off counts as `retrying`. It is stated
without `CancelQueueItem` and for calls that do not overlap: with them the queue does not
implement it, because the stale copies that `CancelPut` and `ClearDelete` write can undo
what the worker did.

`server` states no liveness: its parts promise an end only where a service answers, and
`NobodyIsLeft`, `SharedAlike` and `PagingEnds` say as invariants that nobody is left waiting for
something that cannot come.

Fairness. `DownloadQueue`: weak fairness of the worker goroutine, of every handler that has
begun (goroutines keep being scheduled; bolt transactions and requests return, the latter
by their time-outs), of the idle ticker (30 s, `queue.go`), and of the clock. No
fairness for new calls, restarts or faults. `Gateway`: weak fairness of the event loop's
steps (`LoopSpec`), since awaits on Telegram return or raise; only `JobEnds` assumes more,
and says so as its hypothesis `TimePasses`: the clock passes the two limits and begun
requests finish. `AbandonedIsDropped` and `ReplyIsFound` hold without it, which is their
point: nobody has to wait for a limit. No liveness is claimed for `DownloadTrack`.
`DeezerResolve` has a safety property in the place of liveness, `WaitersAreServed`:
a chain of waiting callers ends at one whose lookup runs, whose requests have time-outs of
30 s (`songlink.go:58-64`), and senders blocked on a Go channel are served in their order.

## 5. Proofs

The theorems hold for every value of the constants that satisfies the named assumption of each
module. Most say that bounds are naturals, that names of nothing are no names, and that callers,
albums, paths and files are finitely many. The others are these. `LibraryAssumption`: the folder
of the server is one a scan can be asked for, and an absent file is not a file.
`SearchAssumption`: the catalog's answers are sequences of hits, an id names one hit (Spotify's
do), and `queryRelevance` is 0, 1 or 2. `DiscographyAssumption`: each album has a sequence of
tracks. `ClientAssumption`: every caller has a client. `SettingsAssumption`: a text has a
meaning and is not empty. Those of `Answers` say what a question is: a track has an artist, and
its discs are naturals; widths of images are naturals; before a link's page may come the player,
one locale or both, and behind it at most two parts, of which the first is "discography" and the
second a group, and a search result's id is its uri or left out; a request to name a file has a
credit and a format of known tokens, or one of the plain formats; lengths are integers; a place
tells synced lyrics, others or none, and a stamp's seconds are below 60. Each part's theorems
are about the module's own specification; `ServerProofs` carries them over to `Server`, of which
`server` checks an instance.

Data that loops build is proved about by `Sifting`. `Sift` keeps the elements of a sequence that
are in a set, `Strung` puts the pieces of its elements together; both are recursive functions
over the number of elements seen, as the loops are. `StepByStep` in `SiftingProofs` is induction
for a set of numbers, in place of the library's theorem, whose argument is an operator. From it
come what a sifted sequence holds, that it keeps the order, that it is one behind the other for
a sequence of two parts, and that the sifted beginning is the beginning of the sifted. The rows
of Spotify's search results and the lines of lyrics are such loops.

`DownloadQueueProofs`. `IInv` is the conjunction of the safety properties and what they rest
on. `NothingStranded` needs `WorkerInv` (where the worker holds a record, and that
`currentID` follows) and that a copy a handler writes back is never "downloading" (finished, or
cancelled). `CompletedIsScanned` needs `LandingInv`: success is only reported with the file
landed, and is only written with the mark set. `NoMissedWakeup` speaks of the idle worker
only and is not inductive: `WakeupInv` extends it back to the moment the worker found
nothing to claim. `CancelOfCurrentWins` needs `CancelInv`, which follows the request from
the flag through the worker's place to the written status. From these: `TypeCorrect`,
`NeverStranded`, `BudgetKept`, `NoLostWakeup`, `CompletedMeansScanned`, `CancellationWins`.
`OnePerFault` counts: a step without a fault strands no record that was not, and one with a
fault leaves the bucket as it was, so that at most the record the worker lets go of is added.
`ImplementsLifecycle` is the refinement that `queue_lifecycle` checks, under the same conditions,
named `Sequential`: one client, no CancelQueueItem, no faults. Its invariant `LifeInv` says
that what a call has read is still so when it writes; the races under "Where code and words
disagree" are what breaks it without the first two conditions.

`DownloadTrackProofs`. The invariant `ScopeInv` has the types of the scope's variables,
`ScopeCounts` (by cardinalities of the set of members), `ScopeIsStable`, and `ToldInv`: what
a stopped download joined is dead. Most steps are "quiet": they move one caller without
entering or leaving the scope. From these: `ScopeCounted`, `ScopeStable` and the action
property `StopsReach`. `FlagComesDown` is inductive beside the types (`FlagIsHonest`);
`ProgressIsOwn` needs `ProgressInv`: a call that is off has no progress bound, and while the
worker is alone the current item is its own or none (`ProgressStaysOwn`). `NoGhostRow` is not
inductive, since a call ends the first row of its item: `DisplayInv` says that a row that is
downloading is the first of its item (`RowsAreCalls`), and that two calls have different items
(`ItemsApart`), for which the worker's may be taken again and a web page's is used once. That
`ClearCompleted` keeps this is where `Sift` comes in. From it: `NoRowIsLeft`, and `TypesKept`.

`GatewayProofs`. `IInv` adds `IdsInv` (what is listed, queued or held has been posted),
`RemovalInv` (a file goes only after its job left the table), `FetchInv` (state and file of the
active job against the worker's place) and `PartsInv` (every part is to be taken, awaited or
written). That what a scan picks says nothing or is not apart from the title asked for is
`PickedIsRight`; from the scan on, `FetchInv` carries it to the publication. From these:
`TypeCorrect`, `ReadyMeansWhole`, `ReadyMeansItsTrack`, `PartialsAreActive`. `NoMissedReply` is
inductive once a command in progress is known to be counted; that a scan which picks nothing has
seen nothing acceptable is `ScanSeesAll`, by the least element of a set of naturals
(`NoReplyIsMissed`).

`DeezerResolveProofs`. `LookupRescues` is about `LinkChain` alone: every link that is kept has
been normalized, and what is not a track leaves the last word to Deezer's ISRC API. `IInv` has
`SlotInv` (the semaphore counts the callers inside), `OwnerInv` (an entry has one owner, whose
phase tells how far its lookup is) and `CacheInv`. `LookedUpOnce` is not inductive: it needs to
know why an entry of this epoch is not in the cache any more, which is `CacheInv`'s last part
(it failed and was forgotten, or an older failure of its id took it away). From these:
`TypeCorrect`, `OnlyOneLookup`, `LimitHolds` (together `LookupsSpared`), `FailureIsForgotten`,
and with `ServedInv` (each entry is closed or has an owner) `NobodyIsForgotten`.

`CatalogProofs` has seven parts.

* Client: `ClientInv` numbers the tokens. One that a request carries or the cache holds was
  issued, the lock has one holder, a refused one is no newer than those revoked, and the
  second try of a query carries one that is newer than the refused. From these:
  `ClientTypeCorrect`, `TokensAreShared`, `RetriesHaveNewTokens`, `OwnClientsRecover`.
* Discography: `DiscInv` counts. The slots taken are the albums at work, and the results in the
  channel and those collected are the albums that were sent; one that is yet to be sent makes
  those fewer than the channel's capacity (`EveryoneGetsThrough`). `ShownInv` follows the
  tracks: what a goroutine found, what it sent and what was collected is what the browser was
  shown, and every album that was sent is in the channel or collected, once. At the end all
  are collected and nothing was added since (`DiscographyIsWhole`).
* Paging: `PagesInv` says that while there is a page to ask for all earlier ones were full, so
  that the offset is the number of items (`FullSoFar`); that items are the beginning of a list
  that nobody edits (`QuietList`); and that what was shown first begins the rows. From these:
  `PagesTypeCorrect`, `PagesHaveNoGaps`, `ListsAreWhole`, `PagingComesToAnEnd`.
* MusicBrainz: `MbInv` adds `AttemptsLeft` and `AnswersLast`: who leads waits for nobody, and who
  is through shared with somebody who is through, whose answer therefore stays. From these:
  `MbTypeCorrect`, `LookedUpOneByOne`, `SlotsApart`, `PauseHeeded`, `AnswersShared`, and
  together `LookupsCorrect`.
* Identifiers: `IdInv` adds `TokensAreNumbered` (nobody holds a token that was not made, and
  between making and sending it is newer than the refused one) and `CacheIsKept` (a caller whom
  the cache did not fail has found what the cache had). From these: `IdTypeCorrect`,
  `TornOnlyByFaults`, `NewerAfterRefusal`, `NothingForgotten`, together `IdsCorrect`.
* Facade: `FacadeInv` says of a track whose requests do not overlap (`InOrderFor`) which of its
  promise, its request and its reconciliation is there, and what each still has to do: what was
  wanted is promised, or in the hands of one of them, or true, or excused, as an addition is to
  a playlist whose name was not read. From it: `PromisesComeTrue`, `DownloadsAreSingle`,
  `FacadeTypeCorrect`.
* Search: `SearchInv` says that the orders of both caches list each entry once and within
  their capacity, and that the rows of an answer are `Rows` of what the search was answered.
  The rest is about `Rows`: sifting in three tiers sorts stably, so that a hit that is left out
  is owned or follows a full list. From these: `SearchTypeCorrect`, `CachesKeepInStep`,
  `OffersAreAcquirable`.

`LibraryProofs` has four parts.

* Library: `LibraryInv` says that the three calls of `save()` take turns, that a save is coming
  whenever the file is behind (`SaveIsComing`), that a scan that is quiet has found what is in
  the folder, as far as it has read (`QuietScanFinds`, for which the number of a file tells
  what it holds, `NumbersTell`), that a cleanup's copy is of a file that is owed, and that the
  copy a fresh cleanup keeps stays (`CopyIsSafe`). From these: `LibraryTypeCorrect`,
  `IndexStaysWhole`, `IndexIsSaved`, `QuietScansAreExact`, `MovedFilesAreKept`,
  `CleanupsLeaveACopy`.
* Files of a track: `FilesInv` says for each place of an attempt what is under its name
  (`FileByPc`, `WholeByPc`, whole or damaged), that the other names have nothing half done
  (`CleanElsewhere`), where the cover is, and what finished attempts have left. From these:
  `FilesTypeCorrect`, `AudioStaysOnDisk`, `ToldFilesAreWhole`, `FailedAttemptsCleanUp`,
  `ReportedFilesStay`, `LeftFilesAreIndexed`.
* Renaming: `RenInv` says that a name found free stays free for a request that is alone, and
  that what it has renamed so far is as previewed, in whichever order it takes the files.
  From these: `RenTypeCorrect`, `SongsAreKept`, `PreviewsHold`.
* Answers: `AnswersInv` says that there is no answer yet or the one that belongs to the
  question, and for each kind a lemma says that such an answer is as it should be.
  `TracksAgree`: the greatest disc and the greatest image exist (`GreatestOf`), and in discs
  that are in order the place of a track among its album's is its number on the disc on the
  first disc only (`NumbersAgree`, by the cardinality of what comes before it). `TextsAreKept`:
  lines that are kept are the translations of the lines to be kept, in order (`SiftTranslated`),
  and times survive the way through milliseconds (`TimesAreKept`). `LinksAreFollowed`: a link
  without its player and its locale is its kind, its id and what comes behind
  (`LinksAreCleaned`). `SkippedAsDownloaded`: two names are alike if each token that is left in
  the format, or of the default name, stands for the same. From these: `AnswersCorrect`.

`ServerProofs` has four parts and the whole.

* Event hub: `HubInv` adds to the types `Reading` (who reads the map serves clients that are in
  it, and what is in it is open) and `NothingNewer`: what a browser was sent of an emitter is
  no newer than the emitter's event, and older where that is still to come. `InOrder` alone
  is not inductive, since the next event is put behind the others. From these:
  `HubTypeCorrect`, `NeverSendsOnClosed`, `ShownInOrder`, together `HubCorrect`.
* Histories: `HistoryInv` has the numbers of rows below the bucket's sequence, so that a new key
  is another one, although the clock steps back. From it: `HistoryTypeCorrect`,
  `LinksAreListedOnce`, `AddedRowsStay`.
* Settings: `SettingsInv` says of a file that no crash, no failed write and no second save has
  disturbed that it is empty while it is being saved and the last text otherwise; and of the
  recent fetches that they are empty or whole unless a failed write left a part. From it:
  `SettingsTypeCorrect`, `SettingsAreObeyed`, `RecentsAlwaysLoad`.
* Enrichment: `EnrichInv` counts the files of a pass as processed, in hand or to come, and says
  that what was asked is cached and who still has to tell Navidrome. From it:
  `EnrichTypeCorrect`, `PassesComeOneByOne`, `NumbersAlwaysAddUp`, `ServicesAreAskedOnce`,
  `TagsAreAlwaysTold`, and the action property `StopsAreHeeded`.
* The server: `PartStays`, and for each part a lemma like `LibraryPart`: the server's behaviours
  are behaviours of the part, which either moves by its own steps or stutters while another
  does. So every theorem of a part holds of the server: `ServerLibraryIsTrue`,
  `ServerKeepsItsWord`, `ServerReadsCatalog`, `ServerPassesAreOrderly`, `ServerHeedsSaved`,
  `ServerKeepsFiles` and `ServerSharesAndTells` state the properties that `server` checks, and
  `ServerAnswersAgree` the one about the pure functions, from the steps of `AnswersInv`.

Model-checked only: all liveness (`EveryItemSettles`, `CompletedGetsScanned`,
`AbandonedIsDropped`, `ReplyIsFound`, `JobEnds`), which is out of the prover's reach.

## 6. Where code and words disagree

Each of these is a run that TLC finds violated.

* ClearQueue can delete live work: `DeleteFinishedQueueRecords` lists in one transaction and
  deletes in another (`backend/queue_store.go:249`), a record retried in between is lost.
  `queue.go:471-472` says it is left alone.
* A retry can be swallowed: cancelling a queued record leaves a flag (`queue.go:452`) that
  only its next start consumes, by dropping the record. No interleaving is needed.
* A stop reaches a later download: one that begins while stopped ones are unwinding joins
  their cancelled context (`backend/download_cancel.go:25`).
* A DELETE between the last check of the senders and the publication leaves the file on
  disk with nothing that refers to it (`flacit-gateway/gateway.py:668`).

Seen while modelling, without a run of their own:

* `CancelQueueItem` may stop the next download (`queue.go:456`) or overwrite a completed
  record with its stale copy (`queue.go:461`).
* A file that landed while its record was cancelled sets no scan mark (`queue.go:140`).
* A second attempt of a record adds a second display row; progress goes to the first,
  `GetQueue` shows the last (`backend/progress.go:319`).
* The DELETE of a finished job leaves its id in `_cancelled_jobs` (`gateway.py:665`); the
  reaper counts from creation, not from the end (`gateway.py:510`); a bot command checks for
  an active fetch once and then waits (`gateway.py:722`).
* A late reply for a track whose title is part of the title asked for, or holds it, is delivered
  as the track asked for (`matching.py:83-85`); so is any file that says nothing readable. If
  `os.replace` fails (`gateway.py:478`), the `.part` file stays, and no job refers to it.
* A failed lookup deletes by key (`backend/flacit.go:310`). After a clear of the full cache
  this may be a newer entry, in flight or successful, so that one clear can cost a track
  more than the one repeated lookup of `flacit.go:264`.
* A lookup that panics under a web page's request leaves its closed, empty entry in the
  cache: later calls get no Deezer link for that track until the next clear or start.

Seen in the parts that `server` checks; the properties name these cases as exceptions:

* Library: two saves at once share `library-index.json.tmp` and can leave an index that does
  not parse (`library.go:236`); a scan forgets what was noted while it ran, until the next.
* Cleanup: across file systems a file that is downloaded again while its old copy is moved is
  removed with it (`library_dedup.go:350`); emptying the trash during the copy loses the file.
* Facade: `unstar` takes the promise back but not the download (`subsonic.go:834-859`); the
  playlists a promise is for are kept in memory only; overlapping requests for one track can
  lose a promise or enqueue twice (`subsonic.go:983-993`), which the properties except as
  `tangled`; a track added while creating a playlist is acquired and filed nowhere when Navidrome
  answers in XML, Subsonic's default, since only JSON is read for the id (`subsonic.go:914-927`),
  although that is what `subsonic.go:886-889` wants to avoid; all promises of a reconciliation
  share one deadline; a promise for a track that is already downloaded, or one after a
  refused rescan, waits until another file lands; a file without artists is owned in one
  comparison and not in the other, although a comment says they never disagree.
* Enrichment tags a file that was replaced after the files were collected.
* Spotify: goroutines that share a client write its tokens at the same time, and one that is
  refused empties them under its siblings (`spotfetch.go:344`), whose albums are then missing
  without a word; a short page or a missing total ends the paging, and the count is
  overwritten with what came, so nobody can tell (`spotify_metadata.go:695`).
* Tracks: an album's page numbers through over its discs where the track's own page starts
  anew on each; a track's disc can be higher than its number of discs when the album cannot be
  fetched.
* Histories: clearing a history that was cleared already is an error; deleting under the
  cursor may pass over a row (there is never one to pass over).
* Settings are written in place: in the middle of a save, and after a crash in it or a write that
  fails (`app.go:2296`), readers take the defaults; so after a rewrite at start that fails
  (`backend/config.go:49`), of which nobody is told; two saves at once can mix. Recent fetches
  of which a part was written are an error to every load until the next save.
* Track files: a failed resampling or conversion leaves the download without an entry in the
  library; ffmpeg writes under the final name, so that a crash leaves a part that is taken for
  the file; a converted file of an earlier attempt is written over; opus, wav and aiff come
  without tags; a rewrite of tags in place that fails is only warned about, and the damaged file
  is converted, reported and indexed all the same, as the only copy if the original is removed
  (`backend/flacit.go:229`, `app.go:833`, `backend/ffmpeg.go:812-841`); a cover whose download
  fails once its file was created stays (`backend/cover.go:124-133`), although it "must be
  removed on *every* path" (`backend/flacit.go:148`); two overlapping downloads of one track
  resolve to the same path; lyrics and tag selection rewrite in place.
* Identifiers: a token file torn by a crash blocks every lookup that reads it until it is
  deleted (`isrc_finder.go:245`); when the ISRC cache cannot be read a known ISRC is not used,
  and when it cannot be written an ISRC is told and not kept, both with a warning only
  (`isrc_finder.go:63-66`, `108-112`).
* MusicBrainz: a slot given before a 503 is still used; who missed the cache before another's
  lookup ended may look up again.
* Renaming looks for a file of the new name and then moves: one that lands in between is
  written over (`filemanager.go:483`).
* Names: the test before a download knows `{playlist}`, the download writes "Unknown"; plain
  formats with "first artist only" differ; `CheckFilesExistence` fills the artist, creator,
  album number and date tokens differently. A format of nothing but substituted tokens, such as
  `{artist}`, is lost: the download calls the file "Title - Artist" and the check looks for the
  artist's name (`app.go:699-707`, `backend/filename.go:76`). The check knows FLAC, MP3 and M4A
  only (`app.go:2170-2176`): what was converted to another kind, its original removed, is not
  found. Where they differ, a track is downloaded again.
* Matching: "short names can't swallow each other" (`backend/match.go:78-80`) is undone by the
  containment of the whole credits after it (`match.go:85-86`).
* Lyrics: a fraction of three digits is read as hundredths; a stamp without words is kept as
  text when it is short and dropped when it is long.

## 7. Not modelled, and why

HTTP clients, file and tag formats, external programs, spectrum analysis, the cleaning of
characters in names and the web page have no state that several actors share; what they can
return is a choice in the model that calls them. Of Spotify's answers only the fields are
modelled that are put together from several places; the JSON around them, search and discovery
queries and the one-time password are not. The facade's XML and JSON envelopes and the calls it
only forwards are left out, as is the RPC dispatch: each call is an action of the module it
reaches. Passwords and access control are not the subject. The parts in `server` are not
composed with one another where one only triggers the other (a landing file, a rescan): the
trigger is an action at any moment. `PROJECT.json` lists every component with its status, and
the hazards of the code with the properties that watch them.
