------------------------------ MODULE SpotifyData ------------------------------
(***************************************************************************)
(* What the program makes of Spotify's answers (spotfetch.go and the       *)
(* format functions of spotify_metadata.go).  One track is seen from three *)
(* sides: on its own page, as a row of its album, as a row of a playlist.  *)
(*                                                                         *)
(* A credit is a sequence of names, a date a sequence of year, month and   *)
(* day, a url the set of it or, where there is none, the empty set; an     *)
(* image source is [image, width, height, prefixed].                       *)
(***************************************************************************)
EXTENDS Integers, Sequences, FiniteSets, FiniteSetsExt, SequencesExt, Sifting

Unsaid == -1        \* a field that the answer does not have
NoCredit == <<>>
NoDate == <<>>
OneIfZero(n) == IF n = 0 THEN 1 ELSE n

(* extractCoverImage.  Small and wide images are left out; the largest size is
   not among the sources, its url is made from one whose name is known. *)
Usable(s) == \/ s.width > 64 /\ s.height > 64
             \/ s.width = 0 /\ s.height = 0

LargeUrl == 2000

CoverImage(sources) ==
    LET usable == {s \in sources : Usable(s)}
        Sized(w) == {<<s.image, w>> : s \in {u \in usable : u.width = w}}
        known == {s \in usable : s.prefixed}
        large == {<<s.image, LargeUrl>> : s \in {k \in known : \A o \in known : k.width <= o.width}}
        any == Sized(0)
    IN  IF Sized(300) \cup Sized(640) \cup large = {}
        THEN [small |-> any, medium |-> any, large |-> any]
        ELSE [small |-> Sized(300), medium |-> Sized(640), large |-> large]

NoCover == CoverImage({})

\* mutant: a cover has its small size
SmallOnly(cover) == cover.small

(* The pages show the smallest size there is, search results the medium one. *)
Shown(cover) ==
    IF cover.small # {} THEN cover.small
    ELSE IF cover.medium # {} THEN cover.medium ELSE cover.large

ShownInSearch(cover) == cover.medium

ArtistAvatar(cover) == IF cover.medium # {} THEN cover.medium ELSE cover.small

(* extractDuration writes minutes and seconds, parseDuration reads them. *)
DurationMs(ms) ==
    LET seconds == ms \div 1000
    IN  ((seconds \div 60) * 60 + (seconds % 60)) * 1000

(* A date with its parts: FilterTrack and extractRelease put them together,
   FilterAlbum takes the ISO form only. *)
DateOf(d) ==
    IF d.iso # NoDate THEN d.iso
    ELSE IF d.parts = NoDate THEN NoDate
    ELSE IF Len(d.parts) = 3 THEN d.parts ELSE <<d.parts[1]>>
-----------------------------------------------------------------------------
(* FilterAlbum and formatAlbumData: tracks are numbered through all discs.  *)
AlbumDiscs(a) == IF a.declared = Unsaid THEN 1 ELSE a.declared

\* mutant: a track that does not say its disc has none
RawAlbumRow(a, i) ==
    [id |-> a.tracks[i].id, number |-> i, total |-> Len(a.tracks),
     disc |-> a.tracks[i].disc, discs |-> AlbumDiscs(a),
     credit |-> a.tracks[i].credit, albumCredit |-> a.credit, date |-> a.date.iso,
     ms |-> DurationMs(a.tracks[i].ms), cover |-> Shown(CoverImage(a.sources))]

AlbumRow(a, i) ==
    [id |-> a.tracks[i].id, number |-> i, total |-> Len(a.tracks),
     disc |-> OneIfZero(a.tracks[i].disc), discs |-> AlbumDiscs(a),
     credit |-> a.tracks[i].credit, albumCredit |-> a.credit, date |-> a.date.iso,
     ms |-> DurationMs(a.tracks[i].ms), cover |-> Shown(CoverImage(a.sources))]

AlbumRows(a) == [i \in DOMAIN a.tracks |-> AlbumRow(a, i)]

(* fetchTrack asks for the track's album as well, to no harm if that fails.
   The discs it declares are handed over as a number FilterTrack cannot read. *)
NotFetched == [rows |-> <<>>, credit |-> NoCredit]
FetchedAlbum(a) == [rows |-> AlbumRows(a), credit |-> a.credit]

TrackCredit(t) ==
    IF t.credit # NoCredit THEN t.credit
    ELSE IF t.first \o t.others # NoCredit THEN t.first \o t.others
    ELSE IF t.inAlbum THEN t.album.credit ELSE NoCredit

(* The disc: that of the last row of the album with the track's id. *)
TrackDisc(t, fetched) ==
    LET hits == {i \in DOMAIN fetched.rows : fetched.rows[i].id = t.id}
    IN  IF hits = {} THEN OneIfZero(t.disc) ELSE fetched.rows[Max(hits)].disc

\* mutant: the discs of the track's own answer come first
TrackDiscsFromTrack(t, fetched) ==
    IF t.inAlbum /\ t.album.discs # {} THEN Max({OneIfZero(d) : d \in t.album.discs} \cup {1}) ELSE 1

(* The discs: the highest of the album's rows, else of those rows that came
   with the track, else one. *)
TrackDiscs(t, fetched) ==
    IF fetched.rows # <<>> THEN Max({fetched.rows[i].disc : i \in DOMAIN fetched.rows})
    ELSE IF t.inAlbum THEN Max({OneIfZero(d) : d \in t.album.discs} \cup {1})
    ELSE 1

TrackAlbumCredit(t, fetched) ==
    IF ~t.inAlbum THEN NoCredit
    ELSE IF fetched.credit # NoCredit THEN fetched.credit ELSE t.album.credit

TrackCover(t) ==
    IF CoverImage(t.visual) # NoCover THEN CoverImage(t.visual)
    ELSE IF t.inAlbum THEN CoverImage(t.album.sources) ELSE NoCover

(* FilterTrack and formatTrackData. *)
TrackPage(t, fetched) ==
    [id |-> t.id, number |-> t.number, total |-> IF t.inAlbum THEN t.album.total ELSE 0,
     disc |-> TrackDisc(t, fetched), discs |-> TrackDiscs(t, fetched),
     credit |-> TrackCredit(t), albumCredit |-> TrackAlbumCredit(t, fetched),
     date |-> IF t.inAlbum THEN DateOf(t.album.date) ELSE NoDate,
     ms |-> DurationMs(t.ms), cover |-> Shown(TrackCover(t))]

(* FilterPlaylist and formatPlaylistData: no number, no totals, no date.    *)
PlaylistRow(t) ==
    [id |-> t.id, number |-> 0, total |-> 0, disc |-> t.disc, discs |-> 0,
     credit |-> t.credit, albumCredit |-> IF t.inAlbum THEN t.album.credit ELSE NoCredit,
     date |-> NoDate, ms |-> DurationMs(t.ms),
     cover |-> IF t.inAlbum THEN Shown(CoverImage(t.album.sources)) ELSE {}]

\* mutant: the date is not taken from the page
CompletedUndated(row, page) ==
    [row EXCEPT !.number = IF @ = 0 THEN page.number ELSE @,
                !.total = IF @ = 0 THEN page.total ELSE @,
                !.discs = IF @ = 0 THEN page.discs ELSE @]

(* DownloadTrack asks for the track's page when the request lacks something,
   and takes what it lacks from it.  The disc is not among that. *)
CompletedRow(row, page) ==
    [row EXCEPT !.number = IF @ = 0 THEN page.number ELSE @,
                !.total = IF @ = 0 THEN page.total ELSE @,
                !.discs = IF @ = 0 THEN page.discs ELSE @,
                !.date = IF @ = NoDate THEN page.date ELSE @]
-----------------------------------------------------------------------------
(* extractRelease: a row of a discography.  FilterAlbum dates by ISO only.   *)
ReleaseRow(a) ==
    [id |-> a.id, date |-> DateOf(a.date), total |-> Len(a.tracks),
     cover |-> ShownInSearch(CoverImage(a.sources))]

(* FilterSearch.  An entry holds what it is about under a key that depends on
   the kind; a row needs a name, an album artists too.  Artists and playlists
   have their id from the uri alone. *)
Holder(kind) == IF kind = "track" THEN {"item", "track"} ELSE {"data", kind}

Listed(kind, e) ==
    e.holder \in Holder(kind) /\ e.named /\ (kind = "album" => e.credit # NoCredit)

IdOf(kind, e) ==
    IF kind \in {"track", "album"} /\ e.id # "" THEN e.id ELSE e.uri

SearchCover(kind, e) ==
    IF kind \in {"artist", "playlist"} /\ CoverImage(e.sources) = NoCover
    THEN ShownInSearch(CoverImage(e.otherSources))
    ELSE ShownInSearch(CoverImage(e.sources))

SearchRows(kind, entries) ==
    LET kept == Sift(entries, {e \in Range(entries) : Listed(kind, e)})
    IN  [i \in DOMAIN kept |-> [kind |-> kind, id |-> IdOf(kind, kept[i]),
                                cover |-> SearchCover(kind, kept[i])]]

(* Search and SearchByType ask for 50 rows unless fewer are wanted. *)
SearchLimit(limit) == IF limit <= 0 \/ limit > 50 THEN 50 ELSE limit
-----------------------------------------------------------------------------
(* parseSpotifyURI, of the parts of a link's path. *)
Kinds == {"album", "track", "playlist", "artist"}
Groups == {"all", "album", "single", "compilation"}
NotALink == [kind |-> "none", id |-> "", group |-> ""]
Hosts == {"open.spotify.com", "play.spotify.com"}
Locales == {"intl-de"}

Without(parts, heads) == IF parts # <<>> /\ parts[1] \in heads THEN Tail(parts) ELSE parts

\* mutant: the locale comes before the player
CleanLinkSwapped(parts) == Without(Without(parts, Locales), {"embed"})

CleanLink(parts) == Without(Without(parts, {"embed"}), Locales)

ParsePath(path) ==
    LET parts == CleanLink(path)
    IN  IF Len(parts) = 2 /\ parts[1] \in Kinds
        THEN [kind |-> parts[1], id |-> parts[2], group |-> ""]
        ELSE IF Len(parts) >= 3 /\ parts[1] = "artist" /\ parts[3] = "discography"
        THEN [kind |-> "artist_discography", id |-> parts[2],
              group |-> IF Len(parts) >= 4 /\ parts[4] \in Groups THEN parts[4] ELSE "all"]
        ELSE IF Len(parts) >= 3 /\ parts[1] = "artist"
        THEN [kind |-> "artist", id |-> parts[2], group |-> ""]
        ELSE NotALink

ParseLink(host, path) == IF host \in Hosts THEN ParsePath(path) ELSE NotALink

(* getRawSpotifyData: an artist is asked for as his whole discography. *)
Fetched(link) ==
    IF link.kind = "artist" THEN [kind |-> "artist_discography", id |-> link.id, group |-> "all"]
    ELSE link
==============================================================================
