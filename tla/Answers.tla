-------------------------------- MODULE Answers --------------------------------
(***************************************************************************)
(* The program's pure functions, asked one question each: what it makes of *)
(* an answer of Spotify's, what it calls a file and whether it finds it    *)
(* again, which lyrics it takes, what it takes for the same recording.     *)
(* The questions are constants: what the services, the folder and the user *)
(* may come with, as far as the assumptions name it.                       *)
(***************************************************************************)
EXTENDS FileNames, Lyrics, Matching, TLC

CONSTANTS
    TrackQuestions, CoverQuestions, LinkQuestions,      \* about Spotify's answers and links
    NameQuestions, ExistsQuestions, LengthQuestions,    \* about files
    LyricsQuestions, TextQuestions,                     \* about lyrics
    MatchQuestions                                      \* about the library

VARIABLES question, answer

answerVars == <<question, answer>>

NotAnswered == [about |-> "nothing"]
-----------------------------------------------------------------------------
(* A track i of an album, whose tracks are on the discs `discs` and as long as
   `lengths`.  What the track's answer says is chosen: its disc and image, the
   discs of its album's tracks, its credit in one piece; what the album's says:
   how many discs there are. *)
ASSUME TrackAssumption ==
    \A q \in TrackQuestions :
        /\ q.about = "track"
        /\ q.discs \in Seq(Nat) /\ q.i \in DOMAIN q.discs
        /\ q.first \o q.others # NoCredit      \* a track has an artist

HighestDisc(discs) == Max({OneIfZero(discs[i]) : i \in DOMAIN discs})

AlbumAsked(q) ==
    [id |-> "al", declared |-> IF q.declared THEN HighestDisc(q.discs) ELSE Unsaid,
     credit |-> q.albumCredit, date |-> q.date, sources |-> q.sources,
     tracks |-> [i \in DOMAIN q.discs |->
                    [id |-> i, disc |-> q.discs[i], ms |-> q.lengths[i], credit |-> q.first \o q.others]]]

NumberOnDisc(discs, i) == Cardinality({j \in 1..i : discs[j] = discs[i]})

TrackOf(q) ==
    [id |-> q.i, number |-> NumberOnDisc(q.discs, q.i), disc |-> IF q.said.disc THEN q.discs[q.i] ELSE 0,
     ms |-> q.lengths[q.i], inAlbum |-> q.inAlbum,
     credit |-> IF q.said.credit THEN q.first \o q.others ELSE NoCredit, first |-> q.first,
     others |-> q.others, visual |-> IF q.said.disc THEN q.sources ELSE {},
     album |-> [credit |-> q.albumCredit, total |-> Len(q.discs), date |-> q.date, sources |-> q.sources,
                discs |-> IF q.said.discs THEN {q.discs[j] : j \in DOMAIN q.discs} ELSE {}]]

TrackAnswer(q) ==
    LET a == AlbumAsked(q)
        t == TrackOf(q)
        page == TrackPage(t, IF q.reached /\ q.inAlbum THEN FetchedAlbum(a) ELSE NotFetched)
    IN  [about |-> "track", page |-> page, row |-> AlbumRow(a, q.i),
         completed |-> CompletedRow(PlaylistRow(t), page), release |-> ReleaseRow(a)]

(* The sources of images. *)
ASSUME CoverAssumption ==
    \A q \in CoverQuestions : q.about = "cover" /\ \A s \in q.sources : s.width \in Nat

CoverAnswer(q) ==
    LET cover == CoverImage(q.sources)
    IN  [about |-> "cover", page |-> Shown(cover), found |-> ShownInSearch(cover),
         avatar |-> ArtistAvatar(cover)]

(* Links of search results, and of what people paste: a player, a locale or
   both may come before, a page of an artist behind. *)
LinkHeads == {<<>>, <<"embed">>, <<"intl-de">>, <<"embed", "intl-de">>}

IsLinkTail(suffix) ==
    /\ suffix \in Seq(STRING) /\ Len(suffix) <= 2
    /\ Len(suffix) = 2 => suffix[1] = "discography" /\ suffix[2] # "discography"

ASSUME LinkAssumption ==
    \A q \in LinkQuestions :
        /\ q.about = "link"
        /\ q.kind \in Kinds /\ q.limit \in Int
        /\ q.prefix \in LinkHeads /\ IsLinkTail(q.suffix)
        /\ q.entry.uri \in STRING /\ q.entry.id \in {"", q.entry.uri}

LinkAnswer(q) ==
    LET rows == SearchRows(q.kind, <<q.entry>>)
    IN  [about |-> "link", limit |-> SearchLimit(q.limit),
         rows |-> rows,
         leadsTo |-> [i \in DOMAIN rows |->
                        ParseLink("open.spotify.com", q.prefix \o <<rows[i].kind, rows[i].id>> \o q.suffix)],
         elsewhere |-> ParseLink("example.org", <<q.kind, q.entry.uri>>),
         artist |-> Fetched(ParsePath(<<"artist", q.entry.uri>>))]
-----------------------------------------------------------------------------
(* The name of a file. *)
RequestField ==
    {"about", "title", "credit", "albumCredit", "separator", "date", "isrc", "disc", "position", "number",
     "useAlbumNumber", "numbered", "total", "discs", "playlist", "owner", "firstOnly", "template",
     "titleOnly", "resample", "convert", "remove", "audio", "page"}

ASSUME NameAssumption ==
    \A q \in NameQuestions :
        /\ q.about = "name" /\ DOMAIN q = RequestField
        /\ q.credit # Blank /\ q.template \subseteq Token
        /\ q.titleOnly => q.template = {}

NameAnswer(q) ==
    LET left == LeftByDownload(q, q.page)
    IN  [about |-> "name", skipped |-> SkipsThese(q, q.page, left), found |-> ChecksFor(q, left)]

(* Is the file there? *)
ASSUME ExistsAssumption == \A q \in ExistsQuestions : q.about = "exists"

ExistsAnswer(q) ==
    [about |-> "exists",
     by |-> [mode \in {"filename", "isrc", "hybrid"} |-> Found(mode, q.files, q.track)],
     says |-> [mode \in {"filename", "isrc", "hybrid"} |-> SaysItExists(mode, q.suffix, q.files, q.track)]]

(* Is it as long as it should be? *)
ASSUME LengthAssumption ==
    \A q \in LengthQuestions : q.about = "length" /\ q.should \in Int /\ q.does \in Int

LengthAnswer(q) == [about |-> "length", passes |-> LengthIsRight(q.should, q.does)]
-----------------------------------------------------------------------------
(* Lyrics: what the places tell, and the lines of a result. *)
LyricsPlace == {"exact", "no album", "search", "simplified", "simplified search"}
Tells == {"none", "unsynced", "synced"}

ASSUME LyricsAssumption ==
    \A q \in LyricsQuestions : q.about = "lyrics" /\ q.told \in [LyricsPlace -> Tells]

LyricsAnswer(q) ==
    [about |-> "lyrics", from |-> TakenFrom(q.told, q.hasAlbum, q.isShorter)]

LyricsLine == [stamp : {<<>>} \cup (Nat \X (0..59) \X Nat), words : STRING]
LyricsResult == [synced : Seq(LyricsLine), plain : Seq(LyricsLine)]

ASSUME TextAssumption ==
    \A q \in TextQuestions : q.about = "text" /\ q.results \in Seq(LyricsResult)

TextAnswer(q) ==
    LET best == BestResult(q.results)
    IN  [about |-> "text", best |-> best, lrc |-> ToLRC(Converted(best))]

(* The same recording? *)
ASSUME MatchAssumption == \A q \in MatchQuestions : q.about = "match"

MatchAnswer(q) ==
    [about |-> "match",
     type |-> MatchType({q.file}, IF q.cached THEN [x \in {q.item.id} |-> q.cachedISRC] ELSE <<>>, q.item),
     owned |-> OwnedHas({q.file}, q.item.title, q.item.credit),
     matches |-> SongMatches(q.file, q.item.title, q.item.credit)]
-----------------------------------------------------------------------------
AnswersInit ==
    /\ \/ question \in TrackQuestions
       \/ question \in CoverQuestions
       \/ question \in LinkQuestions
       \/ question \in NameQuestions
       \/ question \in ExistsQuestions
       \/ question \in LengthQuestions
       \/ question \in LyricsQuestions
       \/ question \in TextQuestions
       \/ question \in MatchQuestions
    /\ answer = NotAnswered

Answering(about, given) == answer = NotAnswered /\ question.about = about /\ answer' = given
                           /\ UNCHANGED question

AnswersNext ==
    \/ Answering("track", TrackAnswer(question))
    \/ Answering("cover", CoverAnswer(question))
    \/ Answering("link", LinkAnswer(question))
    \/ Answering("name", NameAnswer(question))
    \/ Answering("exists", ExistsAnswer(question))
    \/ Answering("length", LengthAnswer(question))
    \/ Answering("lyrics", LyricsAnswer(question))
    \/ Answering("text", TextAnswer(question))
    \/ Answering("match", MatchAnswer(question))

AnswersSpec == AnswersInit /\ [][AnswersNext]_answerVars
Is(about) == answer.about = about
-----------------------------------------------------------------------------
(* A track of its own and the same track among its album's agree on the disc,
   the discs, the album's credit, the length, the cover and, where the album
   has it, the date: whatever its answer leaves out, provided the album could
   be asked for and says how many discs it has.  Their numbers agree on the
   first disc only, where the discs are in order: an album counts through. *)
DiscsInOrder(discs) ==
    /\ discs[1] \in {0, 1}
    /\ \A i, j \in DOMAIN discs : i < j => discs[i] <= discs[j] /\ (discs[i] = 0 <=> discs[j] = 0)

TrackAgreesWithAlbum ==
    Is("track") /\ question.inAlbum =>
        /\ answer.page.ms = answer.row.ms /\ answer.page.total = answer.row.total
        /\ answer.page.albumCredit = answer.row.albumCredit
        /\ answer.page.cover = answer.row.cover /\ answer.page.credit = answer.row.credit
        /\ answer.row.date # NoDate => answer.page.date = answer.row.date
        /\ answer.release.date = answer.page.date
        /\ question.reached => answer.page.disc = answer.row.disc
        /\ question.reached /\ question.declared => answer.page.discs = answer.row.discs
        /\ DiscsInOrder(question.discs) =>
                (answer.page.number = answer.row.number <=> answer.row.disc = 1)

(* A track is on one of the discs there are, if the album, or the rows that
   came with the track, could be read. *)
DiscWithinDiscs ==
    Is("track") =>
        /\ question.inAlbum /\ (question.reached \/ question.said.discs)
                => answer.page.disc \in 1..answer.page.discs
        /\ question.declared => answer.row.disc \in 1..answer.row.discs

(* A playlist's row, which has no numbers, is downloaded as the track itself
   would be, but for its disc if the playlist does not say it. *)
PlaylistRowIsCompleted ==
    Is("track") =>
        /\ [answer.completed EXCEPT !.disc = 1, !.credit = <<>>, !.albumCredit = <<>>, !.cover = {}]
             = [answer.page EXCEPT !.disc = 1, !.credit = <<>>, !.albumCredit = <<>>, !.cover = {}]
        /\ question.said.disc /\ question.inAlbum /\ question.reached /\ answer.completed.disc # 0
                => answer.completed.disc = answer.page.disc

(* A cover is shown whenever a source has a size that is wanted, no size, or
   a name the largest can be told from; in search results and for artists only
   where the medium, or also the small, size is there. *)
CoverIsFound ==
    Is("cover") =>
        LET usable == {s \in question.sources : Usable(s)}
            Sizes(W) == \E s \in usable : s.width \in W
        IN  /\ answer.page # {} <=> Sizes({0, 300, 640}) \/ \E s \in usable : s.prefixed
            /\ answer.found # {} => answer.page # {}
            /\ answer.found # {} <=> Sizes({640}) \/ (Sizes({0}) /\ ~Sizes({300})
                                                      /\ \A s \in usable : ~s.prefixed)
            /\ answer.avatar # {} <=> answer.found # {} \/ Sizes({300})

(* The links of search results lead back to what they are of, also with a
   player or a locale before them; only an artist's may go on. *)
LinksLeadBack ==
    Is("link") =>
        /\ \A i \in DOMAIN answer.rows :
            LET row == answer.rows[i]
                to == answer.leadsTo[i]
            IN  /\ row.id = question.entry.uri
                /\ IF question.suffix = <<>> \/ row.kind = "artist"
                   THEN to.id = row.id /\ to.kind \in {row.kind, "artist_discography"}
                   ELSE to = NotALink
                /\ to.kind = "artist_discography" <=> row.kind = "artist" /\ "discography" \in Range(question.suffix)
                /\ to.kind = "artist_discography" =>
                        to.group = IF Len(question.suffix) = 2 /\ question.suffix[2] \in Groups
                                   THEN question.suffix[2] ELSE "all"
        /\ answer.elsewhere = NotALink /\ answer.limit \in 1..50
        /\ answer.artist = ParsePath(<<"artist", question.entry.uri, "discography">>)

(* What the test's name and the download's differ by: the playlist, which only
   the test knows, and the first artist of a plain format, which only the
   download takes. *)
NamedAlike ==
    /\ ~("playlist" \in question.template /\ Named(question.playlist) # Unknown)
    /\ ~(/\ "artist" \in Tokens(question, PutInByDownload) /\ ~IsTemplate(question, PutInByDownload)
         /\ question.firstOnly /\ FirstCredited(question, question.credit) # question.credit)

OriginalStays ==
    question.convert \notin ConvertKind \/ ~question.remove \/ question.resample = "beside"

(* A track that was downloaded is skipped when it is asked for again, unless
   its FLAC was removed for a conversion and the test looks for another name. *)
NextDownloadIsSkipped ==
    Is("name") => (answer.skipped <=> OriginalStays \/ NamedAlike)

(* What a name may depend on that CheckFilesExistence fills in differently.  *)
FirstArtistMatters ==
    /\ IsTemplate(question, PutInByDownload) \/ question.firstOnly
    /\ FirstCredited(question, question.credit) # question.credit

FilledInAlike ==
    LET t == question.template
    IN  /\ IsTemplate(question, PutInByDownload) <=> IsTemplate(question, PutInByCheck)
        /\ "artist" \in Tokens(question, PutInByCheck) => ~FirstArtistMatters
        /\ IsTemplate(question, PutInByDownload) =>
                /\ t \cap {"album_artist", "creator"} = {}
                /\ "date" \in t => question.date # Blank
                /\ "total_tracks" \in t => question.total # 0
        /\ question.useAlbumNumber => question.number \in {0, question.position}

(* The web UI is told so as well, unless the name has a token it does not fill
   in as the download does, or nothing but such as the download puts in; and if
   it asks for a kind that is there.  What is converted to a kind the check
   does not know is not found without its FLAC. *)
CheckFindsDownload ==
    Is("name") =>
        LET kind == AutoConvertExtension(question)
            asked == CheckedKind(question)
        IN  /\ FilledInAlike =>
                (answer.found <=> \/ asked = "flac" /\ OriginalStays
                                  \/ asked = kind /\ question.resample # "beside")
            /\ kind \in {"wav", "aiff", "opus"} /\ ~OriginalStays => ~answer.found

(* A check by both finds what either alone would, except for an ISRC that has
   to be looked up first; a check by ISRC takes no file that has another. *)
HybridFindsMost ==
    Is("exists") =>
        /\ answer.by["filename"] # {} => answer.by["hybrid"] # {}
        /\ question.track.isrc # Blank /\ answer.by["isrc"] # {} => answer.by["hybrid"] # {}
        /\ \A f \in answer.by["isrc"] :
                \/ f.isrc # Blank
                \/ question.track.isrc = Blank /\ question.track.resolved = Blank
        /\ \A f \in answer.by["hybrid"] : f.large /\ (f.isrc # Blank \/ f.name = question.track.name)
        /\ question.suffix => \A mode \in DOMAIN answer.says : ~answer.says[mode]

(* The right length passes, a preview of a minute's track or more does not,
   nor does half of a track, or twice it, from a minute and a half on. *)
LengthBands ==
    Is("length") =>
        LET should == question.should
            does == question.does
        IN  /\ Apart(should, does) <= 15 => answer.passes
            /\ should >= 60 /\ does \in 1..30 => ~answer.passes
            /\ should >= 90 /\ does > 0 /\ (2 * does <= should \/ does >= 2 * should) => ~answer.passes
            /\ should <= 0 \/ does <= 0 => answer.passes

(* Synced lyrics are taken wherever they are, and others only when no place
   that was asked has synced ones. *)
SyncedAreTaken ==
    /\ Is("lyrics") =>
        LET asked == Range(Places(question.hasAlbum, question.isShorter))
            told == question.told
        IN  /\ (\E p \in asked : told[p] = "synced") => answer.from \in asked /\ told[answer.from] = "synced"
            /\ answer.from = "none" <=> \A p \in asked : told[p] = "none"
    /\ Is("text") =>
        (answer.best.synced = <<>> <=> \A i \in DOMAIN question.results : question.results[i].synced = <<>>)

(* Every line with words is in the file, in order, with its time to the
   hundredth if that is how it was given; so is a pause with such a time,
   within the first hundred minutes. *)
IsToBeKept(line) ==
    line.words # "" \/ (line.stamp # <<>> /\ line.stamp[1] < 100 /\ line.stamp[3] < 100)

TextIsKept ==
    Is("text") =>
        LET lines == IF answer.best.synced # <<>> THEN answer.best.synced ELSE answer.best.plain
            given == Sift(lines, {l \in Range(lines) : IsToBeKept(l)})
        IN  /\ Len(answer.lrc) = Len(given)
            /\ \A i \in DOMAIN given :
                /\ answer.lrc[i].words = given[i].words
                /\ given[i].stamp = <<>> => answer.lrc[i].stamp = <<>>
                /\ given[i].stamp # <<>> /\ given[i].stamp[3] < 100 => answer.lrc[i].stamp = given[i].stamp

(* What the library, or the search, takes to be owned by its name, reconcile
   takes for the same song in Navidrome; the other way round a file without
   artists is nobody's there and everybody's here. *)
OwnedIsMatched ==
    Is("match") =>
        /\ answer.owned => answer.matches
        /\ answer.type = "name" => answer.owned
        /\ answer.matches /\ question.file.credit # {} => answer.owned
        /\ answer.type = "none" => ~answer.owned
==============================================================================
