------------------------------- MODULE MCServer -------------------------------
(***************************************************************************)
(* The instance of the server that TLC checks: small libraries, catalogs,  *)
(* folders and texts, with the cases that the comments name.               *)
(***************************************************************************)
EXTENDS Server

(* Instances: two files of the library, one below a folder that is scanned on its own. *)
UnderMC == [d \in {"music", "sub"} |-> IF d = "music" THEN {1, 2} ELSE {2}]
RankMC == [p \in {1, 2} |-> IF p = 1 THEN 3 ELSE 1]

(* A title that begins another, a hit without a title, one the library knows by ISRC. *)
Hair == [id |-> 1, title |-> "hair", credit |-> {"ann"}, isrc |-> "i1"]
Hair2 == [id |-> 2, title |-> "hair", credit |-> {"bo", "n"}, isrc |-> ""]
Salon == [id |-> 3, title |-> "hair salon", credit |-> {"bo"}, isrc |-> ""]
Untitled == [id |-> 4, title |-> "", credit |-> {}, isrc |-> ""]
HitMC == {Hair, Hair2, Salon, Untitled}
CatalogMC == [q \in {"hair", "salon"} |->
                 IF q = "hair" THEN <<Salon, Untitled, Hair, Hair2>> ELSE <<Hair2, Salon>>]
LibrarySongMC == {[title |-> "other", credit |-> {}, isrc |-> "i1"],
                  [title |-> "hair", credit |-> {"nn"}, isrc |-> ""]}
RelevanceMC == [q \in {"hair", "salon"} |->
                  [t \in {"hair", "hair salon", ""} |->
                     CASE t = q -> 2
                       [] t = "" -> 0
                       [] q = "hair" \/ t = "hair salon" -> 1
                       [] OTHER -> 0]]
FullerMC == {<<"n", "nn">>}
WithinMC == {<<{"o"}, {"oo"}>>}     \* too short for Fuller
QueueHasMC == {{}, {1}}

(* Three files: two of one artist and album, one without a title. *)
ArtistOfMC == [f \in 1..3 |-> IF f = 3 THEN "b" ELSE "a"]
AlbumOfMC == [f \in 1..3 |-> IF f = 3 THEN "b|" ELSE "a|x"]
StartTagsMC == {{}}
OptionsMC == {[kinds |-> {"genre", "cover"}, limit |-> 0, overwrite |-> FALSE],
              [kinds |-> {"lyrics"}, limit |-> 1, overwrite |-> TRUE]}

MaxEventsMC == [e \in {"e1", "e2"} |-> IF e = "e1" THEN 2 ELSE 1]

(* Two goroutines that share a client and one that has its own. *)
ClientOfMC == [w \in {"w1", "w2", "w3"} |-> IF w = "w3" THEN "own" ELSE "shared"]
TracksOfMC == [a \in {"x", "y", "z"} |-> CASE a = "x" -> <<1, 2>> [] a = "y" -> <<3>> [] a = "z" -> <<4>>]

(* Texts of config.json: one that says nothing, a short and a long one. *)
TextMC == {"silent", "short", "long"}
LengthOfMC == [t \in TextMC |-> IF t = "long" THEN 2 ELSE 1]
Silent == [suffix |-> "absent", mode |-> "absent", url |-> "absent", resolver |-> "absent",
           fallback |-> "absent", separator |-> "absent", tags |-> "absent"]
MeaningMC == [t \in TextMC |->
    CASE t = "silent" -> Silent
      [] t = "short" -> [Silent EXCEPT !.suffix = "off", !.mode = "upc", !.url = "config",
                           !.resolver = "songlink", !.fallback = "off", !.separator = "semicolon"]
      [] t = "long" -> [Silent EXCEPT !.suffix = "on", !.mode = "hybrid", !.resolver = "songstats",
                          !.fallback = "on", !.separator = "comma", !.tags = "some"]]

AttemptSettingsMC == [suffix : BOOLEAN, resample : BOOLEAN, replace : BOOLEAN, convert : BOOLEAN, remove : BOOLEAN]

WantedOfMC == [a \in {"k1", "k2", "k3"} |-> IF a = "k3" THEN "y" ELSE "x"]

(* Two songs whose tags make the same name, one that cannot be read. *)
KindOfMC == [s \in {"s1", "s2", "s3"} |-> IF s = "s3" THEN "m4a" ELSE "flac"]
TitleOfMC == [s \in {"s1", "s2", "s3"} |-> IF s = "s3" THEN "a" ELSE "b"]

(* Questions.  A track of an album, as the service sees it: numbered within its
   disc, also on discs out of order, and with or without the fields it may leave out. *)
DiscsMC == {<<0>>, <<0, 0>>, <<1, 1>>, <<1, 2>>, <<1, 1, 2>>, <<1, 2, 2>>, <<2, 1>>}
Iso == [iso |-> <<2020, 5, 1>>, parts |-> <<>>]
DatesMC == {Iso, [iso |-> NoDate, parts |-> <<2020, 5, 1>>], [iso |-> NoDate, parts |-> <<2020>>],
            [iso |-> NoDate, parts |-> NoDate]}
Source(w) == [image |-> "i", width |-> w, height |-> w, prefixed |-> TRUE]

TrackQuestionsMC ==
    {q \in {[about |-> "track", discs |-> discs, i |-> i, declared |-> declared, date |-> date,
             said |-> said, inAlbum |-> inAlbum, reached |-> reached,
             lengths |-> [j \in DOMAIN discs |-> 60999 * j], first |-> <<"A">>, others |-> <<"B">>,
             albumCredit |-> <<"A">>, sources |-> {Source(64), Source(300), Source(640)}] :
                discs \in DiscsMC, i \in 1..2, declared \in BOOLEAN, date \in DatesMC,
                said \in [disc : BOOLEAN, discs : BOOLEAN, credit : BOOLEAN],
                inAlbum \in BOOLEAN, reached \in BOOLEAN} : q.i \in DOMAIN q.discs}

(* Image sources of one image, each size at most once. *)
CoverQuestionsMC ==
    {[about |-> "cover",
      sources |-> {[image |-> "i", width |-> w, height |-> w, prefixed |-> prefixed] : w \in widths}
                  \cup (IF wide THEN {[image |-> "i", width |-> 2660, height |-> 0, prefixed |-> FALSE]}
                        ELSE {})] :
        widths \in SUBSET {0, 64, 160, 300, 640}, prefixed \in BOOLEAN, wide \in BOOLEAN}

LinkTailsMC == {<<>>, <<"discography">>, <<"discography", "single">>, <<"discography", "x">>, <<"about">>}

LinkQuestionsMC ==
    {[about |-> "link", kind |-> kind, limit |-> limit, prefix |-> prefix, suffix |-> suffix,
      entry |-> [holder |-> holder, named |-> named, credit |-> credit, id |-> id, uri |-> "x",
                 sources |-> {}, otherSources |-> {Source(640)}]] :
        kind \in Kinds, limit \in {0, 5, 51}, prefix \in LinkHeads, suffix \in LinkTailsMC,
        holder \in {"item", "data", "track", "playlist"}, named \in BOOLEAN,
        credit \in {NoCredit, <<"A">>}, id \in {"", "x"}}

(* Formats with tokens that stay, that are put in, and both; a plain one. *)
TemplatesMC == {{}, {"title", "artist", "track"}, {"title", "playlist"}, {"title", "creator"}, {"title", "date"},
                {"title", "album_artist"}, {"title", "total_tracks", "disc", "isrc"},
                {"artist"}, {"album_artist", "creator"}, {"creator", "total_tracks"}}

NamesMC ==
    {[about |-> "name", title |-> "t", credit |-> credit, albumCredit |-> albumCredit,
      separator |-> separator, date |-> date, isrc |-> <<"i">>, disc |-> 1,
      position |-> position, number |-> number, useAlbumNumber |-> useAlbumNumber,
      numbered |-> numbered, total |-> total, discs |-> 2, playlist |-> playlist, owner |-> playlist,
      firstOnly |-> firstOnly, template |-> template, titleOnly |-> FALSE,
      resample |-> "no", convert |-> "no", remove |-> FALSE, audio |-> "LOSSLESS",
      page |-> [number |-> 2, total |-> 5, discs |-> 2, date |-> <<"2020">>]] :
        credit \in {<<"A">>, <<"A", "B">>}, albumCredit \in {<<>>, <<"A", "C">>},
        separator \in {"semicolon", "comma"}, date \in {Blank, <<"2020">>}, position \in {1, 2},
        number \in {0, 2}, useAlbumNumber \in BOOLEAN, numbered \in BOOLEAN, total \in {0, 5},
        playlist \in {Blank, <<"P">>}, firstOnly \in BOOLEAN, template \in TemplatesMC}

(* What is done with the file, under a few names. *)
FilesMC ==
    {[about |-> "name", title |-> "t", credit |-> <<"A", "B">>, albumCredit |-> <<>>,
      separator |-> "semicolon", date |-> Blank, isrc |-> <<"i">>, disc |-> 1,
      position |-> 1, number |-> 0, useAlbumNumber |-> FALSE, numbered |-> TRUE, total |-> 5,
      discs |-> 2, playlist |-> playlist, owner |-> playlist, firstOnly |-> firstOnly,
      template |-> format[1], titleOnly |-> format[2], resample |-> resample, convert |-> convert,
      remove |-> remove, audio |-> audio,
      page |-> [number |-> 2, total |-> 5, discs |-> 2, date |-> <<"2020">>]] :
        playlist \in {Blank, <<"P">>}, firstOnly \in BOOLEAN,
        format \in {<<{}, FALSE>>, <<{}, TRUE>>, <<{"title", "playlist"}, FALSE>>,
                    <<{"title", "date"}, FALSE>>, <<{"artist"}, FALSE>>},
        resample \in {"no", "replace", "beside"}, convert \in {"no", "mp3", "m4a", "opus", "ape"},
        remove \in BOOLEAN, audio \in {"LOSSLESS", "mp3", "m4a"}}

NameQuestionsMC == NamesMC \cup FilesMC

FileChoicesMC == {[name |-> name, isrc |-> isrc, kind |-> kind, large |-> large] :
                    name \in {"n", "m"}, isrc \in {Blank, <<"i">>}, kind \in {"flac", "opus"},
                    large \in BOOLEAN}

ExistsQuestionsMC ==
    {[about |-> "exists", files |-> {f, g}, suffix |-> suffix,
      track |-> [name |-> "n", kind |-> "flac", isrc |-> isrc, resolved |-> resolved]] :
        f \in FileChoicesMC, g \in FileChoicesMC, suffix \in BOOLEAN,
        isrc \in {Blank, <<"i">>}, resolved \in {Blank, <<"i">>}}

LengthQuestionsMC ==
    {[about |-> "length", should |-> should, does |-> does] :
        should \in {0, 30, 59, 60, 61, 89, 90, 100, 240}, does \in 0..320}

LyricsQuestionsMC ==
    {[about |-> "lyrics", told |-> tells, hasAlbum |-> hasAlbum, isShorter |-> isShorter] :
        tells \in [LyricsPlace -> Tells], hasAlbum \in BOOLEAN, isShorter \in BOOLEAN}

(* Lines with a time in hundredths, in thousandths, after the first hundred minutes; a pause. *)
LinesMC == [stamp : {<<>>, <<0, 1, 23>>, <<61, 59, 99>>, <<0, 1, 500>>, <<100, 0, 1>>}, words : {"", "w", "v"}]
Pause == [stamp |-> <<0, 1, 23>>, words |-> ""]
SomeLinesMC == {<<>>} \cup {<<l>> : l \in LinesMC} \cup {<<Pause, l>> : l \in LinesMC}
TextQuestionsMC ==
    {[about |-> "text", results |-> <<[synced |-> s, plain |-> p], [synced |-> t, plain |-> p]>>] :
        s \in SomeLinesMC, t \in SomeLinesMC, p \in {<<>>, <<[stamp |-> <<>>, words |-> "w"]>>}}

CreditsMC == {{}, {"n"}, {"nn"}, {"o"}, {"oo"}, {"n", "o"}}
MatchQuestionsMC ==
    {[about |-> "match", file |-> file, cached |-> cached, cachedISRC |-> "i",
      item |-> [id |-> "x", title |-> title, isrc |-> isrc, credit |-> credit]] :
        file \in [title : {NoKey, "t"}, isrc : {NoKey, "i"}, credit : CreditsMC],
        cached \in BOOLEAN, title \in {NoKey, "t", "u"}, isrc \in {NoKey, "i"}, credit \in CreditsMC}
==============================================================================
