----------------------------- MODULE LinkChain -----------------------------
(***************************************************************************)
(* One lookup of a Deezer link (backend/songlink.go:89-130 over            *)
(* backend/link_resolver.go): Spotify is asked for the ISRC, the resolvers *)
(* the settings name are asked in turn, and Deezer's ISRC API last.  Every *)
(* service is external and may fail, so a stage maps what is known before  *)
(* it to the set of what may be known after it.                            *)
(***************************************************************************)

(* A link to the track, to another page of Deezer (an artist, an album) or *)
(* none; and the other services whose links end the search.                *)
Urls == {"none", "page", "track"}
Services == {"tidal", "amazon"}
Links == [others : SUBSET Services, deezer : Urls, isrc : BOOLEAN]
NoLinks == [others |-> {}, deezer |-> "none", isrc |-> FALSE]

IsTrack(url) == url = "track"
AsGiven(url) == url      \* mutant: what is no track is returned unchanged
Normalized(url) == IF IsTrack(url) THEN url ELSE "none"

WithDeezer(l, url) == [others |-> l.others, deezer |-> url, isrc |-> l.isrc]
WithISRC(l) == [others |-> l.others, deezer |-> l.deezer, isrc |-> TRUE]

(* Nothing that is known already is replaced.                              *)
Merged(l, others, url, isrc) ==
  [others |-> l.others \cup others,
   deezer |-> IF l.deezer = "none" THEN Normalized(url) ELSE l.deezer,
   isrc   |-> l.isrc \/ isrc]

SpotifyISRC(l) == {l, WithISRC(l)}
DeezerByISRC(l) == {l, WithDeezer(l, "track")}

(* A page of song.link may carry an ISRC too; its links of other kinds are *)
(* left out when it is read.                                               *)
Page(l) == {Merged(l, others, url, isrc) :
              others \in SUBSET Services, url \in {"none", "track"}, isrc \in BOOLEAN}

Songstats(l) ==
  {l} \cup {Merged(l, others, url, FALSE) :
              others \in {o \in SUBSET Services : l.isrc}, url \in Urls}

(* song.link by the Spotify track, then by the Deezer track of the ISRC.   *)
ViaSpotify(l) == {l} \cup Page(l)
KnownDeezer(l) == IF l.deezer = "none" THEN DeezerByISRC(l) ELSE {l}
ViaDeezer(l) ==
  UNION {{k} \cup (IF IsTrack(k.deezer) THEN Page(k) ELSE {}) : k \in KnownDeezer(l)}
SongLink(l) ==
  UNION {IF k.others # Services /\ k.isrc THEN ViaDeezer(k) ELSE {k} : k \in ViaSpotify(l)}

(* Which resolvers the settings name, and in which order; the second is    *)
(* not asked once the first has found the other services.                  *)
Orders == {<<"songstats", "off">>, <<"songlink", "off">>,
           <<"songstats", "songlink">>, <<"songlink", "songstats">>}
Resolve(resolver, l) ==
  CASE l.others = Services      -> {l}
    [] resolver = "songstats"   -> Songstats(l)
    [] resolver = "songlink"    -> SongLink(l)
    [] OTHER                    -> {l}
Resolved ==
  {l \in Links : \E order \in Orders, first \in SpotifyISRC(NoLinks) :
                   \E second \in Resolve(order[1], first) : l \in Resolve(order[2], second)}

(* What the lookup returns, and what it had to go on: whether the ISRC was *)
(* known in the end, and whether Deezer was asked and had no track for it. *)
Outcome(l, known, has) ==
  LET isrc == l.isrc \/ known IN
  IF Normalized(l.deezer) # "none"
    THEN [url |-> Normalized(l.deezer), isrc |-> l.isrc, refused |-> FALSE]
    ELSE [url |-> IF isrc /\ has THEN "track" ELSE "none",
          isrc |-> isrc, refused |-> isrc /\ ~has]
Outcomes == {Outcome(l, known, has) : l \in Resolved, known \in BOOLEAN, has \in BOOLEAN}
=============================================================================
