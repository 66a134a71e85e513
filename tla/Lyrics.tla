-------------------------------- MODULE Lyrics --------------------------------
(***************************************************************************)
(* Lyrics from LRCLIB (lyrics.go).  A result has synced and plain lines; a *)
(* line is [stamp, words], a stamp <<>> or <<minutes, seconds, fraction>>, *)
(* and words may be blank; a bracket that is not a stamp does not occur.    *)
(***************************************************************************)
EXTENDS Integers, Sequences, SequencesExt, Sifting

NoLyrics == [synced |-> <<>>, plain |-> <<>>]
IsEmpty(r) == r.synced = <<>> /\ r.plain = <<>>

(* FetchLyricsFromLRCLibSearch: the first result with synced lyrics, else the
   first with plain ones. *)
BestResult(results) ==
    LET synced == Sift(results, {r \in Range(results) : r.synced # <<>>})
        plain == Sift(results, {r \in Range(results) : r.plain # <<>>})
    IN  IF synced # <<>> THEN synced[1] ELSE IF plain # <<>> THEN plain[1] ELSE NoLyrics

(* lrcTimestampToMs reads the fraction as hundredths, however many digits it
   has; msToLRCTimestamp writes hundredths. *)
ToMs(stamp) == stamp[1] * 60000 + stamp[2] * 1000 + stamp[3] * 10

ToStamp(ms) == <<ms \div 60000, (ms \div 1000) % 60, (ms % 1000) \div 10>>

(* convertLRCLibToLyricsResponse looks for a stamp in lines of more than ten
   characters: one that stands alone and has no more is taken for words. *)
LongStamp(stamp) == stamp[1] > 99 \/ stamp[3] > 99

Timed(line) ==
    IF line.stamp # <<>> /\ (line.words # "" \/ LongStamp(line.stamp))
    THEN [start |-> <<ToMs(line.stamp)>>, bare |-> <<>>, words |-> line.words]
    ELSE [start |-> <<>>, bare |-> line.stamp, words |-> line.words]

Converted(r) ==
    LET lines == IF r.synced # <<>> THEN r.synced ELSE r.plain
    IN  [synced |-> r.synced # <<>>, lines |-> [i \in DOMAIN lines |-> Timed(lines[i])]]

\* mutant: lines without a time are left out as well
HasTime(line) == line.words # "" /\ line.start # <<>>

(* ConvertToLRC writes the lines that have words. *)
HasWords(line) == line.words # "" \/ line.bare # <<>>

ToLRC(lyrics) ==
    LET lines == Sift(lyrics.lines, {l \in Range(lyrics.lines) : HasWords(l)})
    IN  [i \in DOMAIN lines |->
            [stamp |-> IF lines[i].start = <<>> THEN lines[i].bare ELSE ToStamp(lines[i].start[1]),
             words |-> lines[i].words]]

(* The places FetchLyricsAllSources asks, in order: the track as it is named,
   without its album, by search, and all but the second by a shorter title. *)
Places(hasAlbum, isShorter) ==
    <<"exact">> \o (IF hasAlbum THEN <<"no album">> ELSE <<>>) \o <<"search">>
        \o (IF isShorter THEN <<"simplified", "simplified search">> ELSE <<>>)

\* mutant: the first lyrics are taken
FirstOfAll(told, hasAlbum, isShorter) ==
    LET places == Places(hasAlbum, isShorter)
        given == Sift(places, {p \in Range(places) : told[p] # "none"})
    IN  IF given = <<>> THEN "none" ELSE given[1]

(* Whose lyrics are taken: the first synced ones, else the first. *)
TakenFrom(told, hasAlbum, isShorter) ==
    LET places == Places(hasAlbum, isShorter)
        synced == Sift(places, {p \in Range(places) : told[p] = "synced"})
        unsynced == Sift(places, {p \in Range(places) : told[p] = "unsynced"})
    IN  IF synced # <<>> THEN synced[1] ELSE IF unsynced # <<>> THEN unsynced[1] ELSE "none"
==============================================================================
