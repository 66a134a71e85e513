----------------------------- MODULE Enrichment -----------------------------
(***************************************************************************)
(* The tag enrichment pass (enrich.go): a background walk of the library   *)
(* that adds lyrics, a genre and a cover to the files that lack them, with *)
(* one status record for everybody, a stop flag, and a rescan of Navidrome *)
(* at the end.  Downloads and clean-ups change the files meanwhile.        *)
(***************************************************************************)
EXTENDS Integers, FiniteSets, Sequences, Functions

CONSTANTS
    AudioFile,      \* the library's files, numbered in the order the walk meets them
    Nameless,       \* files with no title or artist tag
    ArtistOf,       \* ArtistOf[f], lower-case primary artist: the key of genreCache
    AlbumOf,        \* AlbumOf[f], artist|album: the key of coverCache
    StartTags,      \* sets of tags a file can come with
    Options,        \* requests: records [kinds, limit, overwrite]
    Pass,           \* goroutines of runEnrichment
    MaxPasses,      \* bound: passes
    MaxChanges      \* bound: files that land, settle or leave

NoAudio == 0
TagKind == {"lyrics", "genre", "cover"}

ASSUME EnrichAssumption ==
    /\ AudioFile \subseteq Nat \ {NoAudio} /\ IsFiniteSet(AudioFile) /\ Options # {}
    /\ StartTags \subseteq SUBSET TagKind
    /\ \A o \in Options : o.kinds \subseteq TagKind /\ o.limit \in Nat /\ o.overwrite \in BOOLEAN
    /\ MaxPasses \in Nat /\ MaxChanges \in Nat

VARIABLES
    audioDisk,           \* the files: [present, quiet, tags]; quiet is older than two minutes
    enrichStatus,   \* what GetEnrichStatus shows
    enrichStop,
    pass,           \* the goroutines
    tagged,         \* files the running or last pass has tagged (history)
    askedKeys,          \* keys it has asked the services for, in order (history)
    untold,         \* files tagged since Navidrome was last told to rescan (history)
    passes, changes \* bounds

enrichVars == <<audioDisk, enrichStatus, enrichStop, pass, tagged, askedKeys, untold, passes, changes>>

Status0 == [running |-> FALSE, total |-> 0, processed |-> 0, added |-> [k \in TagKind |-> 0],
            skipped |-> 0, failed |-> 0]
Pass0 == [pc |-> "none", opts |-> CHOOSE o \in Options : TRUE, files |-> {}, file |-> NoAudio,
          todo |-> {}, wrote |-> FALSE, genreCache |-> <<>>, coverCache |-> <<>>, rescan |-> FALSE]

EnrichInit ==
    /\ audioDisk \in [AudioFile -> {[present |-> FALSE, quiet |-> FALSE, tags |-> {}]}
                           \cup {[present |-> TRUE, quiet |-> TRUE, tags |-> t] : t \in StartTags}]
    /\ enrichStatus = Status0 /\ enrichStop = FALSE
    /\ pass = [p \in Pass |-> Pass0]
    /\ tagged = {} /\ askedKeys = <<>> /\ untold = {} /\ passes = 0 /\ changes = 0
-----------------------------------------------------------------------------
\* mutant: a running pass does not keep another from starting
RefusedIfEmpty(o) == o.kinds = {}

Refused(o) == enrichStatus.running \/ o.kinds = {}

EnrichLibrary(p, o) ==
    /\ pass[p].pc = "none" /\ passes < MaxPasses
    /\ ~Refused(o)
    /\ enrichStop' = FALSE
    /\ enrichStatus' = [Status0 EXCEPT !.running = TRUE]
    /\ pass' = [pass EXCEPT ![p] = [Pass0 EXCEPT !.pc = "collect", !.opts = o]]
    /\ tagged' = {} /\ askedKeys' = <<>> /\ passes' = passes + 1
    /\ UNCHANGED <<audioDisk, untold, changes>>

StopEnrich ==
    /\ enrichStop' = TRUE
    /\ UNCHANGED <<audioDisk, enrichStatus, pass, tagged, askedKeys, untold, passes, changes>>

(* collectAudioFiles leaves out what was written in the last two minutes: a
   download may still have it open.  The walk itself reports no error. *)
Collected == {f \in AudioFile : audioDisk[f].present /\ audioDisk[f].quiet}

CollectAudioFiles(p) ==
    /\ pass[p].pc = "collect"
    /\ pass' = [pass EXCEPT ![p].pc = "next", ![p].files = Collected]
    /\ enrichStatus' = [enrichStatus EXCEPT !.total = Cardinality(Collected)]
    /\ UNCHANGED <<audioDisk, enrichStop, tagged, askedKeys, untold, passes, changes>>

\* mutant: the stop flag is not looked at between files
FinishedUnstopped(p) == \/ pass[p].files = {}
                        \/ pass[p].opts.limit > 0 /\ enrichStatus.processed >= pass[p].opts.limit

Finished(p) == \/ pass[p].files = {}
               \/ enrichStop
               \/ pass[p].opts.limit > 0 /\ enrichStatus.processed >= pass[p].opts.limit

(* What is left to do for a file whose tags have been read; the picture is
   looked at when its turn comes. *)
Todo(o, f) == {k \in o.kinds : k = "cover" \/ o.overwrite \/ k \notin audioDisk[f].tags}

(* The top of the loop: the pass is over, or the next file's tags are read.
   One that cannot be read has failed, one without a name is skipped. *)
NextFile(p) ==
    /\ pass[p].pc = "next"
    /\ ~Finished(p)
    /\ \E f \in pass[p].files :
         LET more == pass[p].files \ {f}
             ok == audioDisk[f].present
         IN  /\ \A g \in more : f < g
             /\ \/ /\ ok /\ f \notin Nameless
                   /\ pass' = [pass EXCEPT ![p].pc = "lyrics", ![p].file = f, ![p].files = more,
                                           ![p].todo = Todo(pass[p].opts, f), ![p].wrote = FALSE]
                   /\ UNCHANGED enrichStatus
                \/ /\ ok /\ f \in Nameless
                   /\ pass' = [pass EXCEPT ![p].files = more]
                   /\ enrichStatus' = [enrichStatus EXCEPT !.skipped = @ + 1, !.processed = @ + 1]
                \/ /\ ~ok
                   /\ pass' = [pass EXCEPT ![p].files = more]
                   /\ enrichStatus' = [enrichStatus EXCEPT !.failed = @ + 1, !.processed = @ + 1]
    /\ UNCHANGED <<audioDisk, enrichStop, tagged, askedKeys, untold, passes, changes>>

(* A tag is written, which counts and makes the file a fresh one; or it is
   not, for want of an answer or because the file cannot be written. *)
Tag(p, kind, next) ==
    LET f == pass[p].file
    IN  /\ audioDisk[f].present
        /\ audioDisk' = [audioDisk EXCEPT ![f].tags = @ \cup {kind}, ![f].quiet = FALSE]
        /\ enrichStatus' = [enrichStatus EXCEPT !.added[kind] = @ + 1]
        /\ tagged' = tagged \cup {f} /\ untold' = untold \cup {f}
        /\ pass' = [pass EXCEPT ![p] = [next EXCEPT !.wrote = TRUE]]

NoTag(p, next) == /\ pass' = [pass EXCEPT ![p] = next]
                  /\ UNCHANGED <<audioDisk, enrichStatus, tagged, untold>>

Lyrics(p) ==
    /\ pass[p].pc = "lyrics"
    /\ LET next == [pass[p] EXCEPT !.pc = "genre"]
       IN  \/ "lyrics" \in pass[p].todo /\ Tag(p, "lyrics", next)
           \/ NoTag(p, next)
    /\ UNCHANGED <<enrichStop, askedKeys, passes, changes>>

(* An answer that was cached, an empty one too, is not asked for again.    *)
Known(cache, key) == key \in DOMAIN cache
\* mutant: only what was found is cached
CachedIfFound(cache, key, found) ==
    IF found THEN [k \in DOMAIN cache \cup {key} |-> IF k = key THEN found ELSE cache[k]] ELSE cache

CachedAs(cache, key, found) == [k \in DOMAIN cache \cup {key} |-> IF k = key THEN found ELSE cache[k]]

Genre(p) ==
    /\ pass[p].pc = "genre"
    /\ LET key == ArtistOf[pass[p].file]
           next == [pass[p] EXCEPT !.pc = "cover"]
       IN  \/ /\ "genre" \notin pass[p].todo
              /\ NoTag(p, next) /\ UNCHANGED askedKeys
           \/ /\ "genre" \in pass[p].todo
              /\ askedKeys' = IF Known(pass[p].genreCache, key)
                               THEN askedKeys ELSE Append(askedKeys, <<"genre", key>>)
              /\ \E found \in IF Known(pass[p].genreCache, key)
                              THEN {pass[p].genreCache[key]} ELSE BOOLEAN :
                   LET then == [next EXCEPT !.genreCache = CachedAs(@, key, found)]
                   IN  \/ found /\ Tag(p, "genre", then)
                       \/ NoTag(p, then)
    /\ UNCHANGED <<enrichStop, passes, changes>>

WantsCover(p) == /\ "cover" \in pass[p].todo
                 /\ pass[p].opts.overwrite \/ "cover" \notin audioDisk[pass[p].file].tags

Cover(p) ==
    /\ pass[p].pc = "cover"
    /\ LET key == AlbumOf[pass[p].file]
           next == [pass[p] EXCEPT !.pc = "tally"]
       IN  \/ /\ ~WantsCover(p)
              /\ NoTag(p, next) /\ UNCHANGED askedKeys
           \/ /\ WantsCover(p)
              /\ askedKeys' = IF Known(pass[p].coverCache, key)
                               THEN askedKeys ELSE Append(askedKeys, <<"cover", key>>)
              /\ \E found \in IF Known(pass[p].coverCache, key)
                              THEN {pass[p].coverCache[key]} ELSE BOOLEAN :
                   LET then == [next EXCEPT !.coverCache = CachedAs(@, key, found)]
                   IN  \/ found /\ Tag(p, "cover", then)
                       \/ NoTag(p, then)
    /\ UNCHANGED <<enrichStop, passes, changes>>

\* mutant: every file counts as skipped
TallyAllSkipped(p) ==
    /\ pass[p].pc = "tally"
    /\ enrichStatus' = [enrichStatus EXCEPT !.processed = @ + 1, !.skipped = @ + 1]
    /\ pass' = [pass EXCEPT ![p].pc = "next", ![p].file = NoAudio, ![p].todo = {}, ![p].wrote = FALSE]
    /\ UNCHANGED <<audioDisk, enrichStop, tagged, askedKeys, untold, passes, changes>>

\* mutant: the file stays in hand
TallyInHand(p) ==
    /\ pass[p].pc = "tally"
    /\ enrichStatus' = [enrichStatus EXCEPT !.processed = @ + 1,
                          !.skipped = IF pass[p].wrote THEN @ ELSE @ + 1]
    /\ pass' = [pass EXCEPT ![p].pc = "next"]
    /\ UNCHANGED <<audioDisk, enrichStop, tagged, askedKeys, untold, passes, changes>>

Tally(p) ==
    /\ pass[p].pc = "tally"
    /\ enrichStatus' = [enrichStatus EXCEPT !.processed = @ + 1,
                          !.skipped = IF pass[p].wrote THEN @ ELSE @ + 1]
    /\ pass' = [pass EXCEPT ![p].pc = "next", ![p].file = NoAudio, ![p].todo = {}, ![p].wrote = FALSE]
    /\ UNCHANGED <<audioDisk, enrichStop, tagged, askedKeys, untold, passes, changes>>

\* mutant: a cover alone is not worth a rescan
WroteText(s) == \E k \in {"lyrics", "genre"} : s.added[k] > 0

(* The deferred function: the status is closed and copied first, which lets
   another pass begin; the event and the rescan come after.               *)
WroteTags(s) == \E k \in TagKind : s.added[k] > 0

Ends(p) ==
    /\ pass[p].pc = "next" /\ Finished(p)
    /\ enrichStatus' = [enrichStatus EXCEPT !.running = FALSE]
    /\ pass' = [pass EXCEPT ![p] = [Pass0 EXCEPT !.pc = "notify", !.rescan = WroteTags(enrichStatus)]]
    /\ UNCHANGED <<audioDisk, enrichStop, tagged, askedKeys, untold, passes, changes>>

Notify(p) ==
    /\ pass[p].pc = "notify"
    /\ untold' = IF pass[p].rescan THEN {} ELSE untold
    /\ pass' = [pass EXCEPT ![p] = Pass0]
    /\ UNCHANGED <<audioDisk, enrichStatus, enrichStop, tagged, askedKeys, passes, changes>>
-----------------------------------------------------------------------------
(* Others: a download lands, a file comes of age, one is moved away.       *)
Lands(f) == ~audioDisk[f].present /\ \E t \in StartTags :
                audioDisk' = [audioDisk EXCEPT ![f] = [present |-> TRUE, quiet |-> FALSE, tags |-> t]]
Settles(f) == audioDisk[f].present /\ ~audioDisk[f].quiet /\ audioDisk' = [audioDisk EXCEPT ![f].quiet = TRUE]
Leaves(f) == audioDisk[f].present /\ audioDisk' = [audioDisk EXCEPT ![f] = [present |-> FALSE, quiet |-> FALSE, tags |-> {}]]

FileChanges(f) ==
    /\ changes < MaxChanges /\ changes' = changes + 1
    /\ Lands(f) \/ Settles(f) \/ Leaves(f)
    /\ UNCHANGED <<enrichStatus, enrichStop, pass, tagged, askedKeys, untold, passes>>

EnrichNext ==
    \/ \E p \in Pass : \/ \E o \in Options : EnrichLibrary(p, o)
                       \/ CollectAudioFiles(p) \/ NextFile(p) \/ Lyrics(p) \/ Genre(p) \/ Cover(p)
                       \/ Tally(p) \/ Ends(p) \/ Notify(p)
    \/ StopEnrich
    \/ \E f \in AudioFile : FileChanges(f)

EnrichSpec == EnrichInit /\ [][EnrichNext]_enrichVars
-----------------------------------------------------------------------------
Working(p) == pass[p].pc \notin {"none", "notify"}
InHand(p) == pass[p].pc \in {"lyrics", "genre", "cover", "tally"}

(* Every variable keeps its type.                                          *)
EnrichTypeOK ==
    /\ audioDisk \in [AudioFile -> [present : BOOLEAN, quiet : BOOLEAN, tags : SUBSET TagKind]]
    /\ enrichStatus \in [running : BOOLEAN, total : Nat, processed : Nat, added : [TagKind -> Nat],
                         skipped : Nat, failed : Nat]
    /\ enrichStop \in BOOLEAN
    /\ \A p \in Pass : /\ pass[p].opts \in Options /\ pass[p].wrote \in BOOLEAN
                       /\ pass[p].files \subseteq AudioFile /\ pass[p].todo \subseteq TagKind
                       /\ pass[p].pc \in {"none", "collect", "next", "lyrics", "genre", "cover", "tally", "notify"}
                       /\ InHand(p) <=> pass[p].file \in AudioFile
    /\ tagged \subseteq AudioFile /\ untold \subseteq AudioFile

(* The status is one pass's own: however requests, stops and a predecessor
   that is still saying goodbye interleave, one goroutine at a time works on
   files, exactly while the status says that a pass is running. *)
OnePassAtATime ==
    /\ \A p, q \in Pass : Working(p) /\ Working(q) => p = q
    /\ enrichStatus.running <=> \E p \in Pass : Working(p)

(* The numbers add up at any moment somebody looks: each file done was tagged,
   skipped or failed, none counts twice, and what is left makes up the total. *)
NumbersAddUp ==
    LET gained == \E p \in Pass : InHand(p) /\ pass[p].wrote
        left == \E p \in Pass : pass[p].pc = "collect"
    IN  /\ enrichStatus.processed + (IF gained THEN 1 ELSE 0)
             = enrichStatus.skipped + enrichStatus.failed + Cardinality(tagged)
        /\ \A p \in Pass : Working(p) /\ ~left =>
              enrichStatus.processed + Cardinality(pass[p].files) + (IF InHand(p) THEN 1 ELSE 0) = enrichStatus.total

(* The services are run on donations: one pass asks for an artist's genres and
   for an album's cover once, whatever the answer was. *)
AskedOnce == IsInjective(askedKeys)

(* Navidrome only learns about new tags on a rescan: when no pass is at work
   any more, one was asked for after the last tag, also by a pass that was
   stopped, hit its limit or added nothing but a cover. *)
TagsAreTold == (\A p \in Pass : pass[p].pc = "none") => untold = {}

(* A stop ends the pass after the file in hand, and a request that is refused
   meanwhile does not take it back; a limit holds too. *)
StopIsHeeded ==
    [][\A p \in Pass : Working(p) =>
          /\ enrichStop /\ pass[p].pc # "collect" =>
                enrichStop' /\ pass'[p].files \in {pass[p].files, {}}
          /\ pass[p].opts.limit > 0 => enrichStatus'.processed <= pass[p].opts.limit]_enrichVars
=============================================================================
