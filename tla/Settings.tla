------------------------------- MODULE Settings -------------------------------
(***************************************************************************)
(* The JSON files that the interface saves whole: config.json, fonts.json  *)
(* and recent_fetches.json (app.go, backend/config.go, recent_fetches.go). *)
(* os.WriteFile truncates the file when it opens it and then writes; the   *)
(* RPCs run at once, and only the recent fetches have a mutex.  Everything *)
(* that acts on a setting reads config.json again, and takes a default     *)
(* when it cannot.                                                         *)
(***************************************************************************)
EXTENDS Integers, FiniteSets

CONSTANTS
    SettingsSaver,          \* requests that save
    Text,           \* what may be saved
    LengthOf,       \* its length in bytes
    Meaning,        \* the settings a text of config.json stands for
    FromEnvironment,\* FLACIT_GATEWAY_URL, or Absent
    Absent,         \* a key that is missing, or not of its type
    MaxSaves,       \* bound: saves
    MaxSaveFaults   \* bound: times the process dies or a write fails

Setting == [suffix : {"on", "off", Absent}, mode : {"isrc", "upc", "hybrid", "filename", Absent},
            url : {"config", Absent}, resolver : {"songlink", "songstats", Absent},
            fallback : {"on", "off", Absent}, separator : {"comma", "semicolon", Absent},
            tags : {"some", Absent}]

ASSUME SettingsAssumption ==
    /\ LengthOf \in [Text -> Nat \ {0}] /\ Meaning \in [Text -> Setting]
    /\ FromEnvironment \in {"environment", Absent}
    /\ MaxSaves \in Nat /\ MaxSaveFaults \in Nat

JSONFile == {"config", "fonts", "recents"}
NothingWritten == [from |-> {}, size |-> 0]
TextHeld(text, size) == [from |-> {text}, size |-> size]

VARIABLES
    there,      \* the files that exist
    content,    \* each file: the text at its start, and its size
    settingsSaver,      \* each request: the file and the text it saves
    starting,   \* start-up rewrites config.json: "no", "read", "opened"
    lastSaved,  \* the texts that a read may find: the last one saved
    disturbed,  \* files with a crash, a write that failed, or two saves at
                \* once, since a whole save
    cutShort,   \* history: files that hold what a failed write got done
    saves, saveFaults

settingsVars == <<there, content, settingsSaver, starting, lastSaved, disturbed, cutShort, saves, saveFaults>>

AtRest == [pc |-> "idle", file |-> "config", text |-> {}]

SettingsInit ==
    /\ there = {} /\ content = [f \in JSONFile |-> NothingWritten]
    /\ settingsSaver = [w \in SettingsSaver |-> AtRest]
    /\ starting = "no"
    /\ lastSaved = [f \in JSONFile |-> {}]
    /\ disturbed = {} /\ cutShort = {} /\ saves = 0 /\ saveFaults = 0

Saving(f) == {w \in SettingsSaver : settingsSaver[w].pc = "opened" /\ settingsSaver[w].file = f}
-----------------------------------------------------------------------------
(* Reading.  A file parses when it holds one text and nothing after it.    *)
Parses(f) == \E text \in content[f].from : content[f].size = LengthOf[text]

(* LoadConfigSettings: no settings for no file and for one that does not
   parse; every reader takes its default then. *)
LoadConfigSettings == IF "config" \in there /\ Parses("config") THEN {Meaning[t] : t \in content["config"].from} ELSE {}

(* GetRedownloadWithSuffixSetting and GetLinkResolverAllowFallback are true,
   GetExistingFileCheckModeSetting "filename" unless the settings say so. *)
RedownloadWithSuffix(settings) == ~\E s \in settings : s.suffix = "off"
AllowFallback(settings) == ~\E s \in settings : s.fallback = "off"
CheckMode(mode) == IF mode \in {"isrc", "upc"} THEN "isrc" ELSE IF mode = "hybrid" THEN "hybrid" ELSE "filename"
ExistingFileCheckMode(settings) == CheckMode(IF settings = {} THEN Absent ELSE (CHOOSE s \in settings : TRUE).mode)

(* GetLinkResolverSetting, GetFlacItGatewayURL, GetSeparator and the choice
   of tags to keep. *)
LinkResolver(settings) == IF \E s \in settings : s.resolver = "songstats" THEN "songstats" ELSE "songlink"
GatewayURL(settings) == IF FromEnvironment # Absent THEN FromEnvironment
                        ELSE IF \E s \in settings : s.url # Absent THEN "config" ELSE "default"
Separator(settings) == IF \E s \in settings : s.separator = "comma" THEN "comma" ELSE "semicolon"
MetadataTagSelection(settings) == IF \E s \in settings : s.tags = "some" THEN "some" ELSE "all"

(* What the readers of the settings do.                                    *)
Behaviour(settings) ==
    [suffix |-> RedownloadWithSuffix(settings), mode |-> ExistingFileCheckMode(settings),
     url |-> GatewayURL(settings), resolver |-> LinkResolver(settings), fallback |-> AllowFallback(settings),
     separator |-> Separator(settings), tags |-> MetadataTagSelection(settings)]

(* LoadRecentFetches: an empty file is an empty list; what does not parse is
   an error. *)
RecentsLoad == "recents" \in there => content["recents"] = NothingWritten \/ Parses("recents")
-----------------------------------------------------------------------------
\* mutant: no file has a mutex
LockedNever(f) == FALSE

Locked(f) == f = "recents"

\* mutant: the file is not cut to nothing
SaveOpenedUncut(w, f, text) ==
    /\ starting = "no" /\ settingsSaver[w].pc = "idle" /\ saves < MaxSaves
    /\ Locked(f) => Saving(f) = {}
    /\ saves' = saves + 1
    /\ there' = there \cup {f}
    /\ settingsSaver' = [settingsSaver EXCEPT ![w] = [pc |-> "opened", file |-> f, text |-> {text}]]
    /\ disturbed' = IF Saving(f) = {} THEN disturbed ELSE disturbed \cup {f}
    /\ UNCHANGED <<content, starting, lastSaved, cutShort, saveFaults>>

(* SaveSettings, SaveFonts, SaveRecentFetches: open, which truncates.      *)
SaveOpened(w, f, text) ==
    /\ starting = "no" /\ settingsSaver[w].pc = "idle" /\ saves < MaxSaves
    /\ Locked(f) => Saving(f) = {}
    /\ saves' = saves + 1
    /\ there' = there \cup {f}
    /\ content' = [content EXCEPT ![f] = NothingWritten]
    /\ settingsSaver' = [settingsSaver EXCEPT ![w] = [pc |-> "opened", file |-> f, text |-> {text}]]
    /\ disturbed' = IF Saving(f) = {} THEN disturbed ELSE disturbed \cup {f}
    /\ cutShort' = cutShort \ {f}
    /\ UNCHANGED <<starting, lastSaved, saveFaults>>

\* mutant: a file does not grow
OverWithinSize(old, text) == TextHeld(text, old.size)

(* The write, from the start of the file: what another save has written
   beyond its end stays. *)
Over(old, text) == TextHeld(text, IF old.size > LengthOf[text] THEN old.size ELSE LengthOf[text])

SaveWritten(w) ==
    /\ settingsSaver[w].pc = "opened"
    /\ \E text \in settingsSaver[w].text, f \in {settingsSaver[w].file} :
         /\ content' = [content EXCEPT ![f] = Over(content[f], text)]
         /\ lastSaved' = [lastSaved EXCEPT ![f] = {text}]
         /\ disturbed' = IF Saving(f) = {w} /\ content[f] = NothingWritten THEN disturbed \ {f} ELSE disturbed
    /\ settingsSaver' = [settingsSaver EXCEPT ![w] = AtRest]
    /\ UNCHANGED <<there, starting, cutShort, saves, saveFaults>>

(* The write fails after some of its bytes, a full disk for one: the error is
   all that is done about it. *)
Partly(old, text, bytes) ==
    [from |-> IF bytes = 0 THEN old.from ELSE old.from \cap {text},
     size |-> IF old.size > bytes THEN old.size ELSE bytes]

WriteFails(f, text) ==
    /\ saveFaults < MaxSaveFaults /\ saveFaults' = saveFaults + 1
    /\ disturbed' = disturbed \cup {f}
    /\ \E bytes \in 0 .. LengthOf[text] - 1 :
         /\ content' = [content EXCEPT ![f] = Partly(@, text, bytes)]
         /\ cutShort' = IF bytes = 0 THEN cutShort ELSE cutShort \cup {f}

SaveCutShort(w) ==
    /\ settingsSaver[w].pc = "opened"
    /\ \E text \in settingsSaver[w].text : WriteFails(settingsSaver[w].file, text)
    /\ settingsSaver' = [settingsSaver EXCEPT ![w] = AtRest]
    /\ UNCHANGED <<there, starting, lastSaved, saves>>

(* The process dies; every save under way is lost with it.  On start
   SanitizePersistedConfigSettings reads config.json and writes it again. *)
SaverDies ==
    /\ saveFaults < MaxSaveFaults /\ saveFaults' = saveFaults + 1
    /\ disturbed' = disturbed \cup {f \in JSONFile : Saving(f) # {}}
                              \cup (IF starting = "opened" THEN {"config"} ELSE {})
    /\ settingsSaver' = [w \in SettingsSaver |-> AtRest]
    /\ starting' = "read"
    /\ UNCHANGED <<there, content, lastSaved, cutShort, saves>>

RewriteOpened ==
    /\ starting = "read"
    /\ \/ /\ "config" \in there /\ Parses("config")
          /\ starting' = "opened"
          /\ content' = [content EXCEPT !["config"] = NothingWritten]
          /\ cutShort' = cutShort \ {"config"}
       \/ /\ ~("config" \in there /\ Parses("config"))
          /\ starting' = "no" /\ UNCHANGED <<content, cutShort>>
    /\ UNCHANGED <<there, settingsSaver, lastSaved, disturbed, saves, saveFaults>>

RewriteWritten ==
    /\ starting = "opened"
    /\ starting' = "no"
    /\ content' = [content EXCEPT !["config"] = Over(@, CHOOSE t \in lastSaved["config"] : TRUE)]
    /\ UNCHANGED <<there, settingsSaver, lastSaved, disturbed, cutShort, saves, saveFaults>>

(* The start goes on without it. *)
RewriteFails ==
    /\ starting = "opened" /\ starting' = "no"
    /\ WriteFails("config", CHOOSE t \in lastSaved["config"] : TRUE)
    /\ UNCHANGED <<there, settingsSaver, lastSaved, saves>>

SettingsNext ==
    \/ \E w \in SettingsSaver, f \in JSONFile, text \in Text : SaveOpened(w, f, text)
    \/ \E w \in SettingsSaver : SaveWritten(w) \/ SaveCutShort(w)
    \/ SaverDies \/ RewriteOpened \/ RewriteWritten \/ RewriteFails

SettingsSpec == SettingsInit /\ [][SettingsNext]_settingsVars
-----------------------------------------------------------------------------
(* A file holds at most one text at its start, never more than its size, and
   a file that is not there holds nothing. *)
SettingsTypeOK ==
    /\ there \subseteq JSONFile /\ disturbed \subseteq there /\ cutShort \subseteq there
    /\ \A f \in JSONFile : /\ content[f].from \subseteq Text /\ Cardinality(content[f].from) <= 1
                           /\ \A t \in content[f].from : content[f].size >= LengthOf[t]
                           /\ f \notin there => content[f] = NothingWritten
                           /\ lastSaved[f] \subseteq Text
    /\ \A w \in SettingsSaver : settingsSaver[w].pc = "opened" => settingsSaver[w].file \in there /\ settingsSaver[w].text # {}
    /\ starting \in {"no", "read", "opened"}

(* Once settings are saved, what the server does is what they say.  It falls
   back to its defaults, which download again what is there and go to another
   gateway, only while a save or the rewrite at start is between its two
   steps, and after a crash, a failed write or two saves at once, until the
   next save. *)
ChoiceIsObeyed ==
    \/ lastSaved["config"] = {} \/ Saving("config") # {} \/ starting = "opened"
    \/ "config" \in disturbed
    \/ Behaviour(LoadConfigSettings) = Behaviour({Meaning[t] : t \in lastSaved["config"]})

(* Two saves at once can leave a text and the tail of a longer one, an error
   to every later load.  The mutex keeps the recent fetches from that: they
   load at all times, during saves and after crashes, unless a write failed
   half way: where it never began it left an empty file. *)
RecentsLoadAlways == "recents" \in cutShort \/ RecentsLoad
==============================================================================
