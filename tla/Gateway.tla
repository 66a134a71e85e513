------------------------------ MODULE Gateway ------------------------------
(***************************************************************************)
(* The Telegram gateway (flacit-gateway/gateway.py) and the downloads that *)
(* use its job API (backend/flacit.go:56-236, 381-533).                    *)
(*                                                                         *)
(* Requests are served by Flask threads; fetches run one at a time on the  *)
(* event loop, over one chat with a bot.  Each access to the job table     *)
(* under its lock, each stretch of loop code between two awaits and each   *)
(* file operation is a step.  The bot is external: it answers a link once, *)
(* late, or never, with a FLAC of any track under any of its names, or with*)
(* something else, and sends other messages when asked.                    *)
(***************************************************************************)
EXTENDS Naturals, SequencesExt

CONSTANTS
  Jobs,         (* job ids, each made up once                              *)
  Clients,      (* DownloadTrack calls that may overlap                    *)
  Tracks,       (* what a link asks for                                    *)
  Parts,        (* the 512 KB parts of a file                              *)
  Senders,      (* exported senders that fetch them                        *)
  None,         (* no job, track or part                                   *)
  MatchStrict,  (* FLAC_MATCH_STRICT                                       *)
  Title,        (* norm: the letters of each track's title                 *)
  Core,         (* norm_core: those before its version qualifier           *)
  Says,         (* doc_text: what a file of each track may say it is       *)
  ScanLimit,    (* messages a scan looks at                                *)
  Recent,       (* messages at most that arrive within five seconds        *)
  MaxChat,      (* bound: messages of the chat                             *)
  MaxOld,       (* bound: jobs that outlive JOB_REAP_AFTER                 *)
  MaxCommands   (* bound: /bot/command requests                            *)

ASSUME GatewayAssumption ==
  /\ None \notin Jobs \cup Tracks \cup Parts
  /\ Senders # {} /\ {"top", "gone"} \cap Parts = {}
  /\ ScanLimit \in Nat /\ Recent \in Nat /\ MaxChat \in Nat /\ MaxOld \in Nat
  /\ MaxCommands \in Nat /\ MatchStrict \in BOOLEAN

States == {"absent", "queued", "resolving", "downloading", "ready", "failed"}
NoMessage == [track |-> None, text |-> <<>>]
Message == {NoMessage} \cup UNION {[track : {t}, text : Says[t]] : t \in Tracks}

FetchPCs == {"get", "begin", "send", "loop", "scan", "resend", "wait", "found",
             "parts", "rename", "publish", "end"}
Resolving == {"send", "loop", "scan", "resend", "wait"}
ClientPCs == {"idle", "put", "poll", "file", "open", "delete", "pop", "remove"}

VARIABLES
  track,      (* each job's url and expectation                            *)
  state,      (* each job's "state"; its "path" is set with "ready"        *)
  jobs,       (* ids in the job table                                      *)
  disk,       (* each job's temp file                                      *)
  content,    (* the message whose document the file comes from            *)
  stuck,      (* history: jobs whose file could not be renamed             *)
  parts,      (* the parts written to it                                   *)
  queue,      (* _fetch_queue                                              *)
  fpc,        (* where the fetch worker is                                 *)
  active,     (* _active_job_id                                            *)
  cancelled,  (* _cancelled_jobs                                           *)
  cut,        (* check_after: messages up to here are too old              *)
  clock,      (* 1: past FLAC_RETRY_AFTER, 2: past FLAC_TIMEOUT            *)
  resent,     (* retried: the link was sent again                          *)
  left,       (* work_queue: parts nobody has taken                        *)
  sender,     (* the part each sender waits for; "top", "gone"             *)
  chat,       (* messages of the bot, oldest first                         *)
  owed,       (* links the bot has not answered                            *)
  activity,   (* _bot_activity                                             *)
  cpc, cjob,  (* where each client is, and its job                         *)
  aged,       (* jobs created more than JOB_REAP_AFTER ago                 *)
  doomed,     (* jobs whose file the reaper is about to remove             *)
  command,    (* the /bot/command in progress                              *)
  commands    (* counter for the bound                                     *)

tableVars == <<track, state, jobs, stuck>>
fileVars == <<disk, content, parts>>
fetchVars == <<queue, fpc, active, cut, clock, resent>>
senderVars == <<left, sender>>
botVars == <<chat, owed, activity>>
clientVars == <<cpc, cjob>>
reapVars == <<aged, doomed>>
commandVars == <<command, commands>>
vars == <<track, state, jobs, disk, content, parts, stuck, queue, fpc, active, cancelled, cut,
          clock, resent, left, sender, chat, owed, activity, cpc, cjob, aged, doomed,
          command, commands>>

Init ==
  /\ track = [j \in Jobs |-> None] /\ state = [j \in Jobs |-> "absent"] /\ jobs = {}
  /\ disk = [j \in Jobs |-> "none"] /\ content = [j \in Jobs |-> NoMessage]
  /\ parts = [j \in Jobs |-> {}] /\ stuck = {}
  /\ queue = <<>> /\ fpc = "get" /\ active = None /\ cancelled = {}
  /\ cut = 0 /\ clock = 0 /\ resent = FALSE
  /\ left = {} /\ sender = [s \in Senders |-> "top"]
  /\ chat = <<>> /\ owed = [t \in Tracks |-> 0] /\ activity = FALSE
  /\ cpc = [c \in Clients |-> "idle"] /\ cjob = [c \in Clients |-> None]
  /\ aged = {} /\ doomed = {}
  /\ command = "off" /\ commands = 0

-----------------------------------------------------------------------------
(* The fetch worker: _fetch_worker and _process_fetch.                     *)
Goto(from, to) == fpc = from /\ fpc' = to
SetState(s) == state' = [state EXCEPT ![active] = s]

Get ==
  /\ Goto("get", "begin") /\ queue # <<>>
  /\ active' = Head(queue) /\ queue' = Tail(queue)
  /\ UNCHANGED <<tableVars, fileVars, cancelled, cut, clock, resent, senderVars, botVars,
                 clientVars, reapVars, commandVars>>

(* A job deleted while it was queued is not in the table any more.         *)
Begin ==
  /\ \/ active \in jobs /\ Goto("begin", "send") /\ SetState("resolving")
     \/ active \notin jobs /\ Goto("begin", "end") /\ UNCHANGED state
  /\ \E n \in 0 .. Len(chat) : n + Recent >= Len(chat) /\ cut' = n
  /\ clock' = 0 /\ resent' = FALSE
  /\ UNCHANGED <<track, jobs, stuck, fileVars, queue, active, cancelled, senderVars, botVars,
                 clientVars, reapVars, commandVars>>

Asks(t) == owed' = [owed EXCEPT ![t] = @ + 1]

Send ==
  /\ Goto("send", "loop") /\ Asks(track[active])
  /\ UNCHANGED <<tableVars, fileVars, queue, active, cancelled, cut, clock, resent,
                 senderVars, chat, activity, clientVars, reapVars, commandVars>>

(* Telegram refuses: the worker's catch-all marks the job, if it is listed.*)
Raises ==
  /\ fpc \in {"send", "scan"} /\ fpc' = "end"
  /\ IF active \in jobs THEN SetState("failed") ELSE UNCHANGED state
  /\ UNCHANGED <<track, jobs, stuck, fileVars, queue, active, cancelled, cut, clock, resent,
                 senderVars, botVars, clientVars, reapVars, commandVars>>

(* The head of the wait loop: the time limit, the caller's cancellation,   *)
(* then the flag is cleared, before the scan and not after it.             *)

(* mutant: the limit leaves the state as it was *)
OutOfTimeUnchanged == state[active]
(* mutant: the limit has a state of its own, which no client knows *)
OutOfTimeUnknown == "timeout"
OutOfTime == "failed"

TimesOut ==
  /\ clock = 2 /\ Goto("loop", "end") /\ SetState(OutOfTime)
  /\ UNCHANGED <<track, jobs, stuck, fileVars, queue, active, cancelled, cut, clock, resent,
                 senderVars, botVars, clientVars, reapVars, commandVars>>

(* mutant: nobody looks whether the caller gave up *)
GivenUpNever == FALSE
GivenUp == active \in cancelled

Abandon ==
  /\ clock < 2 /\ GivenUp /\ Goto("loop", "end")
  /\ UNCHANGED <<tableVars, fileVars, queue, active, cancelled, cut, clock, resent,
                 senderVars, botVars, clientVars, reapVars, commandVars>>

ClearFlag ==
  /\ clock < 2 /\ ~GivenUp /\ Goto("loop", "scan")
  /\ activity' = FALSE
  /\ UNCHANGED <<tableVars, fileVars, queue, active, cancelled, cut, clock, resent,
                 senderVars, chat, owed, clientVars, reapVars, commandVars>>

(* matches_expected: the title, with or without its qualifier, is part of  *)
(* what the file says it is, or the other way round; the artist is not     *)
(* looked at, and what has no letters a-z or digits cannot be judged.      *)
Wanted(t) == {Title[t], Core[t]} \ {<<>>}
Fits(text, t) == \E w \in Wanted(t) : w \in SubSeqs(text) \/ text \in SubSeqs(w)

(* mutant: any FLAC is accepted *)
MatchesAnything(m, t) == TRUE
MatchesExpected(m, t) ==
  ~MatchStrict \/ Wanted(t) = {} \/ m.text = <<>> \/ Fits(m.text, t)

IsFlac(m) == m.track # None
Window == {k \in DOMAIN chat : k > cut /\ k + ScanLimit > Len(chat)}
Acceptable(k) == IsFlac(chat[k]) /\ MatchesExpected(chat[k], track[active])

(* mutant: only the newest message is looked at *)
PicksNewest(k) == Acceptable(k) /\ k = Len(chat)
Picks(k) ==
  Acceptable(k) /\ \A l \in Window : l > k => ~Acceptable(l)

Scan ==
  /\ fpc = "scan"
  /\ \/ \E k \in Window :
          Picks(k) /\ fpc' = "found" /\ content' = [content EXCEPT ![active] = chat[k]]
     \/ (\A k \in Window : ~Picks(k)) /\ fpc' = "resend" /\ UNCHANGED content
  /\ UNCHANGED <<tableVars, disk, parts, queue, active, cancelled, cut, clock, resent,
                 senderVars, botVars, clientVars, reapVars, commandVars>>

(* mutant: the flag is cleared after the scan *)
FlagAfterScanCleared == FALSE
FlagAfterScan == activity

(* The link is sent once more, a failure to do so ignored.                 *)
Resend ==
  /\ Goto("resend", "wait")
  /\ IF clock >= 1 /\ ~resent
       THEN resent' = TRUE /\ (Asks(track[active]) \/ UNCHANGED owed)
       ELSE UNCHANGED <<resent, owed>>
  /\ activity' = FlagAfterScan
  /\ UNCHANGED <<tableVars, fileVars, queue, active, cancelled, cut, clock, senderVars,
                 chat, clientVars, reapVars, commandVars>>

Wakes ==
  /\ activity /\ Goto("wait", "loop")
  /\ UNCHANGED <<tableVars, fileVars, queue, active, cancelled, cut, clock, resent,
                 senderVars, botVars, clientVars, reapVars, commandVars>>

(* The two-second ceiling of the wait.                                     *)
Polls ==
  /\ ~activity /\ Goto("wait", "loop")
  /\ UNCHANGED <<tableVars, fileVars, queue, active, cancelled, cut, clock, resent,
                 senderVars, botVars, clientVars, reapVars, commandVars>>

StartDownload ==
  /\ Goto("found", "parts") /\ SetState("downloading")
  /\ disk' = [disk EXCEPT ![active] = "part"] /\ parts' = [parts EXCEPT ![active] = {}]
  /\ left' = Parts /\ sender' = [s \in Senders |-> "top"]
  /\ UNCHANGED <<track, jobs, stuck, content, queue, active, cancelled, cut, clock, resent,
                 botVars, clientVars, reapVars, commandVars>>

-----------------------------------------------------------------------------
(* _parallel_download: every sender checks, takes a part, waits for it,    *)
(* writes it, and checks again.                                            *)
Take(s) ==
  /\ fpc = "parts" /\ sender[s] = "top" /\ active \notin cancelled
  /\ \E p \in left : left' = left \ {p} /\ sender' = [sender EXCEPT ![s] = p]
  /\ UNCHANGED <<tableVars, fileVars, fetchVars, cancelled, botVars, clientVars,
                 reapVars, commandVars>>

Arrive(s) ==
  /\ fpc = "parts" /\ sender[s] \in Parts
  /\ parts' = [parts EXCEPT ![active] = @ \cup {sender[s]}]
  /\ sender' = [sender EXCEPT ![s] = "top"]
  /\ UNCHANGED <<tableVars, disk, content, fetchVars, cancelled, left, botVars, clientVars,
                 reapVars, commandVars>>

SenderDone(s) ==
  /\ fpc = "parts" /\ sender[s] = "top" /\ active \notin cancelled /\ left = {}
  /\ sender' = [sender EXCEPT ![s] = "gone"]
  /\ UNCHANGED <<tableVars, fileVars, fetchVars, cancelled, left, botVars, clientVars,
                 reapVars, commandVars>>

(* mutant: the partial file is left behind *)
PartialKept == disk
PartialRemoved == [disk EXCEPT ![active] = "none"]

(* A part is refused for good, or a sender finds the job cancelled: the    *)
(* gather raises and the partial file is removed.                          *)
DownloadFails(s) ==
  /\ sender[s] \in Parts \/ (sender[s] = "top" /\ active \in cancelled)
  /\ Goto("parts", "end") /\ SetState("failed")
  /\ disk' = PartialRemoved
  /\ left' = {} /\ sender' = [t \in Senders |-> "top"]
  /\ UNCHANGED <<track, jobs, stuck, content, parts, queue, active, cancelled, cut, clock, resent,
                 botVars, clientVars, reapVars, commandVars>>

(* mutant: a sender that is out of parts ends the download *)
AnyGone == \E s \in Senders : sender[s] = "gone"
AllGone == \A s \in Senders : sender[s] = "gone"

Gathered ==
  /\ AllGone /\ Goto("parts", "rename")
  /\ UNCHANGED <<tableVars, fileVars, queue, active, cancelled, cut, clock, resent,
                 senderVars, botVars, clientVars, reapVars, commandVars>>

Rename ==
  /\ Goto("rename", "publish")
  /\ disk' = [disk EXCEPT ![active] = "final"]
  /\ UNCHANGED <<tableVars, content, parts, queue, active, cancelled, cut, clock, resent,
                 senderVars, botVars, clientVars, reapVars, commandVars>>

(* os.replace raises: the catch-all marks the job, and no path is ever set *)
(* for the partial file.                                                   *)
RenameFails ==
  /\ Goto("rename", "end") /\ stuck' = stuck \cup {active}
  /\ IF active \in jobs THEN SetState("failed") ELSE UNCHANGED state
  /\ UNCHANGED <<track, jobs, fileVars, queue, active, cancelled, cut, clock, resent,
                 senderVars, botVars, clientVars, reapVars, commandVars>>

Publish ==
  /\ Goto("publish", "end") /\ SetState("ready")
  /\ UNCHANGED <<track, jobs, stuck, fileVars, queue, active, cancelled, cut, clock, resent,
                 senderVars, botVars, clientVars, reapVars, commandVars>>

End ==
  /\ Goto("end", "get")
  /\ active' = None /\ cancelled' = cancelled \ {active}
  /\ UNCHANGED <<tableVars, fileVars, queue, cut, clock, resent, senderVars, botVars,
                 clientVars, reapVars, commandVars>>

-----------------------------------------------------------------------------
(* The bot and the clock.                                                  *)
Receives(m) == Len(chat) < MaxChat /\ chat' = Append(chat, m) /\ activity' = TRUE

(* A link is answered with its track, with what the bot took for it, or    *)
(* with something that is no FLAC.                                         *)
Answers ==
  /\ \E t \in Tracks, m \in Message :
       /\ owed[t] > 0 /\ owed' = [owed EXCEPT ![t] = @ - 1]
       /\ Receives(m)
  /\ UNCHANGED <<tableVars, fileVars, fetchVars, cancelled, senderVars, clientVars,
                 reapVars, commandVars>>

Tick ==
  /\ fpc \in Resolving \ {"send"} /\ clock < 2 /\ clock' = clock + 1
  /\ UNCHANGED <<tableVars, fileVars, queue, fpc, active, cancelled, cut, resent,
                 senderVars, botVars, clientVars, reapVars, commandVars>>

-----------------------------------------------------------------------------
(* A download: POST /fetch, poll until ready, GET the file, DELETE the job *)
(* whatever happened.                                                      *)
At(c, from, to) == cpc[c] = from /\ cpc' = [cpc EXCEPT ![c] = to]
Finished(j) == state[j] \in {"ready", "failed"}

Post(c, j, t) ==
  /\ At(c, "idle", "put") /\ state[j] = "absent"
  /\ cjob' = [cjob EXCEPT ![c] = j]
  /\ jobs' = jobs \cup {j}
  /\ state' = [state EXCEPT ![j] = "queued"] /\ track' = [track EXCEPT ![j] = t]
  /\ UNCHANGED <<stuck, fileVars, fetchVars, cancelled, senderVars, botVars, reapVars, commandVars>>

(* The handler queues the job; a caller that gave up on the request never  *)
(* learns its id and deletes nothing.                                      *)
Put(c) ==
  /\ \/ At(c, "put", "poll") /\ UNCHANGED cjob
     \/ At(c, "put", "idle") /\ cjob' = [cjob EXCEPT ![c] = None]
  /\ queue' = Append(queue, cjob[c])
  /\ UNCHANGED <<tableVars, fileVars, fpc, active, cancelled, cut, clock, resent,
                 senderVars, botVars, reapVars, commandVars>>

Ready(c) ==
  /\ At(c, "poll", "file") /\ cjob[c] \in jobs /\ state[cjob[c]] = "ready"
  /\ UNCHANGED <<tableVars, fileVars, fetchVars, cancelled, senderVars, botVars, cjob,
                 reapVars, commandVars>>

(* The job failed or is gone, the deadline passed or the download was      *)
(* cancelled: the deferred deleteJob runs.                                 *)
GiveUp(c) ==
  /\ \/ At(c, "poll", "delete")
     \/ At(c, "file", "delete")
     \/ At(c, "open", "delete")
  /\ UNCHANGED <<tableVars, fileVars, fetchVars, cancelled, senderVars, botVars, cjob,
                 reapVars, commandVars>>

(* fetch_file looks the job up under the lock and opens the file after it. *)
LookUp(c) ==
  /\ At(c, "file", "open") /\ cjob[c] \in jobs /\ state[cjob[c]] = "ready"
  /\ UNCHANGED <<tableVars, fileVars, fetchVars, cancelled, senderVars, botVars, cjob,
                 reapVars, commandVars>>

Stream(c) ==
  /\ At(c, "open", "delete") /\ disk[cjob[c]] = "final"
  /\ UNCHANGED <<tableVars, fileVars, fetchVars, cancelled, senderVars, botVars, cjob,
                 reapVars, commandVars>>

Delete(c) ==
  /\ At(c, "delete", "pop")
  /\ cancelled' = cancelled \cup {cjob[c]}
  /\ UNCHANGED <<tableVars, fileVars, fetchVars, senderVars, botVars, cjob, reapVars,
                 commandVars>>

(* The DELETE never reaches the gateway; its error is dropped.             *)
DeleteLost(c) ==
  /\ At(c, "delete", "idle") /\ cjob' = [cjob EXCEPT ![c] = None]
  /\ UNCHANGED <<tableVars, fileVars, fetchVars, cancelled, senderVars, botVars, reapVars,
                 commandVars>>

Pop(c) ==
  /\ \/ cjob[c] \in jobs /\ At(c, "pop", "remove") /\ UNCHANGED cjob
     \/ cjob[c] \notin jobs /\ At(c, "pop", "idle") /\ cjob' = [cjob EXCEPT ![c] = None]
  /\ jobs' = jobs \ {cjob[c]}
  /\ UNCHANGED <<track, state, stuck, fileVars, fetchVars, cancelled, senderVars, botVars, reapVars,
                 commandVars>>

(* The job's path is looked at after the lock; it is set with "ready".     *)
RemovedFile(j) == IF state[j] = "ready" THEN [disk EXCEPT ![j] = "none"] ELSE disk

Unlink(c) ==
  /\ At(c, "remove", "idle") /\ cjob' = [cjob EXCEPT ![c] = None]
  /\ disk' = RemovedFile(cjob[c])
  /\ UNCHANGED <<tableVars, content, parts, fetchVars, cancelled, senderVars, botVars,
                 reapVars, commandVars>>

-----------------------------------------------------------------------------
(* The reaper pops what is old and finished, and removes the files after.  *)
Age(j) ==
  /\ j \in jobs \ aged /\ Cardinality(aged) < MaxOld
  /\ aged' = aged \cup {j}
  /\ UNCHANGED <<tableVars, fileVars, fetchVars, cancelled, senderVars, botVars, clientVars,
                 doomed, commandVars>>

Stale == {j \in jobs \cap aged : Finished(j)}

Reap ==
  /\ Stale # {} /\ doomed = {}
  /\ jobs' = jobs \ Stale /\ doomed' = Stale
  /\ UNCHANGED <<track, state, stuck, fileVars, fetchVars, cancelled, senderVars, botVars,
                 clientVars, aged, commandVars>>

ReapFile(j) ==
  /\ j \in doomed /\ doomed' = doomed \ {j}
  /\ disk' = RemovedFile(j)
  /\ UNCHANGED <<tableVars, content, parts, fetchVars, cancelled, senderVars, botVars,
                 clientVars, aged, commandVars>>

(* POST /bot/command looks whether a fetch is active, then sends; its wait *)
(* clears the flag that the fetch worker waits for, too.                   *)
CommandCheck ==
  /\ command = "off" /\ active = None
  /\ commands < MaxCommands /\ commands' = commands + 1 /\ command' = "asking"
  /\ UNCHANGED <<tableVars, fileVars, fetchVars, cancelled, senderVars, botVars, clientVars,
                 reapVars>>

CommandClear ==
  /\ command = "asking" /\ activity' = FALSE
  /\ UNCHANGED <<tableVars, fileVars, fetchVars, cancelled, senderVars, chat, owed,
                 clientVars, reapVars, commandVars>>

CommandReply ==
  /\ command = "asking" /\ Receives(NoMessage)
  /\ UNCHANGED <<tableVars, fileVars, fetchVars, cancelled, senderVars, owed, clientVars,
                 reapVars, commandVars>>

CommandDone ==
  /\ command = "asking" /\ command' = "off"
  /\ UNCHANGED <<tableVars, fileVars, fetchVars, cancelled, senderVars, botVars, clientVars,
                 reapVars, commands>>

-----------------------------------------------------------------------------
Fetch ==
  \/ Get \/ Begin \/ Send \/ Raises \/ TimesOut \/ Abandon \/ ClearFlag \/ Scan \/ Resend
  \/ Wakes \/ Polls \/ StartDownload
  \/ \E s \in Senders : Take(s) \/ Arrive(s) \/ SenderDone(s) \/ DownloadFails(s)
  \/ Gathered \/ Rename \/ RenameFails \/ Publish \/ End

Client(c) ==
  \/ \E j \in Jobs, t \in Tracks : Post(c, j, t)
  \/ Put(c) \/ Ready(c) \/ GiveUp(c) \/ LookUp(c) \/ Stream(c)
  \/ Delete(c) \/ DeleteLost(c) \/ Pop(c) \/ Unlink(c)

(* What a request thread does once it has begun.                           *)
Handler(c) == Put(c) \/ Pop(c) \/ Unlink(c)

Reaper == Reap \/ \E j \in Jobs : Age(j) \/ ReapFile(j)

Command == CommandCheck \/ CommandClear \/ CommandReply \/ CommandDone

Next ==
  \/ Fetch \/ Answers \/ Tick
  \/ \E c \in Clients : Client(c)
  \/ Reaper \/ Command

Spec == Init /\ [][Next]_vars

(* The event loop runs what can run and requests to Telegram return.       *)
LoopSpec == Spec /\ WF_vars(Fetch)

(* What liveness may need besides: request threads run and time passes.    *)
TimePasses == WF_vars(Tick) /\ \A c \in Clients : WF_vars(Handler(c))

-----------------------------------------------------------------------------
(* The type invariant.                                                     *)
TypeOK ==
  /\ track \in [Jobs -> Tracks \cup {None}] /\ state \in [Jobs -> States]
  /\ jobs \subseteq Jobs /\ doomed \subseteq Jobs /\ cancelled \subseteq Jobs
  /\ disk \in [Jobs -> {"none", "part", "final"}]
  /\ content \in [Jobs -> Message] /\ parts \in [Jobs -> SUBSET Parts]
  /\ queue \in Seq(Jobs) /\ fpc \in FetchPCs /\ active \in Jobs \cup {None}
  /\ cut \in Nat /\ clock \in 0 .. 2 /\ resent \in BOOLEAN
  /\ left \subseteq Parts /\ sender \in [Senders -> Parts \cup {"top", "gone"}]
  /\ chat \in Seq(Message) /\ owed \in [Tracks -> Nat] /\ activity \in BOOLEAN
  /\ cpc \in [Clients -> ClientPCs] /\ cjob \in [Clients -> Jobs \cup {None}]
  /\ aged \subseteq Jobs /\ stuck \subseteq Jobs
  /\ command \in {"off", "asking"} /\ commands \in Nat

(* A job that says "ready" has its file in place, every part written,      *)
(* whatever deletes, reaps and cancelled downloads ran beside it           *)
(* (gateway.py:477-481, 504-518, 663-673).                                 *)
ReadyIsWhole ==
  \A j \in jobs : state[j] = "ready" => disk[j] = "final" /\ parts[j] = Parts

(* Where the title of a track is apart from all that a file of another one *)
(* may say, the file is never delivered under that title, however late and *)
(* in whatever order replies come in, unless it says nothing that can be   *)
(* read (gateway.py:401-416, matching.py:1-10, 53-62).                     *)
Apart(t, u) == Wanted(t) # {} /\ \A text \in Says[u] \ {<<>>} : ~Fits(text, t)
RightTrack(j) ==
  MatchStrict /\ Apart(track[j], content[j].track) => content[j].text = <<>>
ReadyIsItsTrack ==
  \A j \in jobs : state[j] = "ready" => content[j].track # None /\ RightTrack(j)

(* "A reply arriving while we are mid-scan leaves the flag set": the worker*)
(* never waits with the flag down while an acceptable reply is there that  *)
(* its scan did not see (gateway.py:391-394), if nobody asks the bot       *)
(* anything else.                                                          *)
NoMissedReply ==
  commands = 0 /\ fpc \in {"resend", "wait"} /\ ~activity => \A k \in Window : ~Acceptable(k)

(* Every partial file belongs to the fetch that runs                       *)
(* (gateway.py:466-478): no failure or cancellation leaves one behind but  *)
(* a rename that fails.                                                    *)
PartialIsActive ==
  \A j \in Jobs \ stuck : disk[j] = "part" => j = active /\ fpc \in {"parts", "rename"}

(* A deleted job does not hold up the ones behind it: without any time     *)
(* limit passing, the worker drops it (gateway.py:149-155).                *)
AbandonedIsDropped ==
  \A j \in Jobs : (active = j /\ j \in cancelled) ~> active # j

(* A reply for the job that is there is found behind stale ones that came  *)
(* in after it, without any time limit passing (gateway.py:401-416).       *)
Replied == fpc \in Resolving /\ \E k \in Window : Acceptable(k)
ReplyIsFound == Replied ~> (fpc \notin Resolving \/ ~Replied)

(* Every fetch ends: when time passes, a listed job is in the end ready,   *)
(* failed or deleted (gateway.py:389, 484-501).                            *)
JobEnds ==
  TimePasses => \A j \in Jobs : state[j] = "queued" ~> Finished(j) \/ j \notin jobs

-----------------------------------------------------------------------------
(* The inductive invariant.                                                *)

(* Ids are made up once: what is listed, queued, fetched, held by a client *)
(* or being removed has been posted.                                       *)
Posted(j) == state[j] # "absent"
IdsInv ==
  /\ \A j \in jobs \cup doomed : Posted(j)
  /\ \A k \in DOMAIN queue : Posted(queue[k])
  /\ active \in Jobs => Posted(active)
  /\ \A c \in Clients : cpc[c] = "idle" <=> cjob[c] = None
  /\ \A c \in Clients : cjob[c] \in Jobs => Posted(cjob[c])

(* A file is removed only after its job is off the table.                  *)
RemovalInv ==
  /\ doomed \cap jobs = {}
  /\ \A c \in Clients : cpc[c] = "remove" => cjob[c] \notin jobs

(* The active job's state and file against the worker's place in the code. *)
FetchInv ==
  /\ fpc = "get" <=> active = None
  /\ fpc \in Resolving \cup {"found"} => state[active] = "resolving"
  /\ fpc \in {"parts", "rename", "publish"} => state[active] = "downloading"
  /\ fpc \in {"found", "parts", "rename", "publish"} =>
       content[active].track # None /\ RightTrack(active)
  /\ fpc \in {"parts", "rename"} => disk[active] = "part"
  /\ fpc = "publish" => disk[active] = "final"

(* Every part is still to be taken, awaited by a sender, or written, and   *)
(* a sender leaves only when none is left to take.                         *)
PartsInv ==
  /\ fpc = "parts" =>
       /\ \A p \in Parts : p \in left \/ p \in parts[active] \/ \E s \in Senders : sender[s] = p
       /\ (\E s \in Senders : sender[s] = "gone") => left = {}
  /\ fpc \in {"rename", "publish"} => parts[active] = Parts

IInv ==
  /\ TypeOK /\ IdsInv /\ RemovalInv /\ FetchInv /\ PartsInv
  /\ ReadyIsWhole /\ ReadyIsItsTrack /\ PartialIsActive

-----------------------------------------------------------------------------
(* What the repository says and the code does not do.                      *)

(* "DELETE /fetch/<job_id> -> drops the temp file" (gateway.py:18): every  *)
(* file on disk that was renamed is listed, being fetched or about to be   *)
(* removed.                                                                *)
NoOrphanFile ==
  \A j \in Jobs \ stuck : disk[j] # "none" =>
    \/ j \in jobs \cup doomed \cup {active}
    \/ \E c \in Clients : cjob[c] = j /\ cpc[c] = "remove"
=============================================================================
