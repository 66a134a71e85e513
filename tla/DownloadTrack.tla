--------------------------- MODULE DownloadTrack ---------------------------
(***************************************************************************)
(* DownloadTrack calls that run at the same time (app.go:546-982), the     *)
(* cancellation scope they share (backend/download_cancel.go) and the      *)
(* display queue they report to (backend/progress.go).                     *)
(*                                                                         *)
(* One caller is the queue worker, which runs one download after another   *)
(* and may run the same item again; the others are web pages, which make   *)
(* up a new item id for every download.  Every access to the scope, to the *)
(* display queue, to the current item and to the is_downloading flag takes *)
(* a lock of its own, hence one step each.                                 *)
(***************************************************************************)
EXTENDS Naturals, FiniteSets, Sifting

CONSTANTS
  Worker,       (* the goroutine that drains the durable queue             *)
  Webs,         (* requests of web pages that may overlap                  *)
  WorkerItems,  (* queue record ids                                        *)
  WebItems,     (* ids made up by DownloadTrack, each used once            *)
  NoItem,       (* the empty item id                                       *)
  MaxRuns,      (* bound: DownloadTrack calls ever made                    *)
  MaxStops,     (* bound: ForceStopDownloads calls ever made               *)
  MaxEdits      (* bound: clear and cancel-all calls on the display queue  *)

Callers == Webs \cup {Worker}
Items == WorkerItems \cup WebItems

ASSUME TrackAssumption ==
  /\ Worker \notin Webs /\ WorkerItems \cap WebItems = {}
  /\ NoItem \notin Items
  /\ IsFiniteSet(Webs)
  /\ MaxRuns \in Nat /\ MaxStops \in Nat /\ MaxEdits \in Nat

RowStatuses == {"queued", "downloading", "completed", "failed", "skipped"}
DisplayRow == [item : Items, status : RowStatuses]

Phases == {"off", "added", "busy", "started", "check", "fetch", "await",
           "transfer", "landed", "post", "leave", "unbusy"}
InScope == {"check", "fetch", "await", "transfer", "landed", "post", "leave"}
BeforeLastCheck == {"check", "fetch", "await", "transfer", "landed"}

VARIABLES
  pc,        (* where each caller's DownloadTrack call is                  *)
  item,      (* the item it downloads                                      *)
  joined,    (* the context it was given by BeginDownloadCancellationScope *)
  seen,      (* the item its progress is bound to                          *)
  ctx,       (* downloadCancelState.ctx: the number of the context, 0: nil *)
  active,    (* downloadCancelState.active                                 *)
  stopping,  (* downloadCancelState.stopping                               *)
  dead,      (* contexts whose cancel function was called                  *)
  lastCtx,   (* the number of the context made last                        *)
  rows,      (* downloadQueue, the display queue                           *)
  current,   (* currentItemID                                              *)
  busy,      (* isDownloading                                              *)
  stop,      (* the ForceStop or ClearAll call in progress                 *)
  told,      (* history: callers inside that were stopped before their     *)
             (* last check                                                 *)
  used,      (* history: web items handed out                              *)
  runs, stops, edits   (* counters for the bounds                          *)

callVars == <<item, joined, seen>>
scopeVars == <<ctx, active, stopping, dead, lastCtx>>
displayVars == <<rows, current, busy>>
counts == <<runs, stops, edits>>
vars == <<pc, item, joined, seen, ctx, active, stopping, dead, lastCtx, rows, current,
          busy, stop, told, used, runs, stops, edits>>

Init ==
  /\ pc = [p \in Callers |-> "off"] /\ item = [p \in Callers |-> NoItem]
  /\ joined = [p \in Callers |-> 0] /\ seen = [p \in Callers |-> NoItem]
  /\ ctx = 0 /\ active = 0 /\ stopping = FALSE /\ dead = {} /\ lastCtx = 0
  /\ rows = <<>> /\ current = NoItem /\ busy = FALSE
  /\ stop = [pc |-> "off", scope |-> 0]
  /\ told = {} /\ used = {}
  /\ runs = 0 /\ stops = 0 /\ edits = 0

Goto(p, from, to) == pc[p] = from /\ pc' = [pc EXCEPT ![p] = to]
Off(p, from) ==
  /\ Goto(p, from, "off")
  /\ item' = [item EXCEPT ![p] = NoItem] /\ joined' = [joined EXCEPT ![p] = 0]
  /\ seen' = [seen EXCEPT ![p] = NoItem]

(* Every update of the display queue goes to the first row with the id.    *)
IsFirst(k, i) == rows[k].item = i /\ \A l \in 1 .. k - 1 : rows[l].item # i
Mark(i, status) ==
  rows' = [k \in DOMAIN rows |-> IF IsFirst(k, i)
             THEN [item |-> i, status |-> status]
             ELSE rows[k]]

-----------------------------------------------------------------------------
(* The worker adds the row itself (queue.go:126), a web page's call does.  *)
AddToQueue(i) == rows' = Append(rows, [item |-> i, status |-> "queued"])

Add(p, i) ==
  /\ Goto(p, "off", "added") /\ runs < MaxRuns /\ runs' = runs + 1
  /\ IF p = Worker THEN i \in WorkerItems /\ UNCHANGED used
                   ELSE i \in WebItems \ used /\ used' = used \cup {i}
  /\ item' = [item EXCEPT ![p] = i]
  /\ AddToQueue(i)
  /\ UNCHANGED <<joined, seen, scopeVars, current, busy, stop, told, stops, edits>>

(* A request for another service is refused; the worker's row is there.    *)
Refuse(p) ==
  /\ p = Worker /\ Off(p, "added")
  /\ UNCHANGED <<scopeVars, displayVars, stop, told, used, counts>>

SetBusy(p) ==
  /\ Goto(p, "added", "busy")
  /\ busy' = TRUE
  /\ UNCHANGED <<callVars, scopeVars, rows, current, stop, told, used, counts>>

(* mutant: the current item is set once and not moved on *)
MadeCurrentOnce(i) == IF current = NoItem THEN i ELSE current
MadeCurrent(i) == i

StartItem(p) ==
  /\ Goto(p, "busy", "started")
  /\ Mark(item[p], "downloading")
  /\ current' = MadeCurrent(item[p])
  /\ UNCHANGED <<callVars, scopeVars, busy, stop, told, used, counts>>

(* mutant: every call gets a context of its own *)
NeedsContextAlways == TRUE
NeedsContext == ctx = 0 \/ active = 0

BeginScope(p) ==
  /\ Goto(p, "started", "check")
  /\ IF NeedsContext
       THEN lastCtx' = lastCtx + 1 /\ ctx' = lastCtx + 1 /\ stopping' = FALSE
       ELSE UNCHANGED <<lastCtx, ctx, stopping>>
  /\ active' = active + 1
  /\ joined' = [joined EXCEPT ![p] = ctx']
  /\ UNCHANGED <<item, seen, dead, displayVars, stop, told, used, counts>>

(* CheckDownloadCancelled reads whatever context is shared at the moment.  *)
Cancelled == ctx \in dead

(* The call returns; its deferred functions follow.                        *)
ReturnsWith(p, from, status) ==
  /\ Goto(p, from, "leave")
  /\ Mark(item[p], status)

(* mutant: a download that finds itself cancelled forgets its row *)
FirstCheckSilent(p) ==
  /\ Goto(p, "check", IF Cancelled THEN "leave" ELSE "fetch")
  /\ UNCHANGED <<callVars, scopeVars, rows, current, busy, stop, told, used, counts>>

FirstCheck(p) ==
  /\ IF Cancelled THEN ReturnsWith(p, "check", "skipped")
                  ELSE Goto(p, "check", "fetch") /\ UNCHANGED rows
  /\ UNCHANGED <<callVars, scopeVars, current, busy, stop, told, used, counts>>

(* The file is there already.                                              *)
Exists(p) ==
  /\ ReturnsWith(p, "fetch", "skipped")
  /\ UNCHANGED <<callVars, scopeVars, current, busy, stop, told, used, counts>>

(* awaitReady and downloadFile each bind their progress to the item that   *)
(* is current when they start.                                             *)
Await(p) ==
  /\ Goto(p, "fetch", "await") /\ ~Cancelled
  /\ seen' = [seen EXCEPT ![p] = current]
  /\ UNCHANGED <<item, joined, scopeVars, displayVars, stop, told, used, counts>>

Transfer(p) ==
  /\ Goto(p, "await", "transfer") /\ ~Cancelled
  /\ seen' = [seen EXCEPT ![p] = current]
  /\ UNCHANGED <<item, joined, scopeVars, displayVars, stop, told, used, counts>>

FetchFails(p) ==
  /\ \E from \in {"fetch", "await", "transfer"} :
       \/ Cancelled /\ ReturnsWith(p, from, "skipped")
       \/ ReturnsWith(p, from, "failed")
  /\ UNCHANGED <<callVars, scopeVars, current, busy, stop, told, used, counts>>

Fetched(p) ==
  /\ Goto(p, "transfer", "landed")
  /\ UNCHANGED <<callVars, scopeVars, displayVars, stop, told, used, counts>>

LastCheck(p) ==
  /\ IF Cancelled THEN ReturnsWith(p, "landed", "skipped")
                  ELSE Goto(p, "landed", "post") /\ UNCHANGED rows
  /\ UNCHANGED <<callVars, scopeVars, current, busy, stop, told, used, counts>>

(* Validate, resample, convert and tag.                                    *)
Post(p) ==
  /\ ReturnsWith(p, "post", "completed") \/ ReturnsWith(p, "post", "failed")
  /\ UNCHANGED <<callVars, scopeVars, current, busy, stop, told, used, counts>>

(* mutant: the last one out leaves the context behind *)
ClosedContextKept == ctx
ClosedContext == 0

LeaveScope(p) ==
  /\ Goto(p, "leave", "unbusy")
  /\ active' = IF active > 0 THEN active - 1 ELSE active
  /\ IF active' = 0
       THEN dead' = dead \cup {ctx} /\ ctx' = ClosedContext /\ stopping' = FALSE
       ELSE UNCHANGED <<dead, ctx, stopping>>
  /\ seen' = [seen EXCEPT ![p] = NoItem] /\ told' = told \ {p}
  /\ UNCHANGED <<item, joined, lastCtx, displayVars, stop, used, counts>>

(* mutant: the deferred reset is missing *)
BusyAfterKept == busy
BusyAfter == FALSE

ClearBusy(p) ==
  /\ Off(p, "unbusy")
  /\ busy' = BusyAfter
  /\ UNCHANGED <<scopeVars, rows, current, stop, told, used, counts>>

-----------------------------------------------------------------------------
(* ForceStopDownloads, the stop button: look the cancel function up, call  *)
(* it, give up the rows, the current item and the flag, a lock each time.  *)
StopTake ==
  /\ stop.pc = "off" /\ stops < MaxStops /\ stops' = stops + 1
  /\ stop' = [pc |-> IF ctx = 0 THEN "rows" ELSE "fire", scope |-> ctx]
  /\ stopping' = (stopping \/ ctx # 0)
  /\ UNCHANGED <<pc, callVars, ctx, active, dead, lastCtx, displayVars, told, used, runs, edits>>

StopFire ==
  /\ stop.pc = "fire"
  /\ dead' = dead \cup {stop.scope}
  /\ told' = told \cup {p \in Callers : joined[p] = stop.scope /\ pc[p] \in BeforeLastCheck}
  /\ stop' = [stop EXCEPT !.pc = "rows"]
  /\ UNCHANGED <<pc, callVars, ctx, active, stopping, lastCtx, displayVars, used, counts>>

(* mutant: a row given up gets the durable queue's "cancelled" *)
GivenUpCancelled(row, statuses) ==
  IF row.status \in statuses THEN [item |-> row.item, status |-> "cancelled"]
                             ELSE row

(* CancelQueuedAndDownloadingItems.                                        *)
GivenUp(row, statuses) ==
  IF row.status \in statuses THEN [item |-> row.item, status |-> "skipped"]
                             ELSE row

StopRows ==
  /\ stop.pc = "rows"
  /\ rows' = [k \in DOMAIN rows |-> GivenUp(rows[k], {"queued", "downloading"})]
  /\ stop' = [stop EXCEPT !.pc = "current"]
  /\ UNCHANGED <<pc, callVars, scopeVars, current, busy, told, used, counts>>

(* That and ClearAllDownloads both go on to forget the current item.       *)
StopCurrent ==
  /\ stop.pc \in {"current", "clear"}
  /\ current' = NoItem
  /\ stop' = [stop EXCEPT !.pc = IF stop.pc = "clear" THEN "off" ELSE "flag"]
  /\ UNCHANGED <<pc, callVars, scopeVars, rows, busy, told, used, counts>>

StopFlag ==
  /\ stop.pc = "flag"
  /\ busy' = FALSE
  /\ stop' = [stop EXCEPT !.pc = "off"]
  /\ UNCHANGED <<pc, callVars, scopeVars, rows, current, told, used, counts>>

(* ClearCompletedDownloads, CancelAllQueuedItems and ClearAllDownloads.    *)
LiveRow == {row \in DisplayRow : row.status \in {"queued", "downloading"}}

ClearCompleted ==
  /\ edits < MaxEdits /\ edits' = edits + 1
  /\ rows' = Sift(rows, LiveRow)
  /\ UNCHANGED <<pc, callVars, scopeVars, current, busy, stop, told, used, runs, stops>>

CancelAllQueued ==
  /\ edits < MaxEdits /\ edits' = edits + 1
  /\ rows' = [k \in DOMAIN rows |-> GivenUp(rows[k], {"queued"})]
  /\ UNCHANGED <<pc, callVars, scopeVars, current, busy, stop, told, used, runs, stops>>

ClearAll ==
  /\ stop.pc = "off" /\ edits < MaxEdits /\ edits' = edits + 1
  /\ rows' = <<>>
  /\ stop' = [pc |-> "clear", scope |-> 0]
  /\ UNCHANGED <<pc, callVars, scopeVars, current, busy, told, used, runs, stops>>

Track(p) ==
  \/ \E i \in Items : Add(p, i)
  \/ Refuse(p) \/ SetBusy(p) \/ StartItem(p) \/ BeginScope(p) \/ FirstCheck(p)
  \/ Exists(p) \/ Await(p) \/ Transfer(p) \/ FetchFails(p) \/ Fetched(p)
  \/ LastCheck(p) \/ Post(p) \/ LeaveScope(p) \/ ClearBusy(p)

Stop == StopTake \/ StopFire \/ StopRows \/ StopCurrent \/ StopFlag

Edit == ClearCompleted \/ CancelAllQueued \/ ClearAll

Next == (\E p \in Callers : Track(p)) \/ Stop \/ Edit

Spec == Init /\ [][Next]_vars
-----------------------------------------------------------------------------
(* The type invariant.                                                     *)
TypeOK ==
  /\ pc \in [Callers -> Phases] /\ joined \in [Callers -> Nat]
  /\ item \in [Callers -> Items \cup {NoItem}] /\ seen \in [Callers -> Items \cup {NoItem}]
  /\ ctx \in Nat /\ active \in Nat /\ lastCtx \in Nat
  /\ stopping \in BOOLEAN /\ dead \subseteq Nat
  /\ rows \in Seq(DisplayRow)
  /\ current \in Items \cup {NoItem} /\ busy \in BOOLEAN
  /\ stop \in [pc : {"off", "fire", "rows", "current", "flag", "clear"}, scope : Nat]
  /\ told \subseteq Callers /\ used \subseteq WebItems
  /\ runs \in Nat /\ stops \in Nat /\ edits \in Nat

(* The scope is counted exactly (download_cancel.go:25-49): active is the  *)
(* number of downloads inside, and there is a context while there are any; *)
(* a stop leaves nothing behind for the next download once all have left.  *)
ScopeCounts ==
  /\ active = Cardinality({p \in Callers : pc[p] \in InScope})
  /\ active = 0 <=> ctx = 0
  /\ stopping => active > 0

(* A download reads, wherever it checks, the context it joined when it     *)
(* began, whatever other downloads begin and end meanwhile.                *)
ScopeIsStable ==
  \A p \in Callers : pc[p] \in InScope => joined[p] = ctx

(* A stop reaches every download in flight (queue.go:435-438): one that    *)
(* was told to stop before its last check does not complete.               *)
StopReachesAll ==
  [][\A p \in Callers : p \in told => ~ (pc[p] = "landed" /\ pc'[p] = "post")]_vars

(* A row says "downloading" only while a call for its item runs, however   *)
(* stops, clears and second attempts hit the display queue.                *)
NoGhostRow ==
  \A k \in DOMAIN rows : rows[k].status = "downloading" =>
    \E p \in Callers : /\ item[p] = rows[k].item
                       /\ pc[p] \in {"started"} \cup (InScope \ {"leave"})

(* When nothing downloads, is_downloading says so: no order of overlapping *)
(* calls and stops leaves it up.                                           *)
FlagComesDown ==
  (\A p \in Callers : pc[p] \in {"off", "added"}) => ~busy

(* As long as the worker has been the only caller, its progress goes to its*)
(* own item, or nowhere after a stop (progress.go:220-222).                *)
ProgressIsOwn ==
  used = {} => seen[Worker] \in {item[Worker], NoItem}

-----------------------------------------------------------------------------
(* What the repository says and the code does not do.                      *)

(* "Stopping the active download cancels *all* in-flight downloads"        *)
(* (queue.go:435-436), and no others: a download that is cancelled was in  *)
(* flight when the stop came.                                              *)
StopSparesLater ==
  [][\A p \in Callers : FirstCheck(p) /\ Cancelled => p \in told]_vars
=============================================================================
