--------------------------- MODULE DownloadQueue ---------------------------
(***************************************************************************)
(* The durable download queue: the bolt bucket of queue records            *)
(* (backend/queue_store.go), the single worker goroutine that drains it    *)
(* and the four RPC handlers that clients call (queue.go).                 *)
(*                                                                         *)
(* The worker and each handler are separate processes.  Every access to    *)
(* the bucket is one bolt transaction, hence one step; what a handler read *)
(* in one transaction and writes back in the next is its own copy, and it  *)
(* may be stale by then.  The process may stop at any step and start       *)
(* again: the bucket survives, everything else is lost.                    *)
(***************************************************************************)
EXTENDS Naturals, FiniteSets

CONSTANTS
  Clients,      (* goroutines that serve RPC calls, at most one call each  *)
  Methods,      (* the RPC methods clients use, a subset of AllMethods     *)
  MaxItems,     (* bound: records ever appended                            *)
  MaxAttempts,  (* queueMaxAttempts                                        *)
  Malformed,    (* ids whose stored request no longer unmarshals           *)
  MaxCalls,     (* bound: RPC calls ever made                              *)
  MaxCrashes,   (* bound: restarts of the process                          *)
  MaxFaults     (* bound: failed bucket writes and failed scan triggers    *)

Ids == 1 .. MaxItems
NoId == 0
AllMethods == {"enqueue", "retry", "cancel", "clear", "forcestop"}

ASSUME QueueAssumption ==
  /\ MaxItems \in Nat /\ MaxCalls \in Nat
  /\ MaxCrashes \in Nat /\ MaxFaults \in Nat
  /\ MaxAttempts \in Nat \ {0}
  /\ Methods \subseteq AllMethods
  /\ Malformed \subseteq Ids

Finished == {"completed", "failed", "cancelled"}
Statuses == {"absent", "queued", "downloading"} \cup Finished

(* NextAttemptAt against the clock: zero, still ahead, or reached.         *)
Row == [status : Statuses, attempts : Nat,
        next : {"none", "later", "past"}]
NoRow == [status |-> "absent", attempts |-> 0, next |-> "none"]
NewRow == [status |-> "queued", attempts |-> 0, next |-> "none"]
Marked(row, status) == [status |-> status, attempts |-> row.attempts, next |-> row.next]

WorkerPCs == {"claim", "start", "drop", "prelude", "fetch", "post",
              "settle", "write", "drained", "scan", "idle"}
Processing == {"drop", "prelude", "fetch", "post", "settle"}
Outcomes == {"none", "success", "failed", "cancelled", "malformed"}
CallPCs == {"idle", "append", "retry", "nudge", "flag", "stop", "cancel",
            "clear"}
Call == [pc : CallPCs, id : Ids \cup {NoId}, row : Row, list : SUBSET Ids]
NoCall == [pc |-> "idle", id |-> NoId, row |-> NoRow, list |-> {}]

VARIABLES
  store,        (* the bucket: the record under each id, or NoRow          *)
  seq,          (* the bucket's sequence: the last id handed out           *)
  wpc,          (* where the worker goroutine is                           *)
  rec,          (* the worker's own copy of the record it claimed          *)
  outcome,      (* what DownloadTrack returned, then what is to be written *)
  currentID,    (* downloadWorker.currentID                                *)
  cancelled,    (* downloadWorker.cancelled                                *)
  scanPending,  (* downloadWorker.scanPending                              *)
  wake,         (* the one slot of downloadWorker.wake                     *)
  scope,        (* the cancellation scope of the worker's DownloadTrack    *)
  call,         (* the RPC call each client is in                          *)
  landed,       (* history: ids whose audio file DownloadTrack left on disk*)
  unscanned,    (* history: those no Navidrome scan was triggered for yet  *)
  asked,        (* history: ids whose cancellation was asked for since they
                   were last put on the queue                              *)
  calls, crashes, faults   (* counters for the bounds                      *)

bucket == <<store, seq>>
workerVars == <<wpc, rec, outcome, currentID, scanPending, scope>>
diskVars == <<landed, unscanned>>
countVars == <<calls, crashes, faults>>
vars == <<store, seq, wpc, rec, outcome, currentID, cancelled, scanPending,
          wake, scope, call, landed, unscanned, asked, calls, crashes, faults>>

NoRec == [id |-> NoId, attempts |-> 0]

Init ==
  /\ store = [i \in Ids |-> NoRow] /\ seq = 0
  /\ wpc = "claim" /\ rec = NoRec /\ outcome = "none"
  /\ currentID = NoId /\ cancelled = {} /\ scanPending = FALSE
  /\ wake = FALSE /\ scope = "none"
  /\ call = [c \in Clients |-> NoCall]
  /\ landed = {} /\ unscanned = {} /\ asked = [i \in Ids |-> "no"]
  /\ calls = 0 /\ crashes = 0 /\ faults = 0

-----------------------------------------------------------------------------
(* The worker goroutine: run, process, retryOrFail, finish, flushScan.     *)

(* mutant: a record that was ever held back is never due again *)
EligibleFreshOnly(i) == store[i].status = "queued" /\ store[i].next = "none"
Eligible(i) == store[i].status = "queued" /\ store[i].next # "later"

(* mutant: the cursor runs from the newest key *)
BeforeReversed(j, i) == j > i
Before(j, i) == j < i

(* Bolt refuses a write: the transaction leaves the bucket as it was.      *)
WriteFails == faults < MaxFaults /\ faults' = faults + 1 /\ UNCHANGED store

(* ClaimNextQueueRecord: the oldest eligible record, in one transaction.   *)
(* The result of the transaction is dropped, so that a claim whose commit  *)
(* fails is processed all the same.                                        *)
Claim ==
  /\ wpc = "claim"
  /\ \E i \in Ids :
       /\ Eligible(i)
       /\ \A j \in Ids : Before(j, i) => ~Eligible(j)
       /\ \/ /\ store' = [store EXCEPT ![i] = Marked(store[i], "downloading")]
             /\ UNCHANGED faults
          \/ WriteFails
       /\ rec' = [id |-> i, attempts |-> store[i].attempts]
  /\ wpc' = "start"
  /\ UNCHANGED <<seq, outcome, currentID, cancelled, scanPending, wake, scope,
                 call, diskVars, asked, calls, crashes>>

(* Nothing to claim, or the transaction failed before it found anything:   *)
(* both look like a drained queue.                                         *)
ClaimNothing ==
  /\ wpc = "claim"
  /\ \/ (\A i \in Ids : ~Eligible(i)) /\ UNCHANGED <<store, faults>>
     \/ WriteFails
  /\ wpc' = "drained"
  /\ UNCHANGED <<seq, rec, outcome, currentID, cancelled, scanPending,
                 wake, scope, call, diskVars, asked, calls, crashes>>

(* A request that does not unmarshal is finished before currentID is set.  *)
StartMalformed ==
  /\ wpc = "start" /\ rec.id \in Malformed
  /\ outcome' = "malformed" /\ wpc' = "write"
  /\ UNCHANGED <<bucket, rec, currentID, cancelled, scanPending, wake, scope,
                 call, diskVars, asked, countVars>>

(* One critical section: publish currentID, take the cancelled flag.       *)
Start ==
  /\ wpc = "start" /\ rec.id \notin Malformed
  /\ currentID' = rec.id
  /\ cancelled' = cancelled \ {rec.id}
  /\ wpc' = IF rec.id \in cancelled THEN "drop" ELSE "prelude"
  /\ UNCHANGED <<bucket, rec, outcome, scanPending, wake, scope, call,
                 diskVars, asked, countVars>>

Drop ==
  /\ wpc = "drop"
  /\ currentID' = NoId
  /\ outcome' = "cancelled" /\ wpc' = "write"
  /\ UNCHANGED <<bucket, rec, cancelled, scanPending, wake, scope, call,
                 diskVars, asked, countVars>>

(* DownloadTrack refuses a request that names another service.             *)
Refuse ==
  /\ wpc = "prelude"
  /\ outcome' = "failed" /\ wpc' = "settle"
  /\ UNCHANGED <<bucket, rec, currentID, cancelled, scanPending, wake, scope,
                 call, diskVars, asked, countVars>>

(* DownloadTrack up to BeginDownloadCancellationScope: artwork and ISRC    *)
(* lookups during which there is no scope to cancel.                       *)
BeginScope ==
  /\ wpc = "prelude"
  /\ scope' = "live" /\ wpc' = "fetch"
  /\ UNCHANGED <<bucket, rec, outcome, currentID, cancelled, scanPending,
                 wake, call, diskVars, asked, countVars>>

(* DownloadTrack returns: its deferred call ends the scope.                *)
Return(result) ==
  /\ outcome' = result /\ scope' = "none" /\ wpc' = "settle"

Keep(i) == landed' = landed \cup {i} /\ unscanned' = unscanned \cup {i}

(* The download returns before its last cancellation check: the file is    *)
(* there already, an error, or the scope was stopped.                      *)
FetchReturns ==
  /\ wpc = "fetch"
  /\ \/ Return("success") /\ Keep(rec.id)
     \/ Return("failed") /\ UNCHANGED diskVars
     \/ scope = "stopped" /\ Return("cancelled") /\ UNCHANGED diskVars
  /\ UNCHANGED <<bucket, rec, currentID, cancelled, scanPending, wake, call,
                 asked, countVars>>

(* The last check of the scope passed: validate, resample, convert, tag.   *)
FetchChecked ==
  /\ wpc = "fetch" /\ scope = "live"
  /\ wpc' = "post"
  /\ UNCHANGED <<bucket, rec, outcome, currentID, cancelled, scanPending,
                 wake, scope, call, diskVars, asked, countVars>>

(* A failed resample or conversion leaves the downloaded file behind.      *)
PostReturns ==
  /\ wpc = "post"
  /\ \/ Return("success") /\ Keep(rec.id)
     \/ Return("failed") /\ (UNCHANGED diskVars \/ Keep(rec.id))
  /\ UNCHANGED <<bucket, rec, currentID, cancelled, scanPending, wake, call,
                 asked, countVars>>

(* process after DownloadTrack: the flag decides first, then the response. *)
(* mutant: a response that came back successful decides first *)
SettleOutcomeResponseFirst ==
  IF outcome # "success" /\ rec.id \in cancelled THEN "cancelled" ELSE outcome
SettleOutcome == IF rec.id \in cancelled THEN "cancelled" ELSE outcome

(* mutant: a retried record sets no mark *)
ScanMarkFirstTry == scanPending \/ (SettleOutcome = "success" /\ rec.attempts = 0)
(* mutant: the mark follows the last item instead of accumulating *)
ScanMarkLastOnly == SettleOutcome = "success"
ScanMark == scanPending \/ SettleOutcome = "success"

Settle ==
  /\ wpc = "settle"
  /\ currentID' = NoId
  /\ outcome' = SettleOutcome
  /\ cancelled' = cancelled \ {rec.id}
  /\ scanPending' = ScanMark
  /\ wpc' = "write"
  /\ UNCHANGED <<bucket, rec, wake, scope, call, diskVars, asked, countVars>>

(* finish and retryOrFail put the worker's own copy back, whatever the     *)
(* bucket holds under that id by now.  A failed Put is only logged.        *)
Put(row) == store' = [store EXCEPT ![rec.id] = row] /\ UNCHANGED faults

Done(status) == [status |-> status, attempts |-> rec.attempts, next |-> "none"]
RetryRow == [status |-> "queued", attempts |-> rec.attempts + 1, next |-> "later"]
ExhaustedRow == [status |-> "failed", attempts |-> rec.attempts + 1, next |-> "none"]
(* mutant: compares before counting the attempt that just failed *)
LastAttemptOffByOne == rec.attempts >= MaxAttempts
LastAttempt == rec.attempts + 1 >= MaxAttempts

Write ==
  /\ wpc = "write"
  /\ \/ outcome = "success" /\ Put(Done("completed"))
     \/ outcome = "cancelled" /\ Put(Done("cancelled"))
     \/ outcome = "malformed" /\ Put(Done("failed"))
     \/ outcome = "failed" /\ LastAttempt /\ Put(ExhaustedRow)
     \/ outcome = "failed" /\ ~LastAttempt /\ Put(RetryRow)
     \/ WriteFails
  /\ rec' = NoRec /\ outcome' = "none" /\ wpc' = "claim"
  /\ UNCHANGED <<seq, currentID, cancelled, scanPending, wake, scope, call,
                 diskVars, asked, calls, crashes>>

(* flushScan clears the mark first and triggers the scan afterwards.       *)
FlushScan ==
  /\ wpc = "drained"
  /\ scanPending' = FALSE
  /\ wpc' = IF scanPending THEN "scan" ELSE "idle"
  /\ UNCHANGED <<bucket, rec, outcome, currentID, cancelled, wake, scope, call,
                 diskVars, asked, countVars>>

TriggerScan ==
  /\ wpc = "scan" /\ wpc' = "idle"
  /\ \/ unscanned' = {} /\ UNCHANGED faults
     \/ faults < MaxFaults /\ faults' = faults + 1 /\ UNCHANGED unscanned
  /\ UNCHANGED <<bucket, rec, outcome, currentID, cancelled, scanPending, wake,
                 scope, call, landed, asked, calls, crashes>>

WakeUp ==
  /\ wpc = "idle" /\ wake
  /\ wake' = FALSE /\ wpc' = "claim"
  /\ UNCHANGED <<bucket, rec, outcome, currentID, cancelled, scanPending,
                 scope, call, diskVars, asked, countVars>>

IdleTick ==
  /\ wpc = "idle" /\ wpc' = "claim"
  /\ UNCHANGED <<bucket, rec, outcome, currentID, cancelled, scanPending, wake,
                 scope, call, diskVars, asked, countVars>>

-----------------------------------------------------------------------------
(* The RPC handlers.  Enter begins a call; the last step of a handler      *)
(* returns it to NoCall.                                                   *)

Enter(c, method, pc, id, row, list) ==
  /\ method \in Methods /\ call[c].pc = "idle" /\ calls < MaxCalls
  /\ calls' = calls + 1
  /\ call' = [call EXCEPT ![c] = [pc |-> pc, id |-> id, row |-> row,
                                  list |-> list]]

Leave(c) == call' = [call EXCEPT ![c] = NoCall]
Goto(c, pc) == call' = [call EXCEPT ![c] = [pc |-> pc, id |-> call[c].id,
                          row |-> call[c].row, list |-> call[c].list]]
At(c, pc) == call[c].pc = pc

(* The channel has one slot: a nudge while the worker is busy is kept.     *)
(* mutant: an unbuffered channel drops it *)
NudgeUnbuffered == wake' = (wake \/ wpc = "idle")
Nudge == wake' = TRUE

(* AppendQueueRecord: the next sequence number becomes the id.             *)
Append ==
  /\ seq < MaxItems
  /\ seq' = seq + 1
  /\ store' = [store EXCEPT ![seq + 1] = NewRow]

EnqueueFirst(c) ==
  /\ Enter(c, "enqueue", "append", NoId, NoRow, {})
  /\ Append
  /\ UNCHANGED <<workerVars, cancelled, wake, diskVars, asked, crashes, faults>>

EnqueueMore(c) ==
  /\ At(c, "append")
  /\ Append
  /\ UNCHANGED <<workerVars, cancelled, wake, call, diskVars, asked, countVars>>

(* The loop is over: nudge the worker and return the ids.                  *)
EnqueueDone(c) ==
  /\ At(c, "append") /\ Leave(c)
  /\ Nudge
  /\ UNCHANGED <<bucket, workerVars, cancelled, diskVars, asked, countVars>>

(* A later request of the batch could not be stored: the ids so far are    *)
(* returned with the error and nobody is nudged.                           *)
EnqueueFails(c) ==
  /\ At(c, "append") /\ Leave(c)
  /\ faults < MaxFaults /\ faults' = faults + 1
  /\ UNCHANGED <<bucket, workerVars, cancelled, wake, diskVars, asked, calls,
                 crashes>>

(* RetryQueueItem returns at once for an unknown, queued or downloading id.*)
RetryGet(c, i) ==
  /\ store[i].status \in Finished
  /\ Enter(c, "retry", "retry", i, store[i], {})
  /\ UNCHANGED <<bucket, workerVars, cancelled, wake, diskVars, asked, crashes,
                 faults>>

Cancelling(i) == \E d \in Clients : call[d].id = i /\ call[d].pc \in {"flag", "stop", "cancel"}

RetryPut(c) ==
  /\ At(c, "retry")
  /\ LET i == call[c].id IN
       \/ /\ store' = [store EXCEPT ![i] = NewRow]
          /\ asked' = [asked EXCEPT ![i] = IF Cancelling(i) THEN "asked" ELSE "no"]
          /\ Goto(c, "nudge") /\ UNCHANGED faults
       \/ WriteFails /\ Leave(c) /\ UNCHANGED asked
  /\ UNCHANGED <<seq, workerVars, cancelled, wake, diskVars, calls, crashes>>

RetryNudge(c) ==
  /\ At(c, "nudge") /\ Leave(c)
  /\ Nudge
  /\ UNCHANGED <<bucket, workerVars, cancelled, diskVars, asked, countVars>>

(* CancelQueueItem returns at once for an unknown or a finished record.    *)
CancelGet(c, i) ==
  /\ store[i].status \in {"queued", "downloading"}
  /\ Enter(c, "cancel", "flag", i, store[i], {})
  /\ asked' = [asked EXCEPT ![i] = IF @ = "no" THEN "asked" ELSE @]
  /\ UNCHANGED <<bucket, workerVars, cancelled, wake, diskVars, crashes, faults>>

(* mutant: flags whatever is current *)
FlaggedCurrent(c) == currentID
Flagged(c) == call[c].id

CancelFlag(c) ==
  /\ At(c, "flag")
  /\ LET i == call[c].id IN
       /\ cancelled' = cancelled \cup {Flagged(c)}
       /\ Goto(c, IF currentID = i THEN "stop" ELSE "cancel")
       /\ asked' = [asked EXCEPT ![i] = IF currentID = i THEN "current" ELSE @]
  /\ UNCHANGED <<bucket, workerVars, wake, diskVars, countVars>>

(* ForceStopActiveDownloads: stops whatever is in the shared scope by now. *)
StopScope == scope' = IF scope = "live" THEN "stopped" ELSE scope

CancelStop(c) ==
  /\ At(c, "stop") /\ Leave(c)
  /\ StopScope
  /\ UNCHANGED <<bucket, wpc, rec, outcome, currentID, scanPending, cancelled,
                 wake, diskVars, asked, countVars>>

(* Not the current one: the copy read in CancelGet goes back as cancelled. *)
CancelPut(c) ==
  /\ At(c, "cancel") /\ Leave(c)
  /\ \/ /\ store' = [store EXCEPT ![call[c].id] = Marked(call[c].row, "cancelled")]
        /\ UNCHANGED faults
     \/ WriteFails
  /\ UNCHANGED <<seq, workerVars, cancelled, wake, diskVars, asked, calls,
                 crashes>>

(* DeleteFinishedQueueRecords: list in one transaction, delete in another. *)
ClearList(c) ==
  /\ Enter(c, "clear", "clear", NoId, NoRow,
           {i \in Ids : store[i].status \in Finished})
  /\ UNCHANGED <<bucket, workerVars, cancelled, wake, diskVars, asked, crashes,
                 faults>>

ClearDelete(c) ==
  /\ At(c, "clear") /\ Leave(c)
  /\ \/ /\ store' = [i \in Ids |-> IF i \in call[c].list THEN NoRow ELSE store[i]]
        /\ UNCHANGED faults
     \/ WriteFails
  /\ UNCHANGED <<seq, workerVars, cancelled, wake, diskVars, asked, calls,
                 crashes>>

(* ForceStopDownloads, the stop button of the bundled web page.            *)
ForceStop(c) ==
  /\ Enter(c, "forcestop", "idle", NoId, NoRow, {})
  /\ StopScope
  /\ asked' = [i \in Ids |-> IF i = currentID /\ asked[i] = "no" THEN "asked" ELSE asked[i]]
  /\ UNCHANGED <<bucket, wpc, rec, outcome, currentID, scanPending, cancelled,
                 wake, diskVars, crashes, faults>>

-----------------------------------------------------------------------------
(* The clock passes a record's NextAttemptAt (only queued records read it).*)
BackoffElapses(i) ==
  /\ store[i].status = "queued" /\ store[i].next = "later"
  /\ store' = [store EXCEPT ![i] = [status |-> "queued", attempts |-> store[i].attempts,
                                    next |-> "past"]]
  /\ UNCHANGED <<seq, workerVars, cancelled, wake, call, diskVars, asked,
                 countVars>>

(* startDownloadWorker after a crash: ResetInterruptedQueueRecords puts    *)
(* what was downloading back, its attempts kept; a failure is only logged. *)
Requeued(row) == [status |-> "queued", attempts |-> row.attempts, next |-> "none"]
(* mutant: the worker starts without resetting *)
ResetNothing == store
ResetInterrupted ==
  [i \in Ids |-> IF store[i].status = "downloading" THEN Requeued(store[i])
                 ELSE store[i]]

Restart ==
  /\ crashes < MaxCrashes /\ crashes' = crashes + 1
  /\ \/ store' = ResetInterrupted /\ UNCHANGED faults
     \/ WriteFails
  /\ wpc' = "claim" /\ rec' = NoRec /\ outcome' = "none"
  /\ currentID' = NoId /\ cancelled' = {} /\ scanPending' = FALSE
  /\ wake' = FALSE /\ scope' = "none"
  /\ call' = [c \in Clients |-> NoCall]
  /\ asked' = [i \in Ids |-> IF asked[i] = "current" THEN "asked" ELSE asked[i]]
  /\ UNCHANGED <<seq, diskVars, calls>>

Worker ==
  \/ Claim \/ ClaimNothing \/ StartMalformed \/ Start \/ Drop \/ Refuse \/ BeginScope
  \/ FetchReturns \/ FetchChecked \/ PostReturns \/ Settle \/ Write
  \/ FlushScan \/ TriggerScan \/ WakeUp

NewCall(c) ==
  \/ EnqueueFirst(c) \/ ClearList(c) \/ ForceStop(c)
  \/ \E i \in Ids : RetryGet(c, i) \/ CancelGet(c, i)

Handler(c) ==
  \/ EnqueueMore(c) \/ EnqueueDone(c) \/ EnqueueFails(c)
  \/ RetryPut(c) \/ RetryNudge(c)
  \/ CancelFlag(c) \/ CancelStop(c) \/ CancelPut(c)
  \/ ClearDelete(c)

Next ==
  \/ Worker
  \/ IdleTick
  \/ \E c \in Clients : NewCall(c) \/ Handler(c)
  \/ \E i \in Ids : BackoffElapses(i)
  \/ Restart

Spec == Init /\ [][Next]_vars

(* The goroutines that run keep running, the idle ticker ticks and time    *)
(* passes; nobody has to make a call, and nothing has to crash.            *)
Fairness ==
  /\ WF_vars(Worker)
  /\ WF_vars(IdleTick)
  /\ \A c \in Clients : WF_vars(Handler(c))
  /\ \A i \in Ids : WF_vars(BackoffElapses(i))

FairSpec == Spec /\ Fairness
-----------------------------------------------------------------------------
(* The type invariant: every variable of the queue keeps its shape.        *)
TypeOK ==
  /\ store \in [Ids -> Row] /\ seq \in 0 .. MaxItems
  /\ wpc \in WorkerPCs /\ outcome \in Outcomes
  /\ rec \in [id : Ids \cup {NoId}, attempts : Nat]
  /\ currentID \in Ids \cup {NoId} /\ cancelled \subseteq Ids
  /\ scanPending \in BOOLEAN /\ wake \in BOOLEAN
  /\ scope \in {"none", "live", "stopped"}
  /\ call \in [Clients -> Call]
  /\ landed \subseteq Ids /\ unscanned \subseteq Ids
  /\ asked \in [Ids -> {"no", "asked", "current"}]
  /\ calls \in Nat /\ crashes \in Nat /\ faults \in Nat

(* Nothing is stranded (queue.go:57): while the process runs and the       *)
(* bucket takes its writes, the only record marked "downloading" is the    *)
(* one the worker holds, whatever stale copies the handlers put back.      *)
NothingStranded ==
  faults = 0 =>
    \A i \in Ids : store[i].status = "downloading" =>
      i = rec.id /\ wpc \in Processing \cup {"start", "write"}

(* And when it refuses some, each refusal strands at most one record until *)
(* the next restart, the one it was about (queue.go:57, 179-181, 191-193). *)
StrandedOnePerFault ==
  Cardinality({i \in Ids : /\ store[i].status = "downloading"
                           /\ ~ (i = rec.id /\ wpc \in Processing \cup {"start", "write"})})
    <= faults

(* A record that can still be downloaded has attempts left, and one that   *)
(* failed used them all or never could be read (queue.go:164-183).         *)
AttemptsBudget ==
  \A i \in Ids :
    /\ store[i].status \in {"queued", "downloading"} => store[i].attempts < MaxAttempts
    /\ store[i].status = "failed" => store[i].attempts = MaxAttempts \/ i \in Malformed

(* No lost wake-up (queue.go:71-92): the worker never sits idle with a     *)
(* record that was put on the queue by a client and may be claimed, unless *)
(* its wake slot is full or the handler that fills it is still running.    *)
NoMissedWakeup ==
  faults = 0 /\ wpc = "idle" /\ (\E i \in Ids : store[i].status = "queued" /\ store[i].next = "none")
    => wake \/ \E c \in Clients : call[c].pc \in {"append", "nudge"}

(* A completed record has its file, and Navidrome has been told or will be *)
(* (queue.go:85, 137-147): the mark is set before the record is finished   *)
(* and taken back only by the flush that goes on to trigger the scan.      *)
CompletedIsScanned ==
  \A i \in Ids : store[i].status = "completed" =>
    /\ i \in landed
    /\ i \in unscanned /\ crashes = 0 /\ faults = 0 => scanPending \/ wpc = "scan"

(* A cancellation accepted while its item was the current download wins,   *)
(* wherever the download was and even if nothing could be stopped any more:*)
(* in that life of the process the record never turns completed            *)
(* (queue.go:124-133, 452-459).                                            *)
CancelOfCurrentWins ==
  faults = 0 => \A i \in Ids : asked[i] = "current" => store[i].status # "completed"

(* Every record on the queue is finished (or cleared) in the end, through  *)
(* retries, cancellations and restarts (queue.go:320-321).                 *)
EveryItemSettles ==
  \A i \in Ids : store[i].status \in {"queued", "downloading"}
                   ~> store[i].status \in Finished \cup {"absent"}

(* Every completed file is in the end part of a triggered scan, unless the *)
(* process stops before (queue.go:80-92, 199-223).                         *)
CompletedGetsScanned ==
  \A i \in Ids :
    (store[i].status = "completed" /\ i \in unscanned) ~> (i \notin unscanned \/ crashes > 0)

-----------------------------------------------------------------------------
(* The inductive invariant: the safety properties above and what they rest *)
(* on.                                                                     *)

(* Ids above the sequence number are untouched, and nobody holds one.      *)
IdsInv ==
  /\ \A i \in Ids : i > seq => store[i].status = "absent" /\ asked[i] = "no"
  /\ rec.id <= seq
  /\ \A c \in Clients : call[c].id <= seq
  /\ \A c \in Clients : call[c].pc \in {"retry", "flag", "stop", "cancel"} => call[c].id \in Ids

(* The worker's variables against its place in the code.                   *)
WorkerInv ==
  /\ wpc \in {"claim", "drained", "scan", "idle"} <=> rec.id = NoId
  /\ currentID = IF wpc \in Processing THEN rec.id ELSE NoId
  /\ wpc \notin {"settle", "write"} => outcome = "none"
  /\ wpc = "settle" => outcome \in {"success", "failed", "cancelled"}
  /\ outcome = "malformed" => rec.id \in Malformed
  /\ rec.id # NoId => rec.attempts < MaxAttempts

(* A successful outcome has its file and, once settled, its scan mark; and *)
(* nobody but the worker completes the record it holds.                    *)
LandingInv ==
  /\ outcome = "success" => rec.id \in landed
  /\ outcome = "success" /\ wpc = "write" => scanPending
  /\ rec.id # NoId => store[rec.id].status # "completed"

(* From the empty claim until the worker is woken, a claimable record has  *)
(* a nudge stored or coming.                                               *)
WakeupInv ==
  faults = 0 /\ wpc \in {"drained", "scan", "idle"}
    /\ (\E i \in Ids : store[i].status = "queued" /\ store[i].next = "none")
    => wake \/ \E c \in Clients : call[c].pc \in {"append", "nudge"}

(* A cancellation of the current item is either still to be read by the    *)
(* worker, or read, or written; and while it is written the worker does not *)
(* hold the item again.                                                    *)
CancelInv ==
  faults = 0 => \A i \in Ids : asked[i] = "current" =>
    \/ rec.id = i /\ wpc \in Processing \ {"drop"} /\ i \in cancelled
    \/ rec.id = i /\ wpc = "drop"
    \/ rec.id = i /\ wpc = "write" /\ outcome = "cancelled"
    \/ rec.id # i /\ store[i].status \in {"cancelled", "failed", "absent"}

IInv ==
  /\ TypeOK /\ IdsInv /\ WorkerInv /\ LandingInv /\ WakeupInv /\ CancelInv
  /\ NothingStranded /\ AttemptsBudget /\ CompletedIsScanned

-----------------------------------------------------------------------------
(* The detailed queue implements the lifecycle when no CancelQueueItem runs *)
(* and calls do not overlap (queue.go:15-28); a job that failed an attempt  *)
(* is "retrying" until it is claimed again.                                 *)
Lifecycle == INSTANCE QueueLifecycle WITH
  job <- [i \in Ids |-> IF store[i].status = "queued" /\ store[i].next # "none"
                        THEN "retrying" ELSE store[i].status],
  last <- seq
LifecycleSpec == Lifecycle!Spec

-----------------------------------------------------------------------------
(* What the repository says and the code does not do.                      *)

(* "Anything queued or downloading is left alone" by ClearQueue            *)
(* (queue.go:471-472).                                                     *)
ClearLeavesLiveWork ==
  [][\A c \in Clients, i \in Ids :
       ClearDelete(c) /\ store[i].status \in {"queued", "downloading"}
         => store'[i] = store[i]]_vars

(* RetryQueueItem "puts a failed or cancelled item back on the queue"      *)
(* (queue.go:405): the worker drops it unseen only if its cancellation was *)
(* asked for after that.                                                   *)
RetryIsHonoured ==
  [][wpc = "start" /\ wpc' = "drop" => asked[rec.id] # "no"]_vars
=============================================================================
