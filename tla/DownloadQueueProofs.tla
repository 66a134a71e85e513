------------------------ MODULE DownloadQueueProofs ------------------------
(***************************************************************************)
(* Proofs about DownloadQueue, for every number of clients, records,       *)
(* attempts, calls, restarts and failed writes.                            *)
(***************************************************************************)
EXTENDS DownloadQueue, FiniteSetTheorems, TLAPS

(* What the record constructors build is a record.                         *)
LEMMA RowFacts ==
  /\ NoRow \in Row /\ NewRow \in Row
  /\ \A r \in Row : r.status \in Statuses /\ r.attempts \in Nat
  /\ \A r \in Row, s \in Statuses : Marked(r, s) \in Row
  /\ \A n \in Nat, s \in Statuses, x \in {"none", "later", "past"} :
       [status |-> s, attempts |-> n, next |-> x] \in Row
BY DEF Row, NoRow, NewRow, Marked, Statuses, Finished

(* What a handler's call record is made of.                                *)
LEMMA CallFacts ==
  /\ NoCall \in Call
  /\ \A k \in Call : /\ k.pc \in CallPCs /\ k.id \in Ids \cup {NoId}
                       /\ k.row \in Row /\ k.list \in SUBSET Ids
  /\ \A p \in CallPCs, i \in Ids \cup {NoId}, r \in Row, l \in SUBSET Ids :
       [pc |-> p, id |-> i, row |-> r, list |-> l] \in Call
BY RowFacts DEF Call, NoCall, CallPCs

(* Initially nothing is on the queue and the worker holds nothing.         *)
LEMMA InitIInv == Init => IInv
<1> SUFFICES ASSUME Init PROVE IInv
  OBVIOUS
<1>1. TypeOK
  <2>1. store \in [Ids -> Row] /\ call \in [Clients -> Call]
    BY RowFacts, CallFacts DEF Init
  <2>2. seq \in 0 .. MaxItems /\ rec \in [id : Ids \cup {NoId}, attempts : Nat]
    BY QueueAssumption DEF Init, NoRec
  <2>3. wpc \in WorkerPCs /\ outcome \in Outcomes /\ scope \in {"none", "live", "stopped"}
    BY DEF Init, WorkerPCs, Outcomes
  <2>4. scanPending \in BOOLEAN /\ wake \in BOOLEAN
    BY DEF Init
  <2>5. currentID \in Ids \cup {NoId} /\ cancelled \subseteq Ids
    BY DEF Init
  <2>6. landed \subseteq Ids /\ unscanned \subseteq Ids /\ asked \in [Ids -> {"no", "asked", "current"}]
    BY DEF Init
  <2>7. calls \in Nat /\ crashes \in Nat /\ faults \in Nat
    BY DEF Init
  <2> QED
    BY <2>1, <2>2, <2>3, <2>4, <2>5, <2>6, <2>7 DEF TypeOK
<1>2. IdsInv
  BY QueueAssumption DEF Init, IdsInv, NoRow, NoRec, NoCall, Ids, NoId
<1>3. WorkerInv /\ LandingInv /\ WakeupInv /\ CancelInv
  BY DEF Init, WorkerInv, LandingInv, WakeupInv, CancelInv, Processing, NoRec, NoRow
<1>4. NothingStranded /\ AttemptsBudget /\ CompletedIsScanned
  BY DEF Init, NothingStranded, AttemptsBudget, CompletedIsScanned, NoRow
<1> QED
  BY <1>1, <1>2, <1>3, <1>4 DEF IInv

(* While the worker is past its claim it holds an id of the bucket.        *)
LEMMA HeldId == TypeOK /\ WorkerInv /\ wpc \notin {"claim", "drained", "scan", "idle"} => rec.id \in Ids
BY DEF TypeOK, WorkerInv

(* Every step keeps every variable in its type.                            *)
LEMMA TypeStep == TypeOK /\ IdsInv /\ WorkerInv /\ [Next]_vars => TypeOK'
<1> SUFFICES ASSUME TypeOK, IdsInv, WorkerInv, [Next]_vars PROVE TypeOK'
  OBVIOUS
<1> USE QueueAssumption DEF TypeOK, bucket, workerVars, diskVars, countVars
<1>1. CASE Worker
  <2>1. CASE Claim
    <3> PICK i \in Ids :
             /\ store' = [store EXCEPT ![i] = Marked(store[i], "downloading")] \/ UNCHANGED store
             /\ rec' = [id |-> i, attempts |-> store[i].attempts]
      BY <2>1 DEF Claim, WriteFails
    <3>1. Marked(store[i], "downloading") \in Row /\ store[i].attempts \in Nat
      BY RowFacts DEF Statuses
    <3>2. store' \in [Ids -> Row] /\ rec' \in [id : Ids \cup {NoId}, attempts : Nat]
      BY <3>1
    <3>3. faults' \in Nat /\ wpc' \in WorkerPCs
      BY <2>1 DEF Claim, WriteFails, WorkerPCs
    <3> QED
      BY <2>1, <3>2, <3>3 DEF Claim
  <2>2. CASE ClaimNothing
    BY <2>2 DEF ClaimNothing, WriteFails, WorkerPCs
  <2>3. CASE StartMalformed
    BY <2>3 DEF StartMalformed, WorkerPCs, Outcomes
  <2>4. CASE Start
    BY <2>4 DEF Start, WorkerPCs
  <2>5. CASE Drop
    BY <2>5 DEF Drop, WorkerPCs, Outcomes
  <2>6. CASE Refuse
    BY <2>6 DEF Refuse, WorkerPCs, Outcomes
  <2>7. CASE BeginScope
    BY <2>7 DEF BeginScope, WorkerPCs
  <2>8. CASE FetchReturns
    <3>1. rec.id \in Ids
      BY <2>8, HeldId DEF FetchReturns
    <3> QED
      BY <2>8, <3>1 DEF FetchReturns, Return, Keep, WorkerPCs, Outcomes
  <2>9. CASE FetchChecked
    BY <2>9 DEF FetchChecked, WorkerPCs
  <2>10. CASE PostReturns
    <3>1. rec.id \in Ids
      BY <2>10, HeldId DEF PostReturns
    <3> QED
      BY <2>10, <3>1 DEF PostReturns, Return, Keep, WorkerPCs, Outcomes
  <2>11. CASE Settle
    BY <2>11 DEF Settle, SettleOutcome, ScanMark, WorkerPCs, Outcomes
  <2>12. CASE Write
    <3>1. rec.id \in Ids
      BY <2>12, HeldId DEF Write
    <3>2. \A s \in Statuses : Done(s) \in Row
      BY RowFacts DEF Done
    <3>3. RetryRow \in Row /\ ExhaustedRow \in Row
      BY DEF RetryRow, ExhaustedRow, Row, Statuses, Finished
    <3>4. store' \in [Ids -> Row] /\ faults' \in Nat
      BY <2>12, <3>1, <3>2, <3>3 DEF Write, Put, WriteFails, Statuses, Finished
    <3>5. rec' \in [id : Ids \cup {NoId}, attempts : Nat]
      BY <2>12 DEF Write, NoRec
    <3>6. wpc' \in WorkerPCs /\ outcome' \in Outcomes
      BY <2>12 DEF Write, WorkerPCs, Outcomes
    <3> QED
      BY <2>12, <3>4, <3>5, <3>6 DEF Write
  <2>13. CASE FlushScan
    BY <2>13 DEF FlushScan, WorkerPCs
  <2>14. CASE TriggerScan
    BY <2>14 DEF TriggerScan, WorkerPCs
  <2>15. CASE WakeUp
    BY <2>15 DEF WakeUp, WorkerPCs
  <2> QED
    BY <1>1, <2>1, <2>2, <2>3, <2>4, <2>5, <2>6, <2>7, <2>8, <2>9, <2>10, <2>11, <2>12, <2>13, <2>14, <2>15 DEF Worker
<1>2. CASE IdleTick
  BY <1>2 DEF IdleTick, WorkerPCs
<1>3. ASSUME NEW c \in Clients, NewCall(c) PROVE TypeOK'
  <2>1. CASE EnqueueFirst(c)
    <3>1. seq + 1 \in Ids /\ seq' \in 0 .. MaxItems
      BY <2>1 DEF EnqueueFirst, Append, Ids
    <3>2. store' \in [Ids -> Row]
      BY <2>1, <3>1, RowFacts DEF EnqueueFirst, Append
    <3>3. [pc |-> "append", id |-> NoId, row |-> NoRow, list |-> {}] \in Call
      BY RowFacts DEF Call, CallPCs
    <3>4. call' \in [Clients -> Call] /\ calls' \in Nat
      BY <2>1, <3>3 DEF EnqueueFirst, Enter
    <3> QED
      BY <2>1, <3>1, <3>2, <3>4 DEF EnqueueFirst
  <2>2. CASE ClearList(c)
    <3>1. {i \in Ids : store[i].status \in Finished} \in SUBSET Ids
      OBVIOUS
    <3>2. [pc |-> "clear", id |-> NoId, row |-> NoRow,
           list |-> {i \in Ids : store[i].status \in Finished}] \in Call
      BY <3>1, RowFacts DEF Call, CallPCs
    <3>3. call' \in [Clients -> Call] /\ calls' \in Nat
      BY <2>2, <3>2 DEF ClearList, Enter
    <3> QED
      BY <2>2, <3>3 DEF ClearList
  <2>3. CASE ForceStop(c)
    <3>1. [pc |-> "idle", id |-> NoId, row |-> NoRow, list |-> {}] \in Call
      BY RowFacts DEF Call, CallPCs
    <3>2. call' \in [Clients -> Call] /\ calls' \in Nat
      BY <2>3, <3>1 DEF ForceStop, Enter
    <3>3. asked' \in [Ids -> {"no", "asked", "current"}]
      BY <2>3 DEF ForceStop
    <3>4. scope' \in {"none", "live", "stopped"}
      BY <2>3 DEF ForceStop, StopScope
    <3> QED
      BY <2>3, <3>2, <3>3, <3>4 DEF ForceStop
  <2>4. ASSUME NEW i \in Ids, RetryGet(c, i) PROVE TypeOK'
    <3>1. [pc |-> "retry", id |-> i, row |-> store[i], list |-> {}] \in Call
      BY DEF Call, CallPCs
    <3>2. call' \in [Clients -> Call] /\ calls' \in Nat
      BY <2>4, <3>1 DEF RetryGet, Enter
    <3> QED
      BY <2>4, <3>2 DEF RetryGet
  <2>5. ASSUME NEW i \in Ids, CancelGet(c, i) PROVE TypeOK'
    <3>1. [pc |-> "flag", id |-> i, row |-> store[i], list |-> {}] \in Call
      BY DEF Call, CallPCs
    <3>2. call' \in [Clients -> Call] /\ calls' \in Nat
      BY <2>5, <3>1 DEF CancelGet, Enter
    <3>3. asked' \in [Ids -> {"no", "asked", "current"}]
      BY <2>5 DEF CancelGet
    <3> QED
      BY <2>5, <3>2, <3>3 DEF CancelGet
  <2> QED
    BY <1>3, <2>1, <2>2, <2>3, <2>4, <2>5 DEF NewCall
<1>4. ASSUME NEW c \in Clients, Handler(c) PROVE TypeOK'
  <2> HIDE QueueAssumption
  <2>1. CASE EnqueueMore(c)
    <3>1. seq + 1 \in Ids /\ seq' \in 0 .. MaxItems
      BY <2>1, QueueAssumption DEF EnqueueMore, Append, Ids
    <3>2. store' \in [Ids -> Row]
      BY <2>1, <3>1, RowFacts DEF EnqueueMore, Append
    <3> QED
      BY <2>1, <3>1, <3>2 DEF EnqueueMore
  <2>2. CASE EnqueueDone(c)
    BY <2>2, CallFacts DEF EnqueueDone, Nudge, Leave
  <2>3. CASE EnqueueFails(c)
    BY <2>3, CallFacts DEF EnqueueFails, Leave
  <2>4. CASE RetryPut(c)
    <3>1. call[c].id \in Ids
      BY <2>4 DEF RetryPut, IdsInv, At
    <3>2. (store' = [store EXCEPT ![call[c].id] = NewRow] /\ UNCHANGED faults) \/ WriteFails
      BY <2>4 DEF RetryPut
    <3>6. NewRow \in Row
      BY RowFacts
    <3>7. store' \in [Ids -> Row] /\ faults' \in Nat
      BY <3>1, <3>2, <3>6 DEF WriteFails
    <3>3. asked' \in [Ids -> {"no", "asked", "current"}]
      BY <2>4 DEF RetryPut
    <3>4. [pc |-> "nudge", id |-> call[c].id, row |-> call[c].row, list |-> call[c].list] \in Call
      BY DEF Call, CallPCs
    <3>5. call' \in [Clients -> Call]
      BY <2>4, <3>4, CallFacts DEF RetryPut, Goto, Leave
    <3> QED
      BY <2>4, <3>3, <3>5, <3>7 DEF RetryPut
  <2>5. CASE RetryNudge(c)
    BY <2>5, CallFacts DEF RetryNudge, Nudge, Leave
  <2>6. CASE CancelFlag(c)
    <3>1. call[c].id \in Ids
      BY <2>6 DEF CancelFlag, IdsInv, At
    <3>2. \A p \in {"stop", "cancel"} :
            [pc |-> p, id |-> call[c].id, row |-> call[c].row, list |-> call[c].list] \in Call
      BY DEF Call, CallPCs
    <3>3. call' \in [Clients -> Call]
      BY <2>6, <3>2 DEF CancelFlag, Goto
    <3>4. asked' \in [Ids -> {"no", "asked", "current"}] /\ cancelled' \subseteq Ids
      BY <2>6, <3>1 DEF CancelFlag, Flagged
    <3> QED
      BY <2>6, <3>3, <3>4 DEF CancelFlag
  <2>7. CASE CancelStop(c)
    BY <2>7, CallFacts DEF CancelStop, StopScope, Leave
  <2>8. CASE CancelPut(c)
    <3>1. call[c].id \in Ids
      BY <2>8 DEF CancelPut, IdsInv, At
    <3>2. Marked(call[c].row, "cancelled") \in Row
      BY CallFacts, RowFacts DEF Statuses, Finished
    <3>3. store' \in [Ids -> Row] /\ faults' \in Nat
      BY <2>8, <3>1, <3>2 DEF CancelPut, WriteFails
    <3>4. call' \in [Clients -> Call]
      BY <2>8, CallFacts DEF CancelPut, Leave
    <3> QED
      BY <2>8, <3>3, <3>4 DEF CancelPut
  <2>9. CASE ClearDelete(c)
    <3>1. store' \in [Ids -> Row] /\ faults' \in Nat
      BY <2>9, RowFacts DEF ClearDelete, WriteFails
    <3>2. call' \in [Clients -> Call]
      BY <2>9, CallFacts DEF ClearDelete, Leave
    <3> QED
      BY <2>9, <3>1, <3>2 DEF ClearDelete
  <2> QED
    BY <1>4, <2>1, <2>2, <2>3, <2>4, <2>5, <2>6, <2>7, <2>8, <2>9 DEF Handler
<1>5. ASSUME NEW i \in Ids, BackoffElapses(i) PROVE TypeOK'
  <2>1. [status |-> "queued", attempts |-> store[i].attempts, next |-> "past"] \in Row
    BY RowFacts DEF Statuses
  <2> QED
    BY <1>5, <2>1 DEF BackoffElapses
<1>6. CASE Restart
  <2>1. \A r \in Row : Requeued(r) \in Row
    BY RowFacts DEF Requeued, Statuses
  <2>2. store' \in [Ids -> Row] /\ faults' \in Nat
    BY <1>6, <2>1 DEF Restart, ResetInterrupted, WriteFails
  <2>3. call' \in [Clients -> Call] /\ rec' \in [id : Ids \cup {NoId}, attempts : Nat]
    BY <1>6, CallFacts DEF Restart, NoRec
  <2>4. wpc' \in WorkerPCs /\ outcome' \in Outcomes /\ scope' \in {"none", "live", "stopped"}
    BY <1>6 DEF Restart, WorkerPCs, Outcomes
  <2>5. asked' \in [Ids -> {"no", "asked", "current"}]
    BY <1>6 DEF Restart
  <2>6. scanPending' \in BOOLEAN /\ wake' \in BOOLEAN
    BY <1>6 DEF Restart
  <2> QED
    BY <1>6, <2>2, <2>3, <2>4, <2>5, <2>6 DEF Restart
<1>7. CASE UNCHANGED vars
  BY <1>7 DEF vars
<1> QED
  BY <1>1, <1>2, <1>3, <1>4, <1>5, <1>6, <1>7 DEF Next

(* A handler touches neither the worker's place in the code nor its copy.  *)
LEMMA HandlerFrame ==
  ASSUME NEW c \in Clients, NewCall(c) \/ Handler(c)
  PROVE  UNCHANGED <<wpc, rec, outcome, currentID, scanPending, landed, unscanned, crashes>>
<1> USE DEF workerVars, diskVars, countVars
<1>1. CASE NewCall(c)
  BY <1>1 DEF NewCall, EnqueueFirst, ClearList, ForceStop, RetryGet, CancelGet
<1>2. CASE Handler(c)
  BY <1>2 DEF Handler, EnqueueMore, EnqueueDone, EnqueueFails, RetryPut, RetryNudge,
       CancelFlag, CancelStop, CancelPut, ClearDelete
<1> QED
  BY <1>1, <1>2

(* What a handler can put under an id: a new record, a cancelled one, or   *)
(* none.                                                                   *)
LEMMA HandlerRows ==
  ASSUME TypeOK, IdsInv, NEW c \in Clients, NewCall(c) \/ Handler(c), NEW i \in Ids
  PROVE  \/ store'[i] = store[i]
         \/ store'[i] = NewRow
         \/ store'[i].status \in {"cancelled", "absent"}
<1> USE DEF TypeOK, bucket
<1>1. CASE NewCall(c)
  <2>1. CASE EnqueueFirst(c)
    BY <2>1 DEF EnqueueFirst, Append
  <2> QED
    BY <1>1, <2>1 DEF NewCall, ClearList, ForceStop, RetryGet, CancelGet
<1>2. CASE EnqueueMore(c)
  BY <1>2 DEF EnqueueMore, Append
<1>3. CASE RetryPut(c)
  BY <1>3 DEF RetryPut, WriteFails
<1>4. CASE CancelPut(c)
  BY <1>4 DEF CancelPut, WriteFails, Marked
<1>5. CASE ClearDelete(c)
  BY <1>5 DEF ClearDelete, WriteFails, NoRow
<1> QED
  BY <1>1, <1>2, <1>3, <1>4, <1>5 DEF Handler, EnqueueDone, EnqueueFails, RetryNudge,
     CancelFlag, CancelStop

(* The worker's variables keep following its place in the code.             *)
LEMMA WorkerStep == TypeOK /\ WorkerInv /\ AttemptsBudget /\ [Next]_vars => WorkerInv'
<1> SUFFICES ASSUME TypeOK, WorkerInv, AttemptsBudget, [Next]_vars PROVE WorkerInv'
  OBVIOUS
<1> USE DEF WorkerInv, Processing, NoRec, NoId
<1>1. CASE Worker
  <2>1. CASE Claim
    <3> PICK i \in Ids : Eligible(i) /\ rec' = [id |-> i, attempts |-> store[i].attempts]
      BY <2>1 DEF Claim
    <3>1. rec'.id = i /\ i # NoId /\ rec'.attempts < MaxAttempts
      BY DEF Ids, Eligible, AttemptsBudget
    <3> QED
      BY <2>1, <3>1 DEF Claim
  <2>2. CASE ClaimNothing
    BY <2>2 DEF ClaimNothing, WriteFails
  <2>3. CASE StartMalformed
    BY <2>3 DEF StartMalformed
  <2>4. CASE Start
    BY <2>4 DEF Start
  <2>5. CASE Drop
    BY <2>5 DEF Drop
  <2>6. CASE Refuse
    BY <2>6 DEF Refuse
  <2>7. CASE BeginScope
    BY <2>7 DEF BeginScope
  <2>8. CASE FetchReturns
    BY <2>8 DEF FetchReturns, Return, Keep
  <2>9. CASE FetchChecked
    BY <2>9 DEF FetchChecked
  <2>10. CASE PostReturns
    BY <2>10 DEF PostReturns, Return, Keep
  <2>11. CASE Settle
    BY <2>11 DEF Settle, SettleOutcome, ScanMark
  <2>12. CASE Write
    BY <2>12 DEF Write
  <2>13. CASE FlushScan
    BY <2>13 DEF FlushScan
  <2>14. CASE TriggerScan
    BY <2>14 DEF TriggerScan
  <2>15. CASE WakeUp
    BY <2>15 DEF WakeUp
  <2> QED
    BY <1>1, <2>1, <2>2, <2>3, <2>4, <2>5, <2>6, <2>7, <2>8, <2>9, <2>10, <2>11, <2>12, <2>13, <2>14, <2>15 DEF Worker
<1>2. CASE IdleTick
  BY <1>2 DEF IdleTick
<1>3. ASSUME NEW c \in Clients, NewCall(c) \/ Handler(c) PROVE WorkerInv'
  BY <1>3, HandlerFrame
<1>4. ASSUME NEW i \in Ids, BackoffElapses(i) PROVE WorkerInv'
  BY <1>4 DEF BackoffElapses, workerVars
<1>5. CASE Restart
  BY <1>5 DEF Restart
<1>6. CASE UNCHANGED vars
  BY <1>6 DEF vars
<1> QED
  BY <1>1, <1>2, <1>3, <1>4, <1>5, <1>6 DEF Next

(* Ids keep being handed out by the sequence number only.                   *)
LEMMA IdsStep == TypeOK /\ IdsInv /\ WorkerInv /\ [Next]_vars => IdsInv'
<1> SUFFICES ASSUME TypeOK, IdsInv, WorkerInv, [Next]_vars PROVE IdsInv'
  OBVIOUS
<1> USE QueueAssumption DEF IdsInv, bucket, workerVars
<1>1. CASE Worker
  <2>1. CASE Claim
    <3> PICK i \in Ids :
             /\ Eligible(i)
             /\ store' = [store EXCEPT ![i] = Marked(store[i], "downloading")] \/ UNCHANGED store
             /\ rec' = [id |-> i, attempts |-> store[i].attempts]
      BY <2>1 DEF Claim, WriteFails
    <3>1. i <= seq
      BY DEF Eligible, TypeOK, Ids
    <3>2. rec'.id <= seq
      BY <3>1
    <3>3. \A j \in Ids : j > seq => store'[j] = store[j]
      BY <3>1 DEF TypeOK, Ids
    <3> QED
      BY <2>1, <3>2, <3>3 DEF Claim
  <2>2. CASE ClaimNothing
    BY <2>2 DEF ClaimNothing, WriteFails
  <2>3. CASE StartMalformed
    BY <2>3 DEF StartMalformed
  <2>4. CASE Start
    BY <2>4 DEF Start
  <2>5. CASE Drop
    BY <2>5 DEF Drop
  <2>6. CASE Refuse
    BY <2>6 DEF Refuse
  <2>7. CASE BeginScope
    BY <2>7 DEF BeginScope
  <2>8. CASE FetchReturns
    BY <2>8 DEF FetchReturns, Return, Keep
  <2>9. CASE FetchChecked
    BY <2>9 DEF FetchChecked
  <2>10. CASE PostReturns
    BY <2>10 DEF PostReturns, Return, Keep
  <2>11. CASE Settle
    BY <2>11 DEF Settle, SettleOutcome, ScanMark
  <2>12. CASE Write
    <3>1. rec.id \in Ids
      BY <2>12, HeldId DEF Write
    <3>2. \A j \in Ids : j > seq => store'[j] = store[j]
      BY <2>12, <3>1 DEF Write, Put, WriteFails, TypeOK, Ids
    <3>3. rec'.id <= seq
      BY <2>12 DEF Write, NoRec, NoId, TypeOK
    <3> QED
      BY <2>12, <3>2, <3>3 DEF Write
  <2>13. CASE FlushScan
    BY <2>13 DEF FlushScan
  <2>14. CASE TriggerScan
    BY <2>14 DEF TriggerScan
  <2>15. CASE WakeUp
    BY <2>15 DEF WakeUp
  <2> QED
    BY <1>1, <2>1, <2>2, <2>3, <2>4, <2>5, <2>6, <2>7, <2>8, <2>9, <2>10, <2>11, <2>12, <2>13, <2>14, <2>15 DEF Worker
<1>2. CASE IdleTick
  BY <1>2 DEF IdleTick
<1>3. ASSUME NEW c \in Clients, NewCall(c) PROVE IdsInv'
  <2>1. CASE EnqueueFirst(c)
    <3>1. \A j \in Ids : j > seq' => store'[j] = store[j]
      BY <2>1 DEF EnqueueFirst, Append, TypeOK, Ids
    <3>2. seq' = seq + 1 /\ rec' = rec /\ asked' = asked
      BY <2>1 DEF EnqueueFirst, Append
    <3>3. call' = [call EXCEPT ![c] = [pc |-> "append", id |-> NoId, row |-> NoRow, list |-> {}]]
      BY <2>1 DEF EnqueueFirst, Enter
    <3>4. \A d \in Clients : call'[d].id <= seq + 1
      BY <3>3 DEF TypeOK, Call, Ids, NoId
    <3>5. \A d \in Clients : call'[d].pc \in {"retry", "flag", "stop", "cancel"} => call'[d].id \in Ids
      BY <3>3 DEF TypeOK
    <3> QED
      BY <3>1, <3>2, <3>4, <3>5 DEF TypeOK, Ids, NoId
  <2>2. CASE ClearList(c)
    <3>1. \A d \in Clients : call'[d].id <= seq
      BY <2>2 DEF ClearList, Enter, TypeOK, NoId
    <3>2. \A d \in Clients : call'[d].pc \in {"retry", "flag", "stop", "cancel"} => call'[d].id \in Ids
      BY <2>2 DEF ClearList, Enter, TypeOK
    <3> QED
      BY <2>2, <3>1, <3>2 DEF ClearList
  <2>3. CASE ForceStop(c)
    <3>1. \A d \in Clients : call'[d].id <= seq
      BY <2>3 DEF ForceStop, Enter, TypeOK, NoId
    <3>2. \A d \in Clients : call'[d].pc \in {"retry", "flag", "stop", "cancel"} => call'[d].id \in Ids
      BY <2>3 DEF ForceStop, Enter, TypeOK
    <3>3. currentID <= seq
      BY DEF WorkerInv, NoId, TypeOK
    <3>4. \A i \in Ids : i > seq => asked'[i] = asked[i]
      BY <2>3, <3>3 DEF ForceStop, TypeOK, Ids, NoId
    <3> QED
      BY <2>3, <3>1, <3>2, <3>4 DEF ForceStop
  <2>4. ASSUME NEW i \in Ids, RetryGet(c, i) PROVE IdsInv'
    <3>1. i <= seq
      BY <2>4 DEF RetryGet, Finished, TypeOK, Ids
    <3>2. \A d \in Clients : call'[d].id <= seq
      BY <2>4, <3>1 DEF RetryGet, Enter, TypeOK
    <3>3. \A d \in Clients : call'[d].pc \in {"retry", "flag", "stop", "cancel"} => call'[d].id \in Ids
      BY <2>4 DEF RetryGet, Enter, TypeOK
    <3> QED
      BY <2>4, <3>2, <3>3 DEF RetryGet
  <2>5. ASSUME NEW i \in Ids, CancelGet(c, i) PROVE IdsInv'
    <3>1. i <= seq
      BY <2>5 DEF CancelGet, TypeOK, Ids
    <3>2. \A d \in Clients : call'[d].id <= seq
      BY <2>5, <3>1 DEF CancelGet, Enter, TypeOK
    <3>3. \A d \in Clients : call'[d].pc \in {"retry", "flag", "stop", "cancel"} => call'[d].id \in Ids
      BY <2>5 DEF CancelGet, Enter, TypeOK
    <3>4. \A j \in Ids : j > seq => asked'[j] = asked[j]
      BY <2>5, <3>1 DEF CancelGet, TypeOK, Ids
    <3> QED
      BY <2>5, <3>2, <3>3, <3>4 DEF CancelGet
  <2> QED
    BY <1>3, <2>1, <2>2, <2>3, <2>4, <2>5 DEF NewCall
<1>4. ASSUME NEW c \in Clients, Handler(c) PROVE IdsInv'
  <2>1. CASE EnqueueMore(c)
    <3>1. \A j \in Ids : j > seq' => store'[j] = store[j]
      BY <2>1 DEF EnqueueMore, Append, TypeOK, Ids
    <3>2. seq' = seq + 1 /\ rec' = rec /\ asked' = asked /\ call' = call
      BY <2>1 DEF EnqueueMore, Append
    <3>3. rec'.id <= seq' /\ \A d \in Clients : call'[d].id <= seq'
      BY <3>2 DEF TypeOK, Ids, NoId, Call
    <3>4. \A j \in Ids : j > seq' => j > seq
      BY <3>2 DEF TypeOK, Ids
    <3> QED
      BY <3>1, <3>2, <3>3, <3>4
  <2>2. ASSUME Leave(c) PROVE
          /\ \A d \in Clients : call'[d].id <= seq
          /\ \A d \in Clients : call'[d].pc \in {"retry", "flag", "stop", "cancel"} => call'[d].id \in Ids
    BY <2>2 DEF Leave, NoCall, TypeOK, NoId
  <2>3. CASE EnqueueDone(c)
    BY <2>3, <2>2 DEF EnqueueDone
  <2>4. CASE EnqueueFails(c)
    BY <2>4, <2>2 DEF EnqueueFails
  <2>5. CASE RetryPut(c)
    <3>1. call[c].id \in Ids /\ call[c].id <= seq
      BY <2>5 DEF RetryPut, At
    <3>2. \A j \in Ids : j > seq => store'[j] = store[j] /\ asked'[j] = asked[j]
      BY <2>5, <3>1 DEF RetryPut, WriteFails, TypeOK, Ids
    <3>3. /\ \A d \in Clients : call'[d].id <= seq
          /\ \A d \in Clients : call'[d].pc \in {"retry", "flag", "stop", "cancel"} => call'[d].id \in Ids
      BY <2>5, <2>2 DEF RetryPut, Goto, TypeOK
    <3> QED
      BY <2>5, <3>2, <3>3 DEF RetryPut
  <2>6. CASE RetryNudge(c)
    BY <2>6, <2>2 DEF RetryNudge
  <2>7. CASE CancelFlag(c)
    <3>1. call[c].id \in Ids /\ call[c].id <= seq
      BY <2>7 DEF CancelFlag, At
    <3>2. \A j \in Ids : j > seq => asked'[j] = asked[j]
      BY <2>7, <3>1 DEF CancelFlag, TypeOK, Ids
    <3>3. /\ \A d \in Clients : call'[d].id <= seq
          /\ \A d \in Clients : call'[d].pc \in {"retry", "flag", "stop", "cancel"} => call'[d].id \in Ids
      BY <2>7, <3>1 DEF CancelFlag, Goto, TypeOK
    <3> QED
      BY <2>7, <3>2, <3>3 DEF CancelFlag
  <2>8. CASE CancelStop(c)
    BY <2>8, <2>2 DEF CancelStop
  <2>9. CASE CancelPut(c)
    <3>1. call[c].id \in Ids /\ call[c].id <= seq
      BY <2>9 DEF CancelPut, At
    <3>2. \A j \in Ids : j > seq => store'[j] = store[j]
      BY <2>9, <3>1 DEF CancelPut, WriteFails, TypeOK, Ids
    <3> QED
      BY <2>9, <2>2, <3>2 DEF CancelPut
  <2>10. CASE ClearDelete(c)
    <3>1. \A j \in Ids : j > seq => store'[j].status = "absent"
      BY <2>10 DEF ClearDelete, WriteFails, NoRow
    <3> QED
      BY <2>10, <2>2, <3>1 DEF ClearDelete
  <2> QED
    BY <1>4, <2>1, <2>3, <2>4, <2>5, <2>6, <2>7, <2>8, <2>9, <2>10 DEF Handler
<1>5. ASSUME NEW i \in Ids, BackoffElapses(i) PROVE IdsInv'
  <2>1. \A j \in Ids : j > seq => store'[j] = store[j]
    BY <1>5 DEF BackoffElapses, TypeOK, Ids
  <2> QED
    BY <1>5, <2>1 DEF BackoffElapses
<1>6. CASE Restart
  <2>1. \A j \in Ids : j > seq => store'[j].status = "absent" /\ asked'[j] = "no"
    BY <1>6 DEF Restart, ResetInterrupted, WriteFails
  <2>2. rec'.id <= seq
    BY <1>6 DEF Restart, NoRec, NoId, TypeOK
  <2>3. /\ \A d \in Clients : call'[d].id <= seq
        /\ \A d \in Clients : call'[d].pc \in {"retry", "flag", "stop", "cancel"} => call'[d].id \in Ids
    BY <1>6 DEF Restart, NoCall, NoId, TypeOK
  <2> QED
    BY <1>6, <2>1, <2>2, <2>3 DEF Restart
<1>7. CASE UNCHANGED vars
  BY <1>7 DEF vars
<1> QED
  BY <1>1, <1>2, <1>3, <1>4, <1>5, <1>6, <1>7 DEF Next

(* A handler that takes a fault leaves the run with faults.                 *)
LEMMA HandlerFaults ==
  ASSUME TypeOK, NEW c \in Clients, NewCall(c) \/ Handler(c), faults' = 0
  PROVE  faults = 0
<1> USE DEF TypeOK, countVars
<1>1. CASE NewCall(c)
  BY <1>1 DEF NewCall, EnqueueFirst, ClearList, ForceStop, RetryGet, CancelGet
<1>2. CASE Handler(c)
  BY <1>2 DEF Handler, EnqueueMore, EnqueueDone, EnqueueFails, RetryPut, RetryNudge,
       CancelFlag, CancelStop, CancelPut, ClearDelete, WriteFails
<1> QED
  BY <1>1, <1>2

(* Success means a file, and only the worker completes what it holds.       *)
LEMMA LandingStep == TypeOK /\ IdsInv /\ WorkerInv /\ LandingInv /\ [Next]_vars => LandingInv'
<1> SUFFICES ASSUME TypeOK, IdsInv, WorkerInv, LandingInv, [Next]_vars PROVE LandingInv'
  OBVIOUS
<1> USE DEF LandingInv, bucket, workerVars, diskVars
<1>1. CASE Worker
  <2>1. CASE Claim
    <3> PICK i \in Ids :
             /\ Eligible(i)
             /\ store' = [store EXCEPT ![i] = Marked(store[i], "downloading")] \/ UNCHANGED store
             /\ rec' = [id |-> i, attempts |-> store[i].attempts]
      BY <2>1 DEF Claim, WriteFails
    <3>1. store'[i].status # "completed"
      BY DEF TypeOK, Eligible, Marked
    <3>2. outcome' = "none"
      BY <2>1 DEF Claim, WorkerInv
    <3> QED
      BY <3>1, <3>2
  <2>2. CASE ClaimNothing
    BY <2>2 DEF ClaimNothing, WriteFails
  <2>3. CASE StartMalformed
    BY <2>3 DEF StartMalformed
  <2>4. CASE Start
    BY <2>4 DEF Start
  <2>5. CASE Drop
    BY <2>5 DEF Drop
  <2>6. CASE Refuse
    BY <2>6 DEF Refuse
  <2>7. CASE BeginScope
    BY <2>7 DEF BeginScope
  <2>8. CASE FetchReturns
    BY <2>8 DEF FetchReturns, Return, Keep
  <2>9. CASE FetchChecked
    BY <2>9 DEF FetchChecked
  <2>10. CASE PostReturns
    BY <2>10 DEF PostReturns, Return, Keep
  <2>11. CASE Settle
    BY <2>11 DEF Settle, SettleOutcome, ScanMark
  <2>12. CASE Write
    BY <2>12 DEF Write, NoRec
  <2>13. CASE FlushScan
    BY <2>13 DEF FlushScan
  <2>14. CASE TriggerScan
    BY <2>14 DEF TriggerScan
  <2>15. CASE WakeUp
    BY <2>15 DEF WakeUp
  <2> QED
    BY <1>1, <2>1, <2>2, <2>3, <2>4, <2>5, <2>6, <2>7, <2>8, <2>9, <2>10, <2>11, <2>12, <2>13, <2>14, <2>15 DEF Worker
<1>2. CASE IdleTick
  BY <1>2 DEF IdleTick
<1>3. ASSUME NEW c \in Clients, NewCall(c) \/ Handler(c) PROVE LandingInv'
  <2>1. rec' = rec /\ outcome' = outcome /\ wpc' = wpc /\ scanPending' = scanPending /\ landed' = landed
    BY <1>3, HandlerFrame
  <2>2. rec.id # NoId => store'[rec.id].status # "completed"
    <3> SUFFICES ASSUME rec.id # NoId PROVE store'[rec.id].status # "completed"
      OBVIOUS
    <3>1. rec.id \in Ids
      BY DEF TypeOK
    <3> QED
      BY <1>3, <3>1, HandlerRows DEF NewRow
  <2> QED
    BY <2>1, <2>2
<1>4. ASSUME NEW i \in Ids, BackoffElapses(i) PROVE LandingInv'
  BY <1>4 DEF BackoffElapses, TypeOK
<1>5. CASE Restart
  BY <1>5 DEF Restart, NoRec
<1>6. CASE UNCHANGED vars
  BY <1>6 DEF vars
<1> QED
  BY <1>1, <1>2, <1>3, <1>4, <1>5, <1>6 DEF Next

(* Only the record the worker claims becomes "downloading", and its write   *)
(* ends that.                                                               *)
LEMMA StrandedStep ==
  TypeOK /\ IdsInv /\ WorkerInv /\ NothingStranded /\ [Next]_vars => NothingStranded'
<1> SUFFICES ASSUME TypeOK, IdsInv, WorkerInv, NothingStranded, [Next]_vars, faults' = 0,
                    NEW i \in Ids, store'[i].status = "downloading"
             PROVE  i = rec'.id /\ wpc' \in Processing \cup {"start", "write"}
  BY DEF NothingStranded
<1> USE DEF NothingStranded, bucket, workerVars, countVars, Processing
<1>1. CASE Worker
  <2>1. CASE Claim
    <3> PICK j \in Ids :
             /\ \/ store' = [store EXCEPT ![j] = Marked(store[j], "downloading")] /\ UNCHANGED faults
                \/ WriteFails
             /\ rec' = [id |-> j, attempts |-> store[j].attempts]
      BY <2>1 DEF Claim
    <3>1. UNCHANGED faults /\ store' = [store EXCEPT ![j] = Marked(store[j], "downloading")]
      BY DEF WriteFails, TypeOK
    <3>2. i = j
      BY <2>1, <3>1 DEF Claim, TypeOK
    <3> QED
      BY <2>1, <3>2 DEF Claim
  <2>2. CASE ClaimNothing
    BY <2>2 DEF ClaimNothing, WriteFails, TypeOK
  <2>3. CASE StartMalformed
    BY <2>3 DEF StartMalformed
  <2>4. CASE Start
    BY <2>4 DEF Start
  <2>5. CASE Drop
    BY <2>5 DEF Drop
  <2>6. CASE Refuse
    BY <2>6 DEF Refuse
  <2>7. CASE BeginScope
    BY <2>7 DEF BeginScope
  <2>8. CASE FetchReturns
    BY <2>8 DEF FetchReturns, Return, Keep
  <2>9. CASE FetchChecked
    BY <2>9 DEF FetchChecked
  <2>10. CASE PostReturns
    BY <2>10 DEF PostReturns, Return, Keep
  <2>11. CASE Settle
    BY <2>11 DEF Settle, SettleOutcome, ScanMark
  <2>12. CASE Write
    <3>1. UNCHANGED faults
      BY <2>12 DEF Write, WriteFails, Put, TypeOK
    <3>2. rec.id \in Ids
      BY <2>12, HeldId DEF Write
    <3>3. store'[rec.id].status # "downloading"
      BY <2>12, <3>1, <3>2 DEF Write, WriteFails, Put, TypeOK, Done, RetryRow, ExhaustedRow
    <3>4. \A j \in Ids : j # rec.id => store'[j] = store[j]
      BY <2>12 DEF Write, WriteFails, Put, TypeOK
    <3> QED
      BY <3>1, <3>3, <3>4
  <2>13. CASE FlushScan
    BY <2>13 DEF FlushScan
  <2>14. CASE TriggerScan
    BY <2>14 DEF TriggerScan, TypeOK
  <2>15. CASE WakeUp
    BY <2>15 DEF WakeUp
  <2> QED
    BY <1>1, <2>1, <2>2, <2>3, <2>4, <2>5, <2>6, <2>7, <2>8, <2>9, <2>10, <2>11, <2>12, <2>13, <2>14, <2>15 DEF Worker
<1>2. CASE IdleTick
  BY <1>2 DEF IdleTick
<1>3. ASSUME NEW c \in Clients, NewCall(c) \/ Handler(c) PROVE i = rec'.id /\ wpc' \in Processing \cup {"start", "write"}
  <2>1. faults = 0 /\ rec' = rec /\ wpc' = wpc
    BY <1>3, HandlerFaults, HandlerFrame
  <2>2. store'[i] = store[i]
    BY <1>3, HandlerRows DEF NewRow
  <2> QED
    BY <2>1, <2>2
<1>4. ASSUME NEW j \in Ids, BackoffElapses(j) PROVE i = rec'.id /\ wpc' \in Processing \cup {"start", "write"}
  <2>1. i # j /\ store'[i] = store[i]
    BY <1>4 DEF BackoffElapses, TypeOK
  <2> QED
    BY <1>4, <2>1 DEF BackoffElapses
<1>5. CASE Restart
  <2>1. store' = ResetInterrupted
    BY <1>5 DEF Restart, WriteFails, TypeOK
  <2> QED
    BY <2>1 DEF ResetInterrupted, Requeued
<1>6. CASE UNCHANGED vars
  BY <1>6 DEF vars
<1> QED
  BY <1>1, <1>2, <1>3, <1>4, <1>5, <1>6 DEF Next

(* The attempts of a record on the queue stay below the budget, and it      *)
(* fails when they reach it.                                                *)
LEMMA BudgetStep ==
  TypeOK /\ IdsInv /\ WorkerInv /\ AttemptsBudget /\ [Next]_vars => AttemptsBudget'
<1> SUFFICES ASSUME TypeOK, IdsInv, WorkerInv, AttemptsBudget, [Next]_vars, NEW i \in Ids
             PROVE  /\ store'[i].status \in {"queued", "downloading"} => store'[i].attempts < MaxAttempts
                    /\ store'[i].status = "failed" => store'[i].attempts = MaxAttempts \/ i \in Malformed
  BY DEF AttemptsBudget
<1> DEFINE Within == /\ store'[i].status \in {"queued", "downloading"} => store'[i].attempts < MaxAttempts
                     /\ store'[i].status = "failed" => store'[i].attempts = MaxAttempts \/ i \in Malformed
<1> USE DEF bucket
<1>0. store'[i] = store[i] => Within
  BY DEF AttemptsBudget
<1>1. CASE Worker
  <2>1. CASE Claim
    <3>1. PICK j \in Ids :
             /\ Eligible(j)
             /\ store' = [store EXCEPT ![j] = Marked(store[j], "downloading")] \/ UNCHANGED store
      BY <2>1 DEF Claim, WriteFails
    <3>2. CASE store' = [store EXCEPT ![j] = Marked(store[j], "downloading")] /\ i = j
      <4>1. store'[i] = Marked(store[i], "downloading")
        BY <3>2 DEF TypeOK
      <4> QED
        BY <3>1, <3>2, <4>1 DEF Marked, Eligible, AttemptsBudget
    <3> QED
      BY <1>0, <3>1, <3>2 DEF TypeOK
  <2>2. CASE Write
    <3>1. rec.id \in Ids /\ rec.attempts < MaxAttempts /\ rec.attempts \in Nat
      BY <2>2, HeldId DEF Write, WorkerInv, TypeOK
    <3>2. CASE i # rec.id \/ UNCHANGED store
      BY <1>0, <2>2, <3>2 DEF Write, WriteFails, Put, TypeOK
    <3>3. CASE i = rec.id /\ ~UNCHANGED store
      <4>1. \/ store'[i] = Done("completed") \/ store'[i] = Done("cancelled")
            \/ outcome = "malformed" /\ store'[i] = Done("failed")
            \/ LastAttempt /\ store'[i] = ExhaustedRow
            \/ ~LastAttempt /\ store'[i] = RetryRow
        BY <2>2, <3>3 DEF Write, WriteFails, Put, TypeOK
      <4>2. outcome = "malformed" => i \in Malformed
        BY <3>3 DEF WorkerInv
      <4> QED
        BY <3>1, <4>1, <4>2, QueueAssumption DEF Done, ExhaustedRow, RetryRow, LastAttempt
    <3> QED
      BY <3>2, <3>3
  <2> QED
    BY <1>0, <1>1, <2>1, <2>2 DEF Worker, ClaimNothing, WriteFails, StartMalformed, Start, Drop, Refuse,
       BeginScope, FetchReturns, FetchChecked, PostReturns, Settle, FlushScan, TriggerScan, WakeUp
<1>2. CASE IdleTick
  BY <1>0, <1>2 DEF IdleTick
<1>3. ASSUME NEW c \in Clients, NewCall(c) \/ Handler(c) PROVE Within
  <2>1. store'[i] = NewRow => Within
    BY QueueAssumption DEF NewRow
  <2> QED
    BY <1>0, <1>3, <2>1, HandlerRows
<1>4. ASSUME NEW j \in Ids, BackoffElapses(j) PROVE Within
  <2>1. CASE i = j
    <3>1. store'[i].status = "queued" /\ store'[i].attempts = store[i].attempts /\ store[i].status = "queued"
      BY <1>4, <2>1 DEF BackoffElapses, TypeOK
    <3> QED
      BY <3>1 DEF AttemptsBudget
  <2>2. CASE i # j
    BY <1>0, <1>4, <2>2 DEF BackoffElapses, TypeOK
  <2> QED
    BY <2>1, <2>2
<1>5. CASE Restart
  <2>1. store' = ResetInterrupted \/ store' = store
    BY <1>5 DEF Restart, WriteFails
  <2>2. CASE store' = ResetInterrupted /\ store[i].status = "downloading"
    <3>1. store'[i].status = "queued" /\ store'[i].attempts = store[i].attempts
      BY <2>2 DEF ResetInterrupted, Requeued
    <3> QED
      BY <2>2, <3>1 DEF AttemptsBudget
  <2>3. CASE store' = ResetInterrupted /\ store[i].status # "downloading"
    BY <1>0, <2>3 DEF ResetInterrupted
  <2> QED
    BY <1>0, <2>1, <2>2, <2>3
<1>6. CASE UNCHANGED vars
  BY <1>0, <1>6 DEF vars
<1> QED
  BY <1>1, <1>2, <1>3, <1>4, <1>5, <1>6 DEF Next

(* Completed means landed, and the scan mark is not lost between the two.   *)
LEMMA ScannedStep ==
  TypeOK /\ IdsInv /\ WorkerInv /\ LandingInv /\ CompletedIsScanned /\ [Next]_vars => CompletedIsScanned'
<1> SUFFICES ASSUME TypeOK, IdsInv, WorkerInv, LandingInv, CompletedIsScanned, [Next]_vars,
                    NEW i \in Ids, store'[i].status = "completed"
             PROVE  /\ i \in landed'
                    /\ i \in unscanned' /\ crashes' = 0 /\ faults' = 0 => scanPending' \/ wpc' = "scan"
  BY DEF CompletedIsScanned
<1> DEFINE Scanned == /\ i \in landed'
                      /\ i \in unscanned' /\ crashes' = 0 /\ faults' = 0 => scanPending' \/ wpc' = "scan"
<1>0. store[i].status = "completed" =>
        /\ i \in landed
        /\ i \in unscanned /\ crashes = 0 /\ faults = 0 => scanPending \/ wpc = "scan"
  BY DEF CompletedIsScanned
<1> USE DEF bucket, workerVars, diskVars, countVars
<1>1. CASE Worker
  <2>1. CASE Claim
    <3>1. faults' = 0 => faults = 0
      BY <2>1 DEF Claim, WriteFails, TypeOK
    <3>2. store[i].status = "completed"
      BY <2>1 DEF Claim, WriteFails, Marked, TypeOK
    <3> QED
      BY <2>1, <1>0, <3>1, <3>2 DEF Claim
  <2>2. CASE ClaimNothing
    <3>1. faults' = 0 => faults = 0
      BY <2>2 DEF ClaimNothing, WriteFails, TypeOK
    <3>2. store' = store
      BY <2>2 DEF ClaimNothing, WriteFails
    <3> QED
      BY <2>2, <1>0, <3>1, <3>2 DEF ClaimNothing
  <2>3. CASE StartMalformed
    BY <2>3, <1>0 DEF StartMalformed
  <2>4. CASE Start
    BY <2>4, <1>0 DEF Start
  <2>5. CASE Drop
    BY <2>5, <1>0 DEF Drop
  <2>6. CASE Refuse
    BY <2>6, <1>0 DEF Refuse
  <2>7. CASE BeginScope
    BY <2>7, <1>0 DEF BeginScope
  <2>8. CASE FetchReturns
    <3>1. rec.id \in Ids /\ i # rec.id
      BY <2>8, HeldId DEF FetchReturns, LandingInv, NoId, Ids
    <3> QED
      BY <2>8, <1>0, <3>1 DEF FetchReturns, Return, Keep
  <2>9. CASE FetchChecked
    BY <2>9, <1>0 DEF FetchChecked
  <2>10. CASE PostReturns
    <3>1. rec.id \in Ids /\ i # rec.id
      BY <2>10, HeldId DEF PostReturns, LandingInv, NoId, Ids
    <3> QED
      BY <2>10, <1>0, <3>1 DEF PostReturns, Return, Keep
  <2>11. CASE Settle
    BY <2>11, <1>0 DEF Settle, SettleOutcome, ScanMark
  <2>12. CASE Write
    <3>1. rec.id \in Ids
      BY <2>12, HeldId DEF Write
    <3>2. CASE i = rec.id
      <4>1. outcome = "success"
        <5>1. store[rec.id].status # "completed"
          BY <3>1 DEF LandingInv, NoId, Ids
        <5>2. outcome # "success" => store' = store \/ store'[rec.id].status \in {"cancelled", "failed", "queued"}
          BY <2>12, <3>1 DEF Write, Put, WriteFails, Done, RetryRow, ExhaustedRow, TypeOK
        <5> QED
          BY <3>2, <5>1, <5>2
      <4>2. i \in landed /\ scanPending
        BY <2>12, <3>2, <4>1 DEF LandingInv, Write
      <4> QED
        BY <2>12, <4>2 DEF Write
    <3>3. CASE i # rec.id
      <4>1. store'[i] = store[i] /\ (faults' = 0 => faults = 0)
        BY <2>12, <3>3 DEF Write, Put, WriteFails, TypeOK
      <4> QED
        BY <2>12, <1>0, <4>1 DEF Write
    <3> QED
      BY <3>2, <3>3
  <2>13. CASE FlushScan
    BY <2>13, <1>0 DEF FlushScan
  <2>14. CASE TriggerScan
    BY <2>14, <1>0 DEF TriggerScan, TypeOK
  <2>15. CASE WakeUp
    BY <2>15, <1>0 DEF WakeUp
  <2> QED
    BY <1>1, <2>1, <2>2, <2>3, <2>4, <2>5, <2>6, <2>7, <2>8, <2>9, <2>10, <2>11, <2>12, <2>13, <2>14, <2>15 DEF Worker
<1>2. CASE IdleTick
  BY <1>0, <1>2 DEF IdleTick
<1>3. ASSUME NEW c \in Clients, NewCall(c) \/ Handler(c) PROVE Scanned
  <2>1. store[i].status = "completed"
    BY <1>3, HandlerRows DEF NewRow
  <2>2. unscanned' = unscanned
    <3> USE DEF NewCall, EnqueueFirst, ClearList, ForceStop, RetryGet, CancelGet, Handler, EnqueueMore,
          EnqueueDone, EnqueueFails, RetryPut, RetryNudge, CancelFlag, CancelStop, CancelPut, ClearDelete
    <3> QED
      BY <1>3
  <2>3. faults' = 0 => faults = 0
    BY <1>3, HandlerFaults
  <2> QED
    BY <1>0, <1>3, <2>1, <2>2, <2>3, HandlerFrame
<1>4. ASSUME NEW j \in Ids, BackoffElapses(j) PROVE Scanned
  <2>1. store[i].status = "completed"
    BY <1>4 DEF BackoffElapses, TypeOK
  <2> QED
    BY <1>0, <1>4, <2>1 DEF BackoffElapses
<1>5. CASE Restart
  <2>1. store' = ResetInterrupted \/ store' = store
    BY <1>5 DEF Restart, WriteFails
  <2>2. store[i].status = "completed"
    BY <2>1 DEF ResetInterrupted, Requeued
  <2>3. crashes' # 0
    BY <1>5 DEF Restart, TypeOK
  <2> QED
    BY <1>0, <1>5, <2>2, <2>3 DEF Restart
<1>6. CASE UNCHANGED vars
  BY <1>0, <1>6 DEF vars
<1> QED
  BY <1>1, <1>2, <1>3, <1>4, <1>5, <1>6 DEF Next

(* A record that becomes claimable while the worker drains or sleeps comes  *)
(* with a nudge.                                                            *)
LEMMA WakeupStep == TypeOK /\ WorkerInv /\ WakeupInv /\ [Next]_vars => WakeupInv'
<1> DEFINE Coming == wake \/ \E c \in Clients : call[c].pc \in {"append", "nudge"}
           Fresh(j) == store[j].status = "queued" /\ store[j].next = "none"
<1> SUFFICES ASSUME TypeOK, WorkerInv, WakeupInv, [Next]_vars, faults' = 0,
                    wpc' \in {"drained", "scan", "idle"}, NEW i \in Ids, Fresh(i)'
             PROVE  Coming'
  BY DEF WakeupInv
<1>0. faults = 0 /\ wpc \in {"drained", "scan", "idle"} /\ Fresh(i) => Coming
  BY DEF WakeupInv
<1> USE DEF bucket, workerVars, countVars
<1>1. CASE Worker
  <2>1. CASE ClaimNothing
    BY <2>1 DEF ClaimNothing, WriteFails, Eligible, TypeOK
  <2>2. CASE FlushScan
    BY <2>2, <1>0 DEF FlushScan
  <2>3. CASE TriggerScan
    <3>1. faults = 0
      BY <2>3 DEF TriggerScan, TypeOK
    <3> QED
      BY <2>3, <3>1, <1>0 DEF TriggerScan
  <2> QED
    BY <1>1, <2>1, <2>2, <2>3 DEF Worker, Claim, StartMalformed, Start, Drop, Refuse, BeginScope, FetchReturns,
       FetchChecked, PostReturns, Return, Settle, Write, WakeUp
<1>2. CASE IdleTick
  BY <1>2 DEF IdleTick
<1>3. ASSUME NEW c \in Clients, NewCall(c) \/ Handler(c) PROVE Coming'
  <2>1. faults = 0 /\ wpc' = wpc
    BY <1>3, HandlerFaults, HandlerFrame
  <2>2. ASSUME store'[i] = store[i], wake' = wake, call[c].pc \notin {"append", "nudge"},
               \A d \in Clients \ {c} : call'[d] = call[d]
        PROVE  Coming'
    BY <1>0, <2>1, <2>2
  <2>3. \A d \in Clients \ {c} : call'[d] = call[d]
    <3>1. CASE NewCall(c)
      BY <3>1 DEF NewCall, EnqueueFirst, ClearList, ForceStop, RetryGet, CancelGet, Enter, TypeOK
    <3>2. CASE Handler(c)
      BY <3>2 DEF Handler, EnqueueMore, EnqueueDone, EnqueueFails, RetryPut, RetryNudge, CancelFlag, CancelStop,
         CancelPut, ClearDelete, Leave, Goto, TypeOK
    <3> QED
      BY <1>3, <3>1, <3>2
  <2>4. CASE NewCall(c)
    <3>1. CASE EnqueueFirst(c)
      BY <3>1 DEF EnqueueFirst, Enter, TypeOK
    <3>2. CASE ~EnqueueFirst(c)
      <4>1. store' = store /\ wake' = wake /\ call[c].pc = "idle"
        BY <2>4, <3>2 DEF NewCall, ClearList, ForceStop, RetryGet, CancelGet, Enter
      <4> QED
        BY <2>2, <2>3, <4>1
    <3> QED
      BY <3>1, <3>2
  <2>5. CASE EnqueueMore(c)
    BY <2>5 DEF EnqueueMore, At
  <2>6. CASE EnqueueDone(c) \/ RetryNudge(c)
    BY <2>6 DEF EnqueueDone, RetryNudge, Nudge
  <2>7. CASE EnqueueFails(c)
    BY <2>7 DEF EnqueueFails, TypeOK
  <2>8. CASE RetryPut(c)
    <3>1. Goto(c, "nudge")
      BY <2>8 DEF RetryPut, WriteFails, TypeOK
    <3> QED
      BY <3>1 DEF Goto, TypeOK
  <2>9. CASE CancelFlag(c) \/ CancelStop(c)
    <3>1. store' = store /\ wake' = wake /\ call[c].pc \notin {"append", "nudge"}
      BY <2>9 DEF CancelFlag, CancelStop, At
    <3> QED
      BY <2>2, <2>3, <3>1
  <2>10. CASE CancelPut(c)
    <3>1. store'[i] = store[i]
      BY <2>10 DEF CancelPut, WriteFails, Marked, TypeOK
    <3>2. wake' = wake /\ call[c].pc \notin {"append", "nudge"}
      BY <2>10 DEF CancelPut, At
    <3> QED
      BY <2>2, <2>3, <3>1, <3>2
  <2>11. CASE ClearDelete(c)
    <3>1. store'[i] = store[i]
      BY <2>11 DEF ClearDelete, WriteFails, NoRow, TypeOK
    <3>2. wake' = wake /\ call[c].pc \notin {"append", "nudge"}
      BY <2>11 DEF ClearDelete, At
    <3> QED
      BY <2>2, <2>3, <3>1, <3>2
  <2> QED
    BY <1>3, <2>4, <2>5, <2>6, <2>7, <2>8, <2>9, <2>10, <2>11 DEF Handler
<1>4. ASSUME NEW j \in Ids, BackoffElapses(j) PROVE Coming'
  <2>1. i # j /\ store'[i] = store[i]
    BY <1>4 DEF BackoffElapses, TypeOK
  <2> QED
    BY <1>0, <1>4, <2>1 DEF BackoffElapses
<1>5. CASE Restart
  BY <1>5 DEF Restart
<1>6. CASE UNCHANGED vars
  BY <1>0, <1>6 DEF vars
<1> QED
  BY <1>1, <1>2, <1>3, <1>4, <1>5, <1>6 DEF Next

(* An accepted cancellation of the current item is never forgotten.         *)
LEMMA CancelStep == TypeOK /\ IdsInv /\ WorkerInv /\ CancelInv /\ [Next]_vars => CancelInv'
<1> DEFINE Unread(i) == rec.id = i /\ wpc \in Processing \ {"drop"} /\ i \in cancelled
           Read(i) == rec.id = i /\ wpc = "drop"
           Settled(i) == rec.id = i /\ wpc = "write" /\ outcome = "cancelled"
           Written(i) == rec.id # i /\ store[i].status \in {"cancelled", "failed", "absent"}
           Safe(i) == Unread(i) \/ Read(i) \/ Settled(i) \/ Written(i)
<1> SUFFICES ASSUME TypeOK, IdsInv, WorkerInv, CancelInv, [Next]_vars, faults' = 0,
                    NEW i \in Ids, asked'[i] = "current"
             PROVE  Safe(i)'
  BY DEF CancelInv
<1>0. faults = 0 /\ asked[i] = "current" => Safe(i)
  BY DEF CancelInv
<1>h. i # NoId
  BY DEF Ids, NoId
<1> HIDE DEF Safe
<1> USE DEF bucket, workerVars, countVars, Processing, Safe
<1>1. CASE Worker
  <2>0. asked[i] = "current" /\ faults = 0
    <3> USE DEF Worker, Claim, ClaimNothing, StartMalformed, Start, Drop, Refuse, BeginScope, FetchReturns,
          FetchChecked, PostReturns, Settle, Write, FlushScan, TriggerScan, WakeUp, WriteFails, Put, TypeOK
    <3>1. asked' = asked
      BY <1>1
    <3>2. faults = 0
      BY <1>1
    <3> QED
      BY <3>1, <3>2
  <2>1. CASE Claim
    <3>1. Written(i)
      BY <2>1, <1>0, <1>h, <2>0 DEF Claim, WorkerInv
    <3>2. PICK j \in Ids :
             /\ Eligible(j)
             /\ store' = [store EXCEPT ![j] = Marked(store[j], "downloading")] \/ UNCHANGED store
             /\ rec' = [id |-> j, attempts |-> store[j].attempts]
      BY <2>1 DEF Claim, WriteFails
    <3>3. i # j /\ store'[i] = store[i]
      BY <3>1, <3>2 DEF Eligible, TypeOK
    <3> QED
      BY <3>1, <3>2, <3>3
  <2>2. CASE ClaimNothing
    BY <2>2, <1>0, <2>0 DEF ClaimNothing, WriteFails
  <2>3. CASE StartMalformed
    BY <2>3, <1>0, <2>0 DEF StartMalformed
  <2>4. CASE Start
    <3>1. Written(i)
      BY <2>4, <1>0, <2>0 DEF Start
    <3> QED
      BY <2>4, <3>1 DEF Start
  <2>5. CASE Drop
    BY <2>5, <1>0, <2>0 DEF Drop
  <2>6. CASE Refuse
    BY <2>6, <1>0, <2>0 DEF Refuse
  <2>7. CASE BeginScope
    BY <2>7, <1>0, <2>0 DEF BeginScope
  <2>8. CASE FetchReturns
    BY <2>8, <1>0, <2>0 DEF FetchReturns, Return
  <2>9. CASE FetchChecked
    BY <2>9, <1>0, <2>0 DEF FetchChecked
  <2>10. CASE PostReturns
    BY <2>10, <1>0, <2>0 DEF PostReturns, Return
  <2>11. CASE Settle
    <3>1. CASE Unread(i)
      BY <2>11, <3>1 DEF Settle, SettleOutcome
    <3>2. CASE Written(i)
      BY <2>11, <3>2 DEF Settle
    <3> QED
      BY <2>11, <1>0, <2>0, <3>1, <3>2 DEF Settle
  <2>12. CASE Write
    <3>1. rec.id \in Ids
      BY <2>12, HeldId DEF Write
    <3>2. rec'.id # i
      BY <2>12, <1>h DEF Write, NoRec
    <3>3. CASE Settled(i)
      <4>1. store'[i] = Done("cancelled")
        BY <2>12, <2>0, <3>1, <3>3 DEF Write, Put, WriteFails, TypeOK
      <4> QED
        BY <3>2, <4>1 DEF Done
    <3>4. CASE Written(i)
      <4>1. store'[i] = store[i]
        BY <2>12, <3>1, <3>4 DEF Write, Put, WriteFails, TypeOK
      <4> QED
        BY <3>2, <3>4, <4>1
    <3> QED
      BY <2>12, <1>0, <2>0, <3>3, <3>4 DEF Write
  <2>13. CASE FlushScan
    BY <2>13, <1>0, <2>0 DEF FlushScan
  <2>14. CASE TriggerScan
    BY <2>14, <1>0, <2>0 DEF TriggerScan
  <2>15. CASE WakeUp
    BY <2>15, <1>0, <2>0 DEF WakeUp
  <2> QED
    BY <1>1, <2>1, <2>2, <2>3, <2>4, <2>5, <2>6, <2>7, <2>8, <2>9, <2>10, <2>11, <2>12, <2>13, <2>14, <2>15 DEF Worker
<1>2. CASE IdleTick
  BY <1>0, <1>2 DEF IdleTick
<1>3. ASSUME NEW c \in Clients, NewCall(c) \/ Handler(c) PROVE Safe(i)'
  <2>1. faults = 0 /\ rec' = rec /\ wpc' = wpc /\ outcome' = outcome
    BY <1>3, HandlerFaults, HandlerFrame
  <2>2. ASSUME asked[i] = "current", i \in cancelled => i \in cancelled',
               store'[i] = store[i] \/ store'[i].status \in {"cancelled", "absent"}
        PROVE  Safe(i)'
    BY <1>0, <2>1, <2>2
  <2>3. CASE NewCall(c)
    <3>1. asked[i] = "current"
      BY <2>3 DEF NewCall, EnqueueFirst, ClearList, ForceStop, RetryGet, CancelGet, TypeOK
    <3>2. CASE EnqueueFirst(c)
      <4>1. i # seq + 1
        BY <3>1, <3>2 DEF IdsInv, EnqueueFirst, Append, TypeOK, Ids
      <4>2. store'[i] = store[i] /\ cancelled' = cancelled
        BY <3>2, <4>1 DEF EnqueueFirst, Append, TypeOK
      <4> QED
        BY <2>2, <3>1, <4>2
    <3>3. CASE ~EnqueueFirst(c)
      <4>1. store' = store /\ cancelled' = cancelled
        BY <2>3, <3>3 DEF NewCall, ClearList, ForceStop, RetryGet, CancelGet
      <4> QED
        BY <2>2, <3>1, <4>1
    <3> QED
      BY <3>2, <3>3
  <2>4. CASE EnqueueMore(c)
    <3>1. asked[i] = "current" /\ i # seq + 1
      BY <2>4 DEF IdsInv, EnqueueMore, Append, TypeOK, Ids
    <3>2. store'[i] = store[i] /\ cancelled' = cancelled
      BY <2>4, <3>1 DEF EnqueueMore, Append, TypeOK
    <3> QED
      BY <2>2, <3>1, <3>2
  <2>5. CASE RetryPut(c)
    <3>1. call[c].id # i /\ asked[i] = "current"
      BY <2>1, <2>5 DEF RetryPut, WriteFails, TypeOK
    <3>2. store'[i] = store[i] /\ cancelled' = cancelled
      BY <2>5, <3>1 DEF RetryPut, WriteFails, TypeOK
    <3> QED
      BY <2>2, <3>1, <3>2
  <2>6. CASE CancelFlag(c)
    <3>1. store' = store /\ cancelled' = cancelled \cup {call[c].id}
      BY <2>6 DEF CancelFlag, Flagged
    <3>2. CASE asked[i] = "current"
      BY <2>2, <3>1, <3>2
    <3>3. CASE asked[i] # "current"
      <4>1. call[c].id = i /\ currentID = i
        BY <2>6, <3>3 DEF CancelFlag, TypeOK
      <4>2. rec.id = i /\ wpc \in Processing
        BY <1>h, <4>1 DEF WorkerInv
      <4> QED
        BY <2>1, <3>1, <4>1, <4>2
    <3> QED
      BY <3>2, <3>3
  <2>7. CASE CancelPut(c)
    <3>1. asked[i] = "current" /\ cancelled' = cancelled
      BY <2>7 DEF CancelPut
    <3>2. store'[i] = store[i] \/ store'[i].status = "cancelled"
      BY <2>7 DEF CancelPut, WriteFails, Marked, TypeOK
    <3> QED
      BY <2>2, <3>1, <3>2
  <2>8. CASE ClearDelete(c)
    <3>1. asked[i] = "current" /\ cancelled' = cancelled
      BY <2>8 DEF ClearDelete
    <3>2. store'[i] = store[i] \/ store'[i].status = "absent"
      BY <2>8 DEF ClearDelete, WriteFails, NoRow
    <3> QED
      BY <2>2, <3>1, <3>2
  <2>9. CASE EnqueueDone(c) \/ EnqueueFails(c) \/ RetryNudge(c) \/ CancelStop(c)
    <3>1. asked[i] = "current" /\ cancelled' = cancelled /\ store' = store
      BY <2>9 DEF EnqueueDone, EnqueueFails, RetryNudge, CancelStop
    <3> QED
      BY <2>2, <3>1
  <2> QED
    BY <1>3, <2>3, <2>4, <2>5, <2>6, <2>7, <2>8, <2>9 DEF Handler
<1>4. ASSUME NEW j \in Ids, BackoffElapses(j) PROVE Safe(i)'
  <2>1. store'[i] = store[i] \/ i = j
    BY <1>4 DEF BackoffElapses, TypeOK
  <2> QED
    BY <1>0, <1>4, <2>1 DEF BackoffElapses
<1>5. CASE Restart
  BY <1>5 DEF Restart
<1>6. CASE UNCHANGED vars
  BY <1>0, <1>6 DEF vars
<1> QED
  BY <1>1, <1>2, <1>3, <1>4, <1>5, <1>6 DEF Next

(* The invariant is kept by every step.                                     *)
LEMMA IInvStep == IInv /\ [Next]_vars => IInv'
BY TypeStep, IdsStep, WorkerStep, LandingStep, WakeupStep, CancelStep, StrandedStep, BudgetStep, ScannedStep DEF IInv

-----------------------------------------------------------------------------
(* The inductive invariant holds in every state the queue can reach.        *)
THEOREM InductiveInvariant == Spec => []IInv
<1>1. Init => IInv
  BY InitIInv
<1>2. IInv /\ [Next]_vars => IInv'
  BY IInvStep
<1> QED
  BY <1>1, <1>2, PTL DEF Spec

(* Every variable of the queue keeps its type.                              *)
THEOREM TypeCorrect == Spec => []TypeOK
<1>1. IInv => TypeOK
  BY DEF IInv
<1> QED
  BY <1>1, InductiveInvariant, PTL

(* A record marked "downloading" is the one the worker holds, whatever      *)
(* calls and restarts came before (queue.go:57).                            *)
THEOREM NeverStranded == Spec => []NothingStranded
<1>1. IInv => NothingStranded
  BY DEF IInv
<1> QED
  BY <1>1, InductiveInvariant, PTL

(* No record is tried more often than the budget allows (queue.go:168-179). *)
THEOREM BudgetKept == Spec => []AttemptsBudget
<1>1. IInv => AttemptsBudget
  BY DEF IInv
<1> QED
  BY <1>1, InductiveInvariant, PTL

(* The worker never sleeps over a record a client put on the queue.         *)
THEOREM NoLostWakeup == Spec => []NoMissedWakeup
<1>1. IInv => NoMissedWakeup
  BY DEF IInv, WakeupInv, NoMissedWakeup
<1> QED
  BY <1>1, InductiveInvariant, PTL

(* A completed record's file is on disk and its scan is not forgotten.      *)
THEOREM CompletedMeansScanned == Spec => []CompletedIsScanned
<1>1. IInv => CompletedIsScanned
  BY DEF IInv
<1> QED
  BY <1>1, InductiveInvariant, PTL

(* A cancellation of the current download is final: no later step of the    *)
(* worker, of another call or of a stale write completes the record.        *)
THEOREM CancellationWins == Spec => []CancelOfCurrentWins
<1>1. ASSUME IInv PROVE CancelOfCurrentWins
  <2> SUFFICES ASSUME faults = 0, NEW i \in Ids, asked[i] = "current" PROVE store[i].status # "completed"
    BY DEF CancelOfCurrentWins
  <2>1. rec.id = i => store[i].status # "completed"
    BY <1>1 DEF IInv, LandingInv, Ids, NoId
  <2> QED
    BY <1>1, <2>1 DEF IInv, CancelInv
<1> QED
  BY <1>1, InductiveInvariant, PTL

-----------------------------------------------------------------------------
(* Records marked "downloading" that the worker does not hold.              *)
Held(i) == i = rec.id /\ wpc \in Processing \cup {"start", "write"}
Stranded == {i \in Ids : store[i].status = "downloading" /\ ~Held(i)}

(* A step takes no fault, or one; and a fault leaves the bucket as it was.  *)
LEMMA FaultLeavesStore ==
  ASSUME TypeOK, [Next]_vars
  PROVE  UNCHANGED faults \/ (faults' = faults + 1 /\ UNCHANGED store)
<1> USE DEF bucket, countVars
<1>1. CASE Worker
  BY <1>1 DEF Worker, Claim, ClaimNothing, StartMalformed, Start, Drop, Refuse, BeginScope,
       FetchReturns, FetchChecked, PostReturns, Settle, Write, Put, FlushScan, TriggerScan,
       WakeUp, WriteFails
<1>2. CASE IdleTick
  BY <1>2 DEF IdleTick
<1>3. ASSUME NEW c \in Clients, NewCall(c)
      PROVE  UNCHANGED faults \/ (faults' = faults + 1 /\ UNCHANGED store)
  BY <1>3 DEF NewCall, EnqueueFirst, ClearList, ForceStop, RetryGet, CancelGet
<1>4. ASSUME NEW c \in Clients, Handler(c)
      PROVE  UNCHANGED faults \/ (faults' = faults + 1 /\ UNCHANGED store)
  BY <1>4 DEF Handler, EnqueueMore, EnqueueDone, EnqueueFails, RetryPut, RetryNudge,
       CancelFlag, CancelStop, CancelPut, ClearDelete, WriteFails
<1>5. CASE \E i \in Ids : BackoffElapses(i)
  BY <1>5 DEF BackoffElapses
<1>6. CASE Restart
  BY <1>6 DEF Restart, WriteFails
<1>7. CASE UNCHANGED vars
  BY <1>7 DEF vars
<1> QED
  BY <1>1, <1>2, <1>3, <1>4, <1>5, <1>6, <1>7 DEF Next

(* Without a fault nothing is stranded anew: what becomes "downloading" is  *)
(* claimed, and the write with which the worker lets go ends that.          *)
LEMMA NothingStrandedAnew ==
  ASSUME TypeOK, IdsInv, WorkerInv, [Next]_vars, UNCHANGED faults
  PROVE  Stranded' \subseteq Stranded
<1> SUFFICES ASSUME NEW i \in Ids, store'[i].status = "downloading", ~Held(i)'
             PROVE  store[i].status = "downloading" /\ ~Held(i)
  BY DEF Stranded
<1> USE DEF Held, bucket, workerVars, countVars, Processing
<1>1. CASE Worker
  <2>1. CASE Claim
    <3> PICK j \in Ids :
             /\ \/ store' = [store EXCEPT ![j] = Marked(store[j], "downloading")] /\ UNCHANGED faults
                \/ WriteFails
             /\ rec' = [id |-> j, attempts |-> store[j].attempts]
      BY <2>1 DEF Claim
    <3>1. UNCHANGED faults /\ store' = [store EXCEPT ![j] = Marked(store[j], "downloading")]
      BY DEF WriteFails, TypeOK
    <3>2. i # j
      BY <2>1 DEF Claim
    <3> QED
      BY <2>1, <3>1, <3>2 DEF Claim, TypeOK
  <2>2. CASE ClaimNothing
    BY <2>2 DEF ClaimNothing, WriteFails, TypeOK
  <2>3. CASE StartMalformed
    BY <2>3 DEF StartMalformed
  <2>4. CASE Start
    BY <2>4 DEF Start
  <2>5. CASE Drop
    BY <2>5 DEF Drop
  <2>6. CASE Refuse
    BY <2>6 DEF Refuse
  <2>7. CASE BeginScope
    BY <2>7 DEF BeginScope
  <2>8. CASE FetchReturns
    BY <2>8 DEF FetchReturns, Return, Keep
  <2>9. CASE FetchChecked
    BY <2>9 DEF FetchChecked
  <2>10. CASE PostReturns
    BY <2>10 DEF PostReturns, Return, Keep
  <2>11. CASE Settle
    BY <2>11 DEF Settle, SettleOutcome, ScanMark
  <2>12. CASE Write
    <3>1. UNCHANGED faults
      BY <2>12 DEF Write, WriteFails, Put, TypeOK
    <3>2. rec.id \in Ids
      BY <2>12, HeldId DEF Write
    <3>3. store'[rec.id].status # "downloading"
      BY <2>12, <3>1, <3>2 DEF Write, WriteFails, Put, TypeOK, Done, RetryRow, ExhaustedRow
    <3>4. \A j \in Ids : j # rec.id => store'[j] = store[j]
      BY <2>12 DEF Write, WriteFails, Put, TypeOK
    <3> QED
      BY <3>1, <3>3, <3>4
  <2>13. CASE FlushScan
    BY <2>13 DEF FlushScan
  <2>14. CASE TriggerScan
    BY <2>14 DEF TriggerScan, TypeOK
  <2>15. CASE WakeUp
    BY <2>15 DEF WakeUp
  <2> QED
    BY <1>1, <2>1, <2>2, <2>3, <2>4, <2>5, <2>6, <2>7, <2>8, <2>9, <2>10, <2>11, <2>12, <2>13, <2>14, <2>15 DEF Worker
<1>2. CASE IdleTick
  BY <1>2 DEF IdleTick
<1>3. ASSUME NEW c \in Clients, NewCall(c) \/ Handler(c)
      PROVE  store[i].status = "downloading" /\ ~Held(i)
  <2>1. rec' = rec /\ wpc' = wpc
    BY <1>3, HandlerFrame
  <2>2. store'[i] = store[i]
    BY <1>3, HandlerRows DEF NewRow
  <2> QED
    BY <2>1, <2>2
<1>4. ASSUME NEW j \in Ids, BackoffElapses(j) 
      PROVE  store[i].status = "downloading" /\ ~Held(i)
  <2>1. i # j /\ store'[i] = store[i]
    BY <1>4 DEF BackoffElapses, TypeOK
  <2> QED
    BY <1>4, <2>1 DEF BackoffElapses
<1>5. CASE Restart
  <2>1. store' = ResetInterrupted
    BY <1>5 DEF Restart, WriteFails, TypeOK
  <2> QED
    BY <2>1 DEF ResetInterrupted, Requeued
<1>6. CASE UNCHANGED vars
  BY <1>6 DEF vars
<1> QED
  BY <1>1, <1>2, <1>3, <1>4, <1>5, <1>6 DEF Next

(* The id a step without a fault does not strand, a fault may.              *)
LEMMA StrandedCountStep ==
  StrandedOnePerFault /\ TypeOK /\ IdsInv /\ WorkerInv /\ [Next]_vars => StrandedOnePerFault'
<1> SUFFICES ASSUME StrandedOnePerFault, TypeOK, IdsInv, WorkerInv, [Next]_vars
             PROVE  StrandedOnePerFault'
  OBVIOUS
<1>1. IsFiniteSet(Ids)
  BY QueueAssumption, FS_Interval DEF Ids
<1>2. IsFiniteSet(Stranded) /\ Cardinality(Stranded) \in Nat /\ Cardinality(Stranded) <= faults
  <2>1. IsFiniteSet(Stranded)
    BY <1>1, FS_Subset DEF Stranded
  <2>2. Stranded = {i \in Ids : /\ store[i].status = "downloading"
                           /\ ~ (i = rec.id /\ wpc \in Processing \cup {"start", "write"})}
    BY DEF Stranded, Held
  <2> QED
    BY <2>1, <2>2, FS_CardinalityType DEF StrandedOnePerFault
<1>3. faults \in Nat
  BY DEF TypeOK
<1>4. Cardinality(Stranded') <= faults'
  <2>1. CASE UNCHANGED faults
    <3>1. Stranded' \subseteq Stranded
      BY <2>1, NothingStrandedAnew
    <3>2. Cardinality(Stranded') \in Nat /\ Cardinality(Stranded') <= Cardinality(Stranded)
      BY <1>2, <3>1, FS_Subset, FS_CardinalityType
    <3> QED
      BY <1>2, <1>3, <2>1, <3>2
  <2>2. CASE faults' = faults + 1 /\ UNCHANGED store
    <3>1. Stranded' \subseteq Stranded \cup {rec.id}
      BY <2>2 DEF Stranded, Held
    <3>2. /\ IsFiniteSet(Stranded \cup {rec.id})
          /\ Cardinality(Stranded \cup {rec.id}) \in Nat
          /\ Cardinality(Stranded \cup {rec.id}) <= Cardinality(Stranded) + 1
      <4>1. IsFiniteSet(Stranded \cup {rec.id})
        BY <1>2, FS_AddElement
      <4>2. \/ Cardinality(Stranded \cup {rec.id}) = Cardinality(Stranded)
            \/ Cardinality(Stranded \cup {rec.id}) = Cardinality(Stranded) + 1
        BY <1>2, FS_AddElement
      <4> QED
        BY <1>2, <4>1, <4>2
    <3>3. Cardinality(Stranded') \in Nat /\ Cardinality(Stranded') <= Cardinality(Stranded \cup {rec.id})
      BY <3>1, <3>2, FS_Subset, FS_CardinalityType
    <3> QED
      BY <1>2, <1>3, <2>2, <3>2, <3>3
  <2> QED
    BY <2>1, <2>2, FaultLeavesStore
<1> QED
  BY <1>4 DEF StrandedOnePerFault, Stranded, Held

(* Each refused write strands at most one record, whatever the calls and    *)
(* restarts around it (queue.go:57, 179-181, 191-193).                      *)
THEOREM OnePerFault == Spec => []StrandedOnePerFault
<1>1. Init => StrandedOnePerFault
  <2> SUFFICES ASSUME Init PROVE StrandedOnePerFault
    OBVIOUS
  <2>1. {i \in Ids : /\ store[i].status = "downloading"
                           /\ ~ (i = rec.id /\ wpc \in Processing \cup {"start", "write"})} = {}
    BY DEF Init, NoRow
  <2>2. Cardinality({}) = 0 /\ faults = 0
    BY FS_EmptySet DEF Init
  <2> QED
    BY <2>1, <2>2 DEF StrandedOnePerFault
<1>2. IInv /\ StrandedOnePerFault /\ [Next]_vars => StrandedOnePerFault'
  BY StrandedCountStep DEF IInv
<1> QED
  BY <1>1, <1>2, InductiveInvariant, PTL DEF Spec

-----------------------------------------------------------------------------
(* Who uses the queue like its contract says: no CancelQueueItem, one call *)
(* at a time, and a bucket that takes its writes.                          *)
Sequential ==
  /\ "cancel" \notin Methods /\ MaxFaults = 0
  /\ \A c, d \in Clients : c = d

(* What a call has read is still so when it writes: nobody else is there,  *)
(* and the worker holds another record.                                    *)
LifeInv ==
  /\ faults = 0
  /\ rec.id # NoId => store[rec.id].status = "downloading"
  /\ \A c \in Clients :
       /\ call[c].pc \notin {"flag", "stop", "cancel"}
       /\ call[c].pc = "retry" => store[call[c].id].status \in Finished
       /\ call[c].pc = "clear" => \A i \in call[c].list : store[i].status \in Finished

(* The worker begins the oldest claimable job, ends the one it holds, and  *)
(* does nothing else that the lifecycle sees.                              *)
LEMMA LifeWorker ==
  ASSUME Sequential, TypeOK, IdsInv, WorkerInv, NothingStranded, LifeInv, Worker
  PROVE  LifeInv' /\ (Lifecycle!Next \/ UNCHANGED Lifecycle!vars)
<1> USE DEF TypeOK, LifeInv, bucket, workerVars, countVars, diskVars
<1>0. ~WriteFails
  BY DEF Sequential, WriteFails
<1>1. CASE Claim
  <2> PICK i \in Ids :
           /\ Eligible(i)
           /\ \A j \in Ids : Before(j, i) => ~Eligible(j)
           /\ store' = [store EXCEPT ![i] = Marked(store[i], "downloading")]
           /\ UNCHANGED faults
           /\ rec' = [id |-> i, attempts |-> store[i].attempts]
    BY <1>0, <1>1 DEF Claim
  <2>1. UNCHANGED <<seq, call>> /\ wpc = "claim" /\ i # NoId
    BY <1>1 DEF Claim, Ids, NoId
  <2>2. store'[i].status = "downloading" /\ \A j \in Ids : j # i => store'[j] = store[j]
    BY DEF Marked
  <2>3. store[i].status = "queued"
    BY DEF Eligible
  <2>4. LifeInv'
    <3>1. ASSUME NEW c \in Clients
          PROVE  /\ call[c].pc \notin {"flag", "stop", "cancel"}
                 /\ call[c].pc = "retry" => store'[call[c].id].status \in Finished
                 /\ call[c].pc = "clear" => \A j \in call[c].list : store'[j].status \in Finished
      <4>1. call[c].list \subseteq Ids
        BY CallFacts
      <4>2. call[c].pc = "retry" => call[c].id \in Ids
        BY DEF IdsInv
      <4> QED
        BY <2>2, <2>3, <4>1, <4>2 DEF Finished
    <3> QED
      BY <2>1, <2>2, <3>1
  <2>5. Lifecycle!Begin(i)
    <3>1. \A j \in Ids : store[j].status # "downloading"
      BY <2>1 DEF NothingStranded, Processing
    <3>2. \A j \in Ids : j < i => ~ (store[j].status = "queued" /\ store[j].next = "none")
      BY DEF Eligible, Before
    <3> QED
      BY <2>1, <2>2, <2>3, <3>1, <3>2 DEF Lifecycle!Begin, Lifecycle!Ids, Ids
  <2> QED
    BY <2>4, <2>5 DEF Lifecycle!Next, Lifecycle!Ids, Ids
<1>2. CASE Write
  <2>1. rec.id \in Ids /\ rec.id # NoId /\ wpc = "write"
    BY <1>2, HeldId DEF Write, Ids, NoId
  <2> PICK row : /\ store' = [store EXCEPT ![rec.id] = row] /\ UNCHANGED faults
                 /\ \/ row.status \in {"completed", "cancelled", "failed"} 
                    \/ row = RetryRow
    BY <1>0, <1>2 DEF Write, Put, Done, ExhaustedRow
  <2>2. UNCHANGED <<seq, call>> /\ rec' = NoRec
    BY <1>2 DEF Write
  <2>3. store[rec.id].status = "downloading"
    BY <2>1
  <2>4. store'[rec.id] = row /\ \A j \in Ids : j # rec.id => store'[j] = store[j]
    BY <2>1
  <2>5. LifeInv'
    <3>1. ASSUME NEW c \in Clients
          PROVE  /\ call[c].pc \notin {"flag", "stop", "cancel"}
                 /\ call[c].pc = "retry" => store'[call[c].id].status \in Finished
                 /\ call[c].pc = "clear" => \A j \in call[c].list : store'[j].status \in Finished
      <4>1. call[c].list \subseteq Ids
        BY CallFacts
      <4>2. call[c].pc = "retry" => call[c].id \in Ids
        BY DEF IdsInv
      <4> QED
        BY <2>3, <2>4, <4>1, <4>2 DEF Finished
    <3> QED
      BY <2>2, <3>1 DEF NoRec
  <2> PICK i \in Ids : i = rec.id
    BY <2>1
  <2>7. store[i].status = "downloading" /\ store'[i] = row /\ \A j \in Ids : j # i => store'[j] = store[j]
    BY <2>3, <2>4
  <2>6. Lifecycle!End(i)
    <3> DEFINE Place(r) == IF r.status = "queued" /\ r.next # "none" THEN "retrying" ELSE r.status
    <3>1. Place(row) \in {"completed", "cancelled", "failed", "retrying"}
      BY DEF RetryRow
    <3>2. [j \in Ids |-> Place(store'[j])] = [[j \in Ids |-> Place(store[j])] EXCEPT ![i] = Place(row)]
      BY <2>7
    <3>3. [j \in Ids |-> Place(store[j])][i] = "downloading"
      BY <2>7
    <3> QED
      BY <2>2, <3>1, <3>2, <3>3 DEF Lifecycle!End, Lifecycle!Settled
  <2> QED
    BY <2>6, <2>5 DEF Lifecycle!Next, Lifecycle!Ids, Ids
<1>3. CASE ~Claim /\ ~Write
  <2>1. UNCHANGED <<store, seq, rec, call, faults>>
    BY <1>0, <1>3 DEF Worker, ClaimNothing, StartMalformed, Start, Drop, Refuse, BeginScope, FetchReturns,
       FetchChecked, PostReturns, Settle, FlushScan, TriggerScan, WakeUp, Return, Keep, Sequential
  <2> QED
    BY <2>1 DEF Lifecycle!vars
<1> QED
  BY <1>1, <1>2, <1>3

(* A call accepts, reopens or forgets, or changes nothing the lifecycle    *)
(* sees.                                                                   *)
LEMMA LifeClient ==
  ASSUME Sequential, TypeOK, IdsInv, WorkerInv, LifeInv, NEW c \in Clients, NewCall(c) \/ Handler(c)
  PROVE  LifeInv' /\ (Lifecycle!Next \/ UNCHANGED Lifecycle!vars)
<1> USE DEF TypeOK, LifeInv, bucket, workerVars, countVars, diskVars
<1>0. ~WriteFails
  BY DEF Sequential, WriteFails
<1>a. \A d \in Clients : d = c
  BY DEF Sequential
<1>b. rec' = rec /\ rec.id \in Ids \cup {NoId}
  BY HandlerFrame
<1>c. store \in [Ids -> Row] /\ seq \in 0 .. MaxItems /\ call \in [Clients -> Call]
  OBVIOUS
<1>1. ASSUME Append, faults' = faults, call'[c].pc = "append" PROVE LifeInv' /\ Lifecycle!Next
  <2>1. seq + 1 \in Ids /\ store'[seq + 1] = NewRow /\ \A j \in Ids : j # seq + 1 => store'[j] = store[j]
    BY <1>1, <1>c, QueueAssumption DEF Append, Ids
  <2>2. rec.id # seq + 1
    BY <1>c, <1>b DEF IdsInv, Ids, NoId
  <2>3. Lifecycle!Accept
    BY <1>1, <1>c, <2>1, QueueAssumption DEF Append, Lifecycle!Accept, Lifecycle!Ids, Ids, NewRow
  <2>4. LifeInv'
    BY <1>1, <1>a, <1>b, <2>1, <2>2
  <2> QED
    BY <2>3, <2>4 DEF Lifecycle!Next
<1>2. CASE EnqueueFirst(c)
  <2>1. Append /\ faults' = faults
    BY <1>2 DEF EnqueueFirst
  <2>2. call'[c].pc = "append"
    BY <1>2, <1>c DEF EnqueueFirst, Enter
  <2> QED
    BY <1>1, <2>1, <2>2
<1>3. CASE EnqueueMore(c)
  BY <1>1, <1>3 DEF EnqueueMore, At
<1>4. ASSUME UNCHANGED <<store, seq, faults>>, call'[c] = NoCall \/ call'[c].pc \in {"idle", "nudge"}
      PROVE  LifeInv' /\ UNCHANGED Lifecycle!vars
  BY <1>4, <1>a, <1>b DEF NoCall, Lifecycle!vars
<1>5. CASE EnqueueDone(c) \/ EnqueueFails(c) \/ RetryNudge(c)
  BY <1>5, <1>4, <1>c DEF EnqueueDone, EnqueueFails, RetryNudge, Leave, Sequential
<1>6. CASE ForceStop(c)
  BY <1>6, <1>4, <1>c DEF ForceStop, Enter
<1>7. ASSUME NEW i \in Ids, RetryGet(c, i) PROVE LifeInv' /\ UNCHANGED Lifecycle!vars
  <2>1. call'[c].pc = "retry" /\ call'[c].id = i /\ store[i].status \in Finished
    BY <1>7, <1>c DEF RetryGet, Enter
  <2>2. UNCHANGED <<store, seq, faults>>
    BY <1>7 DEF RetryGet
  <2> QED
    BY <1>a, <1>b, <2>1, <2>2 DEF Lifecycle!vars
<1>8. CASE ClearList(c)
  <2>1. call'[c].pc = "clear" /\ call'[c].list = {i \in Ids : store[i].status \in Finished}
    BY <1>8, <1>c DEF ClearList, Enter
  <2>2. UNCHANGED <<store, seq, faults>>
    BY <1>8 DEF ClearList
  <2> QED
    BY <1>a, <1>b, <2>1, <2>2 DEF Lifecycle!vars
<1>9. ASSUME NEW i \in Ids, CancelGet(c, i) PROVE FALSE
  BY <1>9 DEF CancelGet, Enter, Sequential
<1>10. CASE RetryPut(c)
  <2> PICK i \in Ids : i = call[c].id /\ store[i].status \in Finished
    BY <1>10 DEF RetryPut, At, IdsInv
  <2>2. /\ store' = [store EXCEPT ![i] = NewRow] /\ UNCHANGED <<seq, faults>>
        /\ call'[c].pc = "nudge"
    BY <1>0, <1>10, <1>c DEF RetryPut, Goto
  <2>3. store'[i] = NewRow /\ \A j \in Ids : j # i => store'[j] = store[j]
    BY <1>c, <2>2
  <2>4. rec.id # i
    BY DEF Finished, Ids, NoId
  <2>5. LifeInv'
    BY <1>a, <1>b, <2>2, <2>3, <2>4
  <2>6. Lifecycle!Reopen(i)
    BY <2>2, <2>3 DEF Lifecycle!Reopen, Lifecycle!Ids, Lifecycle!Settled, Ids, NewRow, Finished
  <2> QED
    BY <2>5, <2>6 DEF Lifecycle!Next, Lifecycle!Ids, Ids
<1>11. CASE ClearDelete(c)
  <2> DEFINE L == call[c].list
  <2>1. L \subseteq Ids /\ \A i \in L : store[i].status \in Finished
    BY <1>11, CallFacts DEF ClearDelete, At
  <2>2. /\ store' = [i \in Ids |-> IF i \in L THEN NoRow ELSE store[i]] /\ UNCHANGED <<seq, faults>>
        /\ call'[c].pc = "idle"
    BY <1>0, <1>11, <1>c DEF ClearDelete, Leave, NoCall
  <2> HIDE DEF L
  <2>3. LifeInv'
    BY <1>a, <1>b, <2>1, <2>2 DEF Finished, NoId, Ids
  <2>4. Lifecycle!Forget
    <3>1. L \in SUBSET {i \in Ids : store[i].status \in Finished}
      BY <2>1
    <3> QED
      BY <2>2, <3>1 DEF Lifecycle!Forget, Lifecycle!Ids, Lifecycle!Settled, Ids, NoRow, Finished
  <2> QED
    BY <2>3, <2>4 DEF Lifecycle!Next
<1>12. CASE CancelFlag(c) \/ CancelStop(c) \/ CancelPut(c)
  BY <1>12 DEF CancelFlag, CancelStop, CancelPut, At
<1> QED
  BY <1>2, <1>3, <1>5, <1>6, <1>7, <1>8, <1>9, <1>10, <1>11, <1>12 DEF NewCall, Handler

(* Every step of the queue is a step of the lifecycle or none.             *)
LEMMA LifeStep ==
  ASSUME Sequential, TypeOK, IdsInv, WorkerInv, NothingStranded, LifeInv, [Next]_vars
  PROVE  LifeInv' /\ [Lifecycle!Next]_(Lifecycle!vars)
<1> USE DEF TypeOK, LifeInv, bucket, workerVars, countVars, diskVars
<1>1. ASSUME UNCHANGED <<store, seq, rec, call, faults>> PROVE LifeInv' /\ UNCHANGED Lifecycle!vars
  BY <1>1 DEF Lifecycle!vars
<1>2. CASE IdleTick
  BY <1>1, <1>2 DEF IdleTick
<1>3. CASE UNCHANGED vars
  BY <1>1, <1>3 DEF vars
<1>4. ASSUME NEW j \in Ids, BackoffElapses(j) PROVE LifeInv' /\ UNCHANGED Lifecycle!vars
  <2>1. UNCHANGED <<seq, rec, call, faults>>
    BY <1>4 DEF BackoffElapses
  <2>2. \A i \in Ids : /\ store'[i].status = store[i].status
                       /\ store'[i].next = "none" <=> store[i].next = "none"
    BY <1>4 DEF BackoffElapses
  <2>3. LifeInv'
    <3>1. rec.id \in Ids \cup {NoId}
      OBVIOUS
    <3>2. \A c \in Clients : call[c].list \subseteq Ids /\ (call[c].pc = "retry" => call[c].id \in Ids)
      BY CallFacts DEF IdsInv
    <3> QED
      BY <2>1, <2>2, <3>1, <3>2
  <2> QED
    BY <2>1, <2>2, <2>3 DEF Lifecycle!vars
<1>5. CASE Restart
  <2>1. store' = ResetInterrupted /\ UNCHANGED <<seq, faults>> /\ rec' = NoRec
    BY <1>5 DEF Restart, WriteFails, Sequential
  <2>2. LifeInv'
    BY <1>5, <2>1 DEF Restart, NoRec, NoCall
  <2>3. Lifecycle!Interrupt
    BY <2>1 DEF Lifecycle!Interrupt, ResetInterrupted, Requeued, Lifecycle!Ids, Ids
  <2> QED
    BY <2>2, <2>3 DEF Lifecycle!Next
<1> QED
  BY <1>2, <1>3, <1>4, <1>5, LifeWorker, LifeClient DEF Next

(* The queue implements its lifecycle (queue.go:15-28, 52-61, 320-321) for *)
(* every number of records, attempts, calls and restarts.                  *)
THEOREM ImplementsLifecycle == Sequential /\ Spec => LifecycleSpec
<1>1. Init => LifeInv /\ Lifecycle!Init
  BY DEF Init, LifeInv, NoRec, NoCall, NoRow, Lifecycle!Init, Lifecycle!Ids, Ids
<1>2. Sequential /\ IInv /\ LifeInv /\ [Next]_vars => LifeInv' /\ [Lifecycle!Next]_(Lifecycle!vars)
  BY LifeStep DEF IInv
<1>3. Sequential => []Sequential
  BY DEF Sequential
<1> QED
  BY <1>1, <1>2, <1>3, InductiveInvariant, PTL DEF Spec, LifecycleSpec, Lifecycle!Spec
=============================================================================
