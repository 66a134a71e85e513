------------------------ MODULE DownloadTrackProofs ------------------------
(***************************************************************************)
(* Proofs about the cancellation scope that DownloadTrack calls share, for *)
(* every number of callers, downloads, stops and display queue edits.      *)
(***************************************************************************)
EXTENDS DownloadTrack, SiftingProofs, FiniteSetTheorems, TLAPS

Inside == {p \in Callers : pc[p] \in InScope}

(* The types of what the scope is made of.                                 *)
ScopeTypes ==
  /\ pc \in [Callers -> Phases] /\ joined \in [Callers -> Nat]
  /\ ctx \in Nat /\ active \in Nat /\ lastCtx \in Nat
  /\ told \subseteq Callers

(* Who was told to stop is inside, and has joined a cancelled context if it*)
(* has not come to its last check.                                         *)
ToldInv ==
  \A p \in told : pc[p] \in InScope /\ (pc[p] \in BeforeLastCheck => joined[p] \in dead)

ScopeInv == ScopeTypes /\ ScopeCounts /\ ScopeIsStable /\ ToldInv

(* Callers are finitely many, and so are those inside the scope.           *)
LEMMA InsideFinite == IsFiniteSet(Callers) /\ IsFiniteSet(Inside)
<1>1. IsFiniteSet(Callers)
  BY TrackAssumption, FS_AddElement DEF Callers
<1> QED
  BY <1>1, FS_Subset DEF Inside

(* A step that moves one caller about without entering or leaving the      *)
(* scope leaves its count alone.                                           *)
LEMMA SameInside ==
  ASSUME ScopeTypes, NEW p \in Callers, NEW from, NEW to, Goto(p, from, to),
         from \in InScope <=> to \in InScope
  PROVE  Inside' = Inside
BY DEF ScopeTypes, Goto, Inside

(* A step inside one caller's download that neither enters nor leaves the   *)
(* scope and does not step back before the last check.                     *)
Quiet(p, from, to) ==
  /\ Goto(p, from, to) /\ from \in Phases /\ to \in Phases
  /\ from \in InScope <=> to \in InScope
  /\ to \in BeforeLastCheck => from \in BeforeLastCheck
  /\ joined' = joined \/ (to = "off" /\ joined' = [joined EXCEPT ![p] = 0])
  /\ UNCHANGED <<scopeVars, told>>

(* Such a step keeps the invariant of the scope.                           *)
LEMMA QuietStep ==
  ASSUME ScopeInv, NEW p \in Callers, NEW from, NEW to, Quiet(p, from, to)
  PROVE  ScopeInv'
<1> USE DEF ScopeInv, ScopeTypes
<1>1. Inside' = Inside
  BY SameInside DEF Quiet
<1>2. ScopeTypes'
  BY DEF Quiet, Goto, scopeVars
<1>3. ScopeCounts'
  BY <1>1 DEF Quiet, scopeVars, ScopeCounts, Inside
<1>4. \A q \in Callers : pc'[q] \in InScope => pc[q] \in InScope /\ joined'[q] = joined[q]
  BY DEF Quiet, Goto, InScope
<1>5. ScopeIsStable'
  BY <1>4 DEF Quiet, scopeVars, ScopeIsStable
<1>6. ASSUME NEW q \in told PROVE pc'[q] \in InScope /\ (pc'[q] \in BeforeLastCheck => joined'[q] \in dead)
  <2>1. CASE q = p
    BY <1>6, <2>1 DEF Quiet, Goto, ToldInv, InScope, BeforeLastCheck
  <2>2. CASE q # p
    BY <1>6, <2>2 DEF Quiet, Goto, ToldInv
  <2> QED
    BY <2>1, <2>2
<1>7. ToldInv'
  BY <1>6 DEF ToldInv, Quiet, scopeVars
<1> QED
  BY <1>2, <1>3, <1>5, <1>7

(* Every step of a caller is such a step but for those of the scope.       *)
LEMMA TrackSteps ==
  ASSUME NEW p \in Callers, Track(p)
  PROVE  \/ \E from, to \in Phases : Quiet(p, from, to)
         \/ BeginScope(p) \/ LeaveScope(p)
<1> USE DEF Quiet, Phases, InScope, BeforeLastCheck, callVars, scopeVars, Off
<1>1. ASSUME NEW i \in Items, Add(p, i) PROVE Quiet(p, "off", "added")
  BY <1>1 DEF Add
<1>2. ASSUME Refuse(p) PROVE Quiet(p, "added", "off")
  BY <1>2 DEF Refuse
<1>3. ASSUME SetBusy(p) PROVE Quiet(p, "added", "busy")
  BY <1>3 DEF SetBusy
<1>4. ASSUME StartItem(p) PROVE Quiet(p, "busy", "started")
  BY <1>4 DEF StartItem
<1>5. ASSUME Exists(p) PROVE Quiet(p, "fetch", "leave")
  BY <1>5 DEF Exists, ReturnsWith
<1>6. ASSUME Await(p) PROVE Quiet(p, "fetch", "await")
  BY <1>6 DEF Await
<1>7. ASSUME Transfer(p) PROVE Quiet(p, "await", "transfer")
  BY <1>7 DEF Transfer
<1>8. ASSUME Fetched(p) PROVE Quiet(p, "transfer", "landed")
  BY <1>8 DEF Fetched
<1>9. ASSUME Post(p) PROVE Quiet(p, "post", "leave")
  BY <1>9 DEF Post, ReturnsWith
<1>10. ASSUME ClearBusy(p) PROVE Quiet(p, "unbusy", "off")
  BY <1>10 DEF ClearBusy
<1>11. ASSUME FirstCheck(p) PROVE Quiet(p, "check", "fetch") \/ Quiet(p, "check", "leave")
  BY <1>11 DEF FirstCheck, ReturnsWith
<1>12. ASSUME LastCheck(p) PROVE Quiet(p, "landed", "post") \/ Quiet(p, "landed", "leave")
  BY <1>12 DEF LastCheck, ReturnsWith
<1>13. ASSUME FetchFails(p) PROVE \E from \in {"fetch", "await", "transfer"} : Quiet(p, from, "leave")
  BY <1>13 DEF FetchFails, ReturnsWith
<1> HIDE DEF Quiet
<1> QED
  BY <1>1, <1>2, <1>3, <1>4, <1>5, <1>6, <1>7, <1>8, <1>9, <1>10, <1>11, <1>12, <1>13 DEF Track

(* Entering: the context is the one everybody inside has, or a new one     *)
(* when nobody is.                                                         *)
LEMMA BeginStep == ASSUME ScopeInv, NEW p \in Callers, BeginScope(p) PROVE ScopeInv'
<1> USE DEF ScopeInv, ScopeTypes
<1>0. pc[p] = "started" /\ pc' = [pc EXCEPT ![p] = "check"] /\ joined' = [joined EXCEPT ![p] = ctx']
  BY DEF BeginScope, Goto
<1>1. Inside' = Inside \cup {p} /\ p \notin Inside
  BY <1>0 DEF Inside, InScope
<1>2. active = Cardinality(Inside) /\ active' = active + 1
  BY DEF ScopeCounts, Inside, BeginScope
<1>3. active' = Cardinality(Inside')
  BY <1>1, <1>2, InsideFinite, FS_AddElement
<1>4. ctx' \in Nat /\ lastCtx' \in Nat /\ ctx' # 0
  BY DEF BeginScope, NeedsContext
<1>5. ScopeTypes'
  BY <1>0, <1>2, <1>4 DEF Phases, BeginScope
<1>6. ScopeCounts'
  BY <1>2, <1>3, <1>4 DEF ScopeCounts, Inside
<1>7. ASSUME NEW q \in Callers, pc'[q] \in InScope PROVE joined'[q] = ctx'
  <2>1. CASE q = p
    BY <1>0, <2>1
  <2>2. CASE q # p
    <3>1. q \in Inside /\ joined'[q] = joined[q] /\ joined[q] = ctx
      BY <1>0, <1>7, <2>2 DEF Inside, ScopeIsStable
    <3>2. active # 0
      BY <1>2, <3>1, InsideFinite, FS_EmptySet
    <3>3. ~NeedsContext
      BY <3>2 DEF NeedsContext, ScopeCounts
    <3> QED
      BY <3>1, <3>3 DEF BeginScope
  <2> QED
    BY <2>1, <2>2
<1>8. ScopeIsStable'
  BY <1>7 DEF ScopeIsStable
<1>9. ToldInv'
  BY <1>0, <1>1 DEF ToldInv, BeginScope, Inside
<1> QED
  BY <1>5, <1>6, <1>8, <1>9

(* Leaving: the context goes with the last one out.                        *)
LEMMA LeaveStep == ASSUME ScopeInv, NEW p \in Callers, LeaveScope(p) PROVE ScopeInv'
<1> USE DEF ScopeInv, ScopeTypes
<1>0. pc[p] = "leave" /\ pc' = [pc EXCEPT ![p] = "unbusy"] /\ joined' = joined /\ told' = told \ {p}
  BY DEF LeaveScope, Goto
<1>1. Inside' = Inside \ {p} /\ p \in Inside
  BY <1>0 DEF Inside, InScope
<1>2. active = Cardinality(Inside) /\ active > 0
  <2>1. active = Cardinality(Inside)
    BY DEF ScopeCounts, Inside
  <2> QED
    BY <1>1, <2>1, InsideFinite, FS_EmptySet
<1>3. active' = active - 1 /\ active' = Cardinality(Inside') /\ active' \in Nat
  <2>1. active' = active - 1 /\ active' \in Nat
    BY <1>2 DEF LeaveScope
  <2>2. Cardinality(Inside \ {p}) = Cardinality(Inside) - 1
    BY <1>1, InsideFinite, FS_RemoveElement
  <2> QED
    BY <1>1, <1>2, <2>1, <2>2
<1>4. IF active' = 0 THEN ctx' = 0 /\ ~stopping' ELSE ctx' = ctx /\ stopping' = stopping
  BY DEF LeaveScope, ClosedContext
<1>5. ScopeTypes'
  BY <1>0, <1>3, <1>4 DEF LeaveScope, Phases
<1>6. ScopeCounts'
  BY <1>2, <1>3, <1>4 DEF ScopeCounts, Inside
<1>7. ASSUME NEW q \in Callers, pc'[q] \in InScope PROVE joined'[q] = ctx'
  <2>1. q \in Inside' /\ joined[q] = ctx
    BY <1>0, <1>7 DEF Inside, ScopeIsStable, InScope
  <2>2. active' # 0
    BY <1>1, <1>3, <2>1, InsideFinite, FS_RemoveElement, FS_EmptySet
  <2> QED
    BY <1>0, <1>4, <2>1, <2>2
<1>8. ScopeIsStable'
  BY <1>7 DEF ScopeIsStable
<1>9. ToldInv'
  BY <1>0 DEF ToldInv, LeaveScope
<1> QED
  BY <1>5, <1>6, <1>8, <1>9

(* Stops and edits do not move anybody in or out; a stop cancels what the  *)
(* ones it tells have joined.                                              *)
LEMMA StopStep == ASSUME ScopeInv, Stop \/ Edit PROVE ScopeInv'
<1> USE DEF ScopeInv, ScopeTypes, callVars, scopeVars
<1>1. UNCHANGED <<pc, joined, ctx, active, lastCtx>>
  BY DEF Stop, StopTake, StopFire, StopRows, StopCurrent, StopFlag, Edit, ClearCompleted, CancelAllQueued, ClearAll
<1>2. ScopeTypes' /\ ScopeIsStable'
  <2>1. told' \subseteq Callers
    BY DEF Stop, StopTake, StopFire, StopRows, StopCurrent, StopFlag, Edit, ClearCompleted, CancelAllQueued, ClearAll
  <2> QED
    BY <1>1, <2>1 DEF ScopeIsStable
<1>3. stopping' => stopping \/ ctx # 0
  BY DEF Stop, StopTake, StopFire, StopRows, StopCurrent, StopFlag, Edit, ClearCompleted, CancelAllQueued, ClearAll
<1>4. ScopeCounts'
  BY <1>1, <1>3 DEF ScopeCounts
<1>5. ToldInv'
  <2>1. CASE StopFire
    BY <1>1, <2>1 DEF StopFire, ToldInv, BeforeLastCheck, InScope
  <2>2. CASE ~StopFire
    <3>1. UNCHANGED <<told, dead>>
      BY <2>2 DEF Stop, StopTake, StopRows, StopCurrent, StopFlag, Edit, ClearCompleted, CancelAllQueued, ClearAll
    <3> QED
      BY <1>1, <3>1 DEF ToldInv
  <2> QED
    BY <2>1, <2>2
<1> QED
  BY <1>2, <1>4, <1>5

(* The invariant of the scope is inductive.                                *)
LEMMA ScopeStep == ScopeInv /\ [Next]_vars => ScopeInv'
<1> SUFFICES ASSUME ScopeInv, [Next]_vars PROVE ScopeInv'
  OBVIOUS
<1>1. ASSUME UNCHANGED <<pc, joined, scopeVars, told>> PROVE ScopeInv'
  BY <1>1 DEF ScopeInv, ScopeTypes, ScopeCounts, ScopeIsStable, ToldInv, scopeVars
<1>2. ASSUME NEW p \in Callers, Track(p) PROVE ScopeInv'
  BY <1>2, TrackSteps, QuietStep, BeginStep, LeaveStep
<1>3. CASE UNCHANGED vars
  BY <1>1, <1>3 DEF vars, scopeVars
<1> QED
  BY <1>2, <1>3, StopStep DEF Next

(* The scope is empty at first.                                            *)
LEMMA ScopeInit == Init => ScopeInv
<1> SUFFICES ASSUME Init PROVE ScopeInv
  OBVIOUS
<1>1. {p \in Callers : pc[p] \in InScope} = {}
  BY DEF Init, InScope
<1> QED
  BY <1>1, FS_EmptySet DEF Init, ScopeInv, ScopeTypes, ScopeCounts, ScopeIsStable, ToldInv, Phases, InScope

-----------------------------------------------------------------------------
(* The scope's invariant holds in every reachable state.                   *)
THEOREM ScopeInvariant == Spec => []ScopeInv
BY ScopeInit, ScopeStep, PTL DEF Spec

(* The scope counts the downloads inside it, has a context exactly while   *)
(* there are any, and is not left stopping behind the last one.            *)
THEOREM ScopeCounted == Spec => []ScopeCounts
<1>1. ScopeInv => ScopeCounts
  BY DEF ScopeInv
<1> QED
  BY <1>1, ScopeInvariant, PTL

(* A download checks the context it began with, to its end.                *)
THEOREM ScopeStable == Spec => []ScopeIsStable
<1>1. ScopeInv => ScopeIsStable
  BY DEF ScopeInv
<1> QED
  BY <1>1, ScopeInvariant, PTL

(* No download passes its last check once it was told to stop, however     *)
(* many others come and go.                                                *)
THEOREM StopsReach == Spec => StopReachesAll
<1>1. ScopeInv /\ [Next]_vars => [\A p \in Callers : p \in told => ~ (pc[p] = "landed" /\ pc'[p] = "post")]_vars
  <2> SUFFICES ASSUME ScopeInv, Next, NEW p \in Callers, p \in told, pc[p] = "landed", pc'[p] = "post"
               PROVE  FALSE
    OBVIOUS
  <2>1. Cancelled
    BY DEF ScopeInv, ToldInv, ScopeIsStable, Cancelled, BeforeLastCheck, InScope
  <2>2. ~ LastCheck(p)
    BY <2>1 DEF LastCheck, ReturnsWith, Goto, ScopeInv, ScopeTypes
  <2>3. PICK q \in Callers : Track(q)
    BY DEF Next, Stop, StopTake, StopFire, StopRows, StopCurrent, StopFlag, Edit, ClearCompleted,
       CancelAllQueued, ClearAll
  <2>4. q = p
    BY <2>3 DEF Track, Add, Refuse, SetBusy, StartItem, BeginScope, FirstCheck, Exists, Await, Transfer,
       FetchFails, Fetched, LastCheck, Post, LeaveScope, ClearBusy, Off, Goto, ReturnsWith, ScopeInv, ScopeTypes
  <2> QED
    BY <2>2, <2>3, <2>4 DEF Track, Add, Refuse, SetBusy, StartItem, BeginScope, FirstCheck, Exists, Await, Transfer,
       FetchFails, Fetched, Post, LeaveScope, ClearBusy, Off, Goto, ReturnsWith, ScopeInv, ScopeTypes
<1> QED
  BY <1>1, ScopeInvariant, PTL DEF Spec, StopReachesAll

-----------------------------------------------------------------------------
(* What progress is bound to: a call that does not run has none, and while *)
(* the worker is alone the current item is its own, or none after a stop.  *)
ProgressInv ==
  /\ pc \in [Callers -> Phases]
  /\ item \in [Callers -> Items \cup {NoItem}] /\ seen \in [Callers -> Items \cup {NoItem}]
  /\ current \in Items \cup {NoItem}
  /\ \A p \in Callers : pc[p] = "off" => seen[p] = NoItem
  /\ used = {} =>
       /\ \A p \in Webs : pc[p] = "off"
       /\ pc[Worker] \in {"started"} \cup InScope => current \in {item[Worker], NoItem}
       /\ seen[Worker] \in {item[Worker], NoItem}

(* Whoever raises the flag is on its way, and lowers it before it is off.  *)
LEMMA FlagStep == FlagComesDown /\ pc \in [Callers -> Phases] /\ [Next]_vars => FlagComesDown'
<1> SUFFICES ASSUME FlagComesDown, pc \in [Callers -> Phases], [Next]_vars PROVE FlagComesDown'
  OBVIOUS
<1>1. ASSUME NEW p \in Callers, Track(p) PROVE FlagComesDown'
  <2>1. CASE SetBusy(p)
    BY <2>1 DEF SetBusy, Goto, FlagComesDown
  <2>2. CASE ClearBusy(p)
    BY <2>2 DEF ClearBusy, BusyAfter, FlagComesDown
  <2>3. CASE ~SetBusy(p) /\ ~ClearBusy(p)
    <3>1. busy' = busy
      BY <1>1, <2>3 DEF Track, Add, Refuse, StartItem, BeginScope, FirstCheck, Exists, Await, Transfer,
         FetchFails, Fetched, LastCheck, Post, LeaveScope, displayVars
    <3>2. \/ \A q \in Callers : pc[q] \in {"off", "added"} <=> pc'[q] \in {"off", "added"}
      BY <1>1, <2>3 DEF Track, Add, Refuse, StartItem, BeginScope, FirstCheck, Exists, Await, Transfer,
         FetchFails, Fetched, LastCheck, Post, LeaveScope, ReturnsWith, Off, Goto
    <3> QED
      BY <3>1, <3>2 DEF FlagComesDown
  <2> QED
    BY <2>1, <2>2, <2>3
<1>2. CASE Stop \/ Edit
  BY <1>2 DEF Stop, StopTake, StopFire, StopRows, StopCurrent, StopFlag, Edit, ClearCompleted, CancelAllQueued,
     ClearAll, displayVars, FlagComesDown
<1>3. CASE UNCHANGED vars
  BY <1>3 DEF vars, FlagComesDown
<1> QED
  BY <1>1, <1>2, <1>3 DEF Next

(* Its steps keep what the progress of a call is bound to: the item that is*)
(* current between StartItem and the end of the scope is the worker's own. *)
LEMMA ProgressStep == ProgressInv /\ [Next]_vars => ProgressInv'
<1> SUFFICES ASSUME ProgressInv, [Next]_vars PROVE ProgressInv'
  OBVIOUS
<1> USE DEF ProgressInv, callVars, displayVars, Phases, InScope, Callers
<1>1. ASSUME NEW p \in Callers, Track(p) PROVE ProgressInv'
  <2>1. ASSUME NEW i \in Items, Add(p, i) PROVE ProgressInv'
    BY <2>1, TrackAssumption DEF Add, Goto
  <2>2. CASE Refuse(p) \/ ClearBusy(p)
    BY <2>2, TrackAssumption DEF Refuse, ClearBusy, Off, Goto
  <2>3. CASE SetBusy(p) \/ BeginScope(p) \/ Fetched(p)
    BY <2>3, TrackAssumption DEF SetBusy, BeginScope, Fetched, Goto
  <2>4. CASE StartItem(p)
    BY <2>4, TrackAssumption DEF StartItem, Goto, MadeCurrent
  <2>5. CASE FirstCheck(p) \/ Exists(p) \/ FetchFails(p) \/ LastCheck(p) \/ Post(p)
    BY <2>5, TrackAssumption DEF FirstCheck, Exists, FetchFails, LastCheck, Post, ReturnsWith, Goto
  <2>6. CASE Await(p) \/ Transfer(p)
    BY <2>6, TrackAssumption DEF Await, Transfer, Goto
  <2>7. CASE LeaveScope(p)
    BY <2>7, TrackAssumption DEF LeaveScope, Goto
  <2> QED
    BY <1>1, <2>1, <2>2, <2>3, <2>4, <2>5, <2>6, <2>7 DEF Track
<1>2. CASE Stop \/ Edit
  BY <1>2, TrackAssumption DEF Stop, StopTake, StopFire, StopRows, StopCurrent, StopFlag, Edit, ClearCompleted, CancelAllQueued,
     ClearAll
<1>3. CASE UNCHANGED vars
  BY <1>3 DEF vars
<1> QED
  BY <1>1, <1>2, <1>3 DEF Next

(* Nothing downloads at first.                                             *)
LEMMA FlagInit == Init => FlagComesDown
BY DEF Init, FlagComesDown

(* Nobody's progress is bound at first.                                    *)
LEMMA ProgressInit == Init => ProgressInv
BY TrackAssumption DEF Init, ProgressInv, Phases, InScope, Callers

(* The is_downloading flag (progress.go:100-125) is down when no download  *)
(* is under way, in every order of overlapping calls and stops.            *)
THEOREM FlagIsHonest == Spec => []FlagComesDown
<1>1. ScopeInv => pc \in [Callers -> Phases]
  BY DEF ScopeInv, ScopeTypes
<1> QED
  BY <1>1, ScopeInvariant, FlagInit, FlagStep, PTL DEF Spec

(* The worker's bytes are booked on its own item, or on none after a stop, *)
(* as long as no web page downloads beside it (progress.go:220-222).       *)
THEOREM ProgressStaysOwn == Spec => []ProgressIsOwn
<1>1. ProgressInv => ProgressIsOwn
  BY DEF ProgressInv, ProgressIsOwn
<1> QED
  BY <1>1, ProgressInit, ProgressStep, PTL DEF Spec

-----------------------------------------------------------------------------
(* A row may say "downloading" from StartItem until the call returns.      *)
Shows == {"started"} \cup (InScope \ {"leave"})

(* Two calls never have one item: the worker makes one call at a time, and *)
(* a web page's item is used once.                                         *)
ItemsApart ==
  /\ \A p \in Callers : pc[p] = "off" <=> item[p] = NoItem
  /\ item[Worker] \notin WebItems
  /\ \A p \in Webs : item[p] \in used \cup {NoItem}
  /\ \A p, q \in Callers : item[p] = item[q] /\ item[p] # NoItem => p = q

(* A row that says "downloading" is the first of its item, which is where  *)
(* the call that downloads it will put its end.                            *)
RowsAreCalls ==
  \A k \in DOMAIN rows : rows[k].status = "downloading" =>
    /\ IsFirst(k, rows[k].item)
    /\ \E p \in Callers : item[p] = rows[k].item /\ pc[p] \in Shows

DisplayInv == TypeOK /\ ItemsApart /\ RowsAreCalls

(* Mark changes the status of the first row of an item and nothing else.   *)
LEMMA Marked ==
  ASSUME rows \in Seq(DisplayRow), NEW i \in Items, NEW status \in RowStatuses, Mark(i, status)
  PROVE  /\ rows' \in Seq(DisplayRow) /\ DOMAIN rows' = DOMAIN rows
         /\ \A k \in DOMAIN rows : /\ rows'[k].item = rows[k].item
                                   /\ rows'[k].status = IF IsFirst(k, i) THEN status ELSE rows[k].status
<1>1. DOMAIN rows = 1..Len(rows) /\ Len(rows) \in Nat
  OBVIOUS
<1>2. rows' = [k \in 1..Len(rows) |-> IF IsFirst(k, i) THEN [item |-> i, status |-> status] ELSE rows[k]]
  BY <1>1 DEF Mark
<1>3. \A k \in 1..Len(rows) : rows[k] \in DisplayRow
  OBVIOUS
<1>4. [item |-> i, status |-> status] \in DisplayRow
  BY DEF DisplayRow
<1>5. \A k \in 1..Len(rows) : rows'[k] \in DisplayRow
  BY <1>2, <1>3, <1>4
<1>6. rows' \in Seq(DisplayRow)
  BY <1>1, <1>2, <1>5
<1>7. ASSUME NEW k \in 1..Len(rows)
      PROVE  /\ rows'[k].item = rows[k].item
             /\ rows'[k].status = IF IsFirst(k, i) THEN status ELSE rows[k].status
  BY <1>2 DEF IsFirst
<1> QED
  BY <1>1, <1>2, <1>6, <1>7

(* Rows that are given up keep their items, and none begins to download.   *)
LEMMA GivenUpRows ==
  ASSUME rows \in Seq(DisplayRow), NEW statuses,
         rows' = [k \in DOMAIN rows |-> GivenUp(rows[k], statuses)]
  PROVE  /\ rows' \in Seq(DisplayRow) /\ DOMAIN rows' = DOMAIN rows
         /\ \A k \in DOMAIN rows : /\ rows'[k].item = rows[k].item
                                   /\ rows'[k].status \in {rows[k].status, "skipped"}
<1>1. DOMAIN rows = 1..Len(rows) /\ Len(rows) \in Nat
  OBVIOUS
<1>2. \A k \in 1..Len(rows) : rows[k] \in DisplayRow
  OBVIOUS
<1>3. ASSUME NEW k \in 1..Len(rows)
      PROVE  /\ rows'[k] \in DisplayRow /\ rows'[k].item = rows[k].item
             /\ rows'[k].status \in {rows[k].status, "skipped"}
  BY <1>1, <1>2 DEF GivenUp, DisplayRow, RowStatuses
<1>4. rows' \in Seq(DisplayRow)
  BY <1>1, <1>3
<1> QED
  BY <1>1, <1>3, <1>4

(* What Sift keeps of the rows are rows, in their order.                   *)
LEMMA SiftedRows ==
  ASSUME rows \in Seq(DisplayRow), rows' = Sift(rows, LiveRow)
  PROVE  /\ rows' \in Seq(DisplayRow)
         /\ \E e \in [DOMAIN rows' -> DOMAIN rows] :
              /\ \A k \in DOMAIN rows' : rows'[k] = rows[e[k]]
              /\ \A k, l \in DOMAIN rows' : k < l => e[k] < e[l]
<1>1. rows' \in Seq(DisplayRow)
  BY SiftEmbeds
<1>2. \E e : Embeds(rows, LiveRow, Len(rows), Sift(rows, LiveRow), e)
  BY SiftEmbeds
<1>3. PICK e : Embeds(rows, LiveRow, Len(rows), Sift(rows, LiveRow), e)
  BY <1>2
<1>4. DOMAIN rows = 1..Len(rows) /\ DOMAIN rows' = 1..Len(rows')
  BY <1>1
<1>5. e \in [DOMAIN rows' -> DOMAIN rows]
  BY <1>3, <1>4 DEF Embeds
<1>6. \A k \in DOMAIN rows' : rows'[k] = rows[e[k]]
  BY <1>3, <1>4 DEF Embeds
<1>7. \A k, l \in DOMAIN rows' : k < l => e[k] < e[l]
  BY <1>3, <1>4 DEF Embeds
<1> QED
  BY <1>1, <1>5, <1>6, <1>7

(* A call that moves on leaves the rows alone or marks the one of its item.*)
LEMMA CallsMark ==
  ASSUME TypeOK, ItemsApart, NEW p \in Callers, Track(p)
  PROVE  \/ \E i \in Items : Add(p, i)
         \/ UNCHANGED rows
         \/ StartItem(p) /\ item[p] \in Items
         \/ \E status \in RowStatuses \ {"downloading"} : 
              Mark(item[p], status) /\ item[p] \in Items /\ UNCHANGED item
              /\ pc' = [pc EXCEPT ![p] = "leave"]
<1>1. pc[p] # "off" => item[p] \in Items
  BY DEF TypeOK, ItemsApart
<1>2. ASSUME NEW from \in Phases \ {"off"}, NEW status \in RowStatuses \ {"downloading"},
             ReturnsWith(p, from, status)
      PROVE  Mark(item[p], status) /\ item[p] \in Items /\ pc' = [pc EXCEPT ![p] = "leave"]
  BY <1>1, <1>2 DEF ReturnsWith, Goto
<1>3. ASSUME FirstCheck(p) \/ Exists(p) \/ LastCheck(p) \/ Post(p) \/ FetchFails(p), rows' # rows
      PROVE  UNCHANGED item /\ \E from \in Phases \ {"off"}, status \in RowStatuses \ {"downloading"} :
                ReturnsWith(p, from, status)
  BY <1>3 DEF FirstCheck, Exists, LastCheck, Post, FetchFails, callVars, Phases, RowStatuses
<1>4. ASSUME Refuse(p) \/ SetBusy(p) \/ BeginScope(p) \/ Await(p) \/ Transfer(p) \/ Fetched(p) \/ LeaveScope(p)
             \/ ClearBusy(p)
      PROVE  UNCHANGED rows
  BY <1>4 DEF Refuse, SetBusy, BeginScope, Await, Transfer, Fetched, LeaveScope, ClearBusy, displayVars
<1>5. StartItem(p) => item[p] \in Items
  BY <1>1 DEF StartItem, Goto
<1> QED
  BY <1>2, <1>3, <1>4, <1>5 DEF Track

(* Every step keeps the rows rows.                                         *)
LEMMA RowsTyped == TypeOK /\ ItemsApart /\ [Next]_vars => rows' \in Seq(DisplayRow)
<1> SUFFICES ASSUME TypeOK, ItemsApart, [Next]_vars PROVE rows' \in Seq(DisplayRow)
  OBVIOUS
<1>0. rows \in Seq(DisplayRow)
  BY DEF TypeOK
<1>1. ASSUME NEW p \in Callers, Track(p) PROVE rows' \in Seq(DisplayRow)
  <2>1. ASSUME NEW i \in Items, Add(p, i) PROVE rows' \in Seq(DisplayRow)
    <3>1. [item |-> i, status |-> "queued"] \in DisplayRow
      BY DEF DisplayRow, RowStatuses
    <3> QED
      BY <1>0, <2>1, <3>1 DEF Add, AddToQueue
  <2>2. ASSUME StartItem(p), item[p] \in Items PROVE rows' \in Seq(DisplayRow)
    BY <1>0, <2>2, Marked DEF StartItem, RowStatuses
  <2> QED
    BY <1>0, <1>1, <2>1, <2>2, CallsMark, Marked
<1>2. CASE StopRows \/ CancelAllQueued
  BY <1>0, <1>2, GivenUpRows DEF StopRows, CancelAllQueued
<1>3. CASE ClearCompleted
  BY <1>0, <1>3, SiftedRows DEF ClearCompleted
<1>4. CASE ClearAll
  BY <1>4 DEF ClearAll
<1>5. CASE StopTake \/ StopFire \/ StopCurrent \/ StopFlag \/ UNCHANGED vars
  BY <1>0, <1>5 DEF StopTake, StopFire, StopCurrent, StopFlag, vars, displayVars
<1> QED
  BY <1>1, <1>2, <1>3, <1>4, <1>5 DEF Next, Stop, Edit

(* Every step of a caller keeps the other types.                           *)
LEMMA CallTypes == 
  ASSUME TypeOK, rows' \in Seq(DisplayRow), NEW p \in Callers, Track(p)
  PROVE  TypeOK'
<1> USE TrackAssumption DEF TypeOK, callVars, scopeVars, displayVars, counts, Phases, Goto, Off
<1>1. ASSUME NEW i \in Items, Add(p, i) PROVE TypeOK'
  BY <1>1 DEF Add, Items
<1>2. CASE Refuse(p)
  BY <1>2 DEF Refuse
<1>10. CASE SetBusy(p)
  BY <1>10 DEF SetBusy
<1>3. CASE StartItem(p)
  BY <1>3 DEF StartItem, MadeCurrent
<1>4. CASE BeginScope(p)
  <2>1. ctx' \in Nat /\ lastCtx' \in Nat /\ active' \in Nat
    BY <1>4 DEF BeginScope
  <2>2. stopping' \in BOOLEAN
    BY <1>4 DEF BeginScope
  <2> QED
    BY <1>4, <2>1, <2>2 DEF BeginScope
<1>5. CASE FirstCheck(p) \/ Exists(p) \/ Fetched(p) \/ LastCheck(p) \/ Post(p)
  BY <1>5 DEF FirstCheck, Exists, Fetched, LastCheck, Post, ReturnsWith
<1>6. CASE FetchFails(p)
  BY <1>6 DEF FetchFails, ReturnsWith
<1>7. CASE Await(p) \/ Transfer(p)
  <2>1. seen' \in [Callers -> Items \cup {NoItem}]
    BY <1>7 DEF Await, Transfer
  <2>2. CASE Await(p)
    BY <2>1, <2>2 DEF Await
  <2>3. CASE Transfer(p)
    BY <2>1, <2>3 DEF Transfer
  <2> QED
    BY <1>7, <2>2, <2>3
<1>8. CASE LeaveScope(p)
  <2>1. active' \in Nat
    BY <1>8 DEF LeaveScope
  <2>3. (ctx' = 0 \/ ctx' = ctx) /\ (dead' = dead \cup {ctx} \/ dead' = dead)
    BY <1>8 DEF LeaveScope, ClosedContext
  <2>2. stopping' \in BOOLEAN
    BY <1>8 DEF LeaveScope
  <2> QED
    BY <1>8, <2>1, <2>2, <2>3 DEF LeaveScope
<1>9. CASE ClearBusy(p)
  BY <1>9 DEF ClearBusy, BusyAfter
<1> QED
  BY <1>1, <1>2, <1>3, <1>4, <1>5, <1>6, <1>7, <1>8, <1>9, <1>10 DEF Track

(* So does every other step.                                               *)
LEMMA TypeStep == TypeOK /\ ItemsApart /\ [Next]_vars => TypeOK'
<1> SUFFICES ASSUME TypeOK, ItemsApart, [Next]_vars PROVE TypeOK'
  OBVIOUS
<1>0. rows' \in Seq(DisplayRow)
  BY RowsTyped
<1>1. ASSUME NEW p \in Callers, Track(p) PROVE TypeOK'
  BY <1>0, <1>1, CallTypes
<1> USE TrackAssumption DEF TypeOK, callVars, scopeVars, displayVars, counts
<1>2. CASE StopTake
  BY <1>2 DEF StopTake
<1>3. CASE StopFire
  BY <1>3 DEF StopFire
<1>4. CASE StopRows \/ StopCurrent \/ StopFlag
  <2>1. CASE StopRows
    BY <1>0, <2>1 DEF StopRows
  <2>2. CASE StopCurrent
    BY <2>2 DEF StopCurrent
  <2>3. CASE StopFlag
    BY <2>3 DEF StopFlag
  <2> QED
    BY <1>4, <2>1, <2>2, <2>3
<1>5. CASE ClearCompleted \/ CancelAllQueued
  <2>1. edits' \in Nat
    BY <1>5 DEF ClearCompleted, CancelAllQueued
  <2>2. UNCHANGED <<pc, callVars, scopeVars, current, busy, stop, told, used, runs, stops>>
    BY <1>5 DEF ClearCompleted, CancelAllQueued
  <2> QED
    BY <1>0, <2>1, <2>2
<1>7. CASE ClearAll
  BY <1>0, <1>7 DEF ClearAll
<1>6. CASE UNCHANGED vars
  BY <1>6 DEF vars
<1> QED
  BY <1>1, <1>2, <1>3, <1>4, <1>5, <1>6, <1>7 DEF Next, Stop, Edit

(* A call gets an item nobody else has, and keeps it until it is off.      *)
LEMMA ApartStep == TypeOK /\ ItemsApart /\ [Next]_vars => ItemsApart'
<1> SUFFICES ASSUME TypeOK, ItemsApart, [Next]_vars PROVE ItemsApart'
  OBVIOUS
<1>1. ASSUME NEW p \in Callers, Track(p) PROVE ItemsApart'
  <2>0. pc \in [Callers -> Phases] /\ item \in [Callers -> Items \cup {NoItem}] /\ used \subseteq WebItems
    BY DEF TypeOK
  <2>1. ASSUME NEW i \in Items, Add(p, i) PROVE ItemsApart'
    <3>1. pc[p] = "off" /\ pc' = [pc EXCEPT ![p] = "added"] /\ item' = [item EXCEPT ![p] = i] /\ i # NoItem
      BY <2>1, TrackAssumption DEF Add, Goto
    <3>2. IF p = Worker THEN i \in WorkerItems /\ used' = used ELSE i \in WebItems \ used /\ used' = used \cup {i}
      BY <2>1 DEF Add
    <3>3. \A q \in Callers : item[q] # i
      <4>1. \A q \in Webs : item[q] \in used \cup {NoItem}
        BY DEF ItemsApart
      <4>2. item[Worker] \notin WebItems
        BY DEF ItemsApart
      <4>3. p = Worker => item[p] = NoItem
        BY <3>1 DEF ItemsApart
      <4> QED
        BY <2>0, <3>1, <3>2, <4>1, <4>2, <4>3, TrackAssumption DEF Callers
    <3>4. \A q \in Callers : pc'[q] = "off" <=> item'[q] = NoItem
      BY <2>0, <3>1 DEF ItemsApart
    <3>5. item'[Worker] \notin WebItems /\ \A q \in Webs : item'[q] \in used' \cup {NoItem}
      BY <2>0, <3>1, <3>2, TrackAssumption DEF ItemsApart, Callers
    <3>6. \A q, r \in Callers : item'[q] = item'[r] /\ item'[q] # NoItem => q = r
      BY <2>0, <3>1, <3>3 DEF ItemsApart
    <3> QED
      BY <3>4, <3>5, <3>6 DEF ItemsApart
  <2>2. ASSUME NEW from \in Phases, Off(p, from), used' = used PROVE ItemsApart'
    <3>1. pc' = [pc EXCEPT ![p] = "off"] /\ item' = [item EXCEPT ![p] = NoItem]
      BY <2>2 DEF Off, Goto
    <3>2. \A q \in Callers : pc'[q] = "off" <=> item'[q] = NoItem
      BY <2>0, <3>1 DEF ItemsApart
    <3>3. item'[Worker] \in {item[Worker], NoItem} /\ NoItem \notin WebItems
      BY <2>0, <3>1, TrackAssumption DEF Callers, Items
    <3>4. \A q \in Webs : item'[q] \in used' \cup {NoItem}
      BY <2>0, <2>2, <3>1 DEF ItemsApart, Callers
    <3>5. \A q, r \in Callers : item'[q] = item'[r] /\ item'[q] # NoItem => q = r
      BY <2>0, <3>1 DEF ItemsApart
    <3> QED
      BY <3>2, <3>3, <3>4, <3>5 DEF ItemsApart
  <2>3. ASSUME UNCHANGED <<item, used>>, NEW from \in Phases \ {"off"}, NEW to \in Phases \ {"off"}, Goto(p, from, to)
        PROVE  ItemsApart'
    BY <2>0, <2>3 DEF Goto, ItemsApart
  <2>4. CASE Refuse(p) \/ ClearBusy(p)
    BY <2>2, <2>4 DEF Refuse, ClearBusy, Phases
  <2>5. CASE SetBusy(p) \/ StartItem(p) \/ BeginScope(p) \/ FirstCheck(p) \/ Exists(p) \/ Await(p) \/ Transfer(p)
             \/ FetchFails(p) \/ Fetched(p) \/ LastCheck(p) \/ Post(p) \/ LeaveScope(p)
    <3>1. UNCHANGED <<item, used>>
      BY <2>5 DEF SetBusy, StartItem, BeginScope, FirstCheck, Exists, Await, Transfer, FetchFails, Fetched,
         LastCheck, Post, LeaveScope, callVars
    <3>2. \E from, to \in Phases \ {"off"} : Goto(p, from, to)
      BY <2>5 DEF SetBusy, StartItem, BeginScope, FirstCheck, Exists, Await, Transfer, FetchFails, Fetched,
         LastCheck, Post, LeaveScope, ReturnsWith, Phases
    <3> QED
      BY <2>3, <3>1, <3>2
  <2> QED
    BY <1>1, <2>1, <2>4, <2>5 DEF Track
<1>2. CASE Stop \/ Edit \/ UNCHANGED vars
  <2>1. UNCHANGED <<pc, item, used>>
    BY <1>2 DEF Stop, StopTake, StopFire, StopRows, StopCurrent, StopFlag, Edit, ClearCompleted, CancelAllQueued,
       ClearAll, vars, callVars
  <2> QED
    BY <2>1 DEF ItemsApart
<1> QED
  BY <1>1, <1>2 DEF Next

(* Who shows a row as downloading goes on to, unless it returns.           *)
LEMMA ShowsOn ==
  ASSUME TypeOK, NEW p \in Callers, Track(p), NEW q \in Callers, pc[q] \in Shows, pc'[q] \notin Shows
  PROVE  q = p /\ \E status \in RowStatuses \ {"downloading"} : Mark(item[p], status)
<1>0. pc \in [Callers -> Phases]
  BY DEF TypeOK
<1>1. ASSUME FirstCheck(p) \/ Exists(p) \/ LastCheck(p) \/ Post(p) \/ FetchFails(p)
      PROVE  \/ \E from \in Phases, status \in {"skipped", "failed", "completed"} : ReturnsWith(p, from, status)
             \/ Goto(p, "check", "fetch") \/ Goto(p, "landed", "post")
  BY <1>1 DEF FirstCheck, Exists, LastCheck, Post, FetchFails, Phases
<1>2. CASE FirstCheck(p) \/ Exists(p) \/ LastCheck(p) \/ Post(p) \/ FetchFails(p)
  <2>1. CASE Goto(p, "check", "fetch") \/ Goto(p, "landed", "post")
    BY <1>0, <2>1 DEF Goto, Shows, InScope
  <2>2. ASSUME NEW from \in Phases, NEW status \in {"skipped", "failed", "completed"}, ReturnsWith(p, from, status)
        PROVE  q = p /\ Mark(item[p], status)
    BY <1>0, <2>2 DEF ReturnsWith, Goto
  <2>3. {"skipped", "failed", "completed"} \subseteq RowStatuses \ {"downloading"}
    BY DEF RowStatuses
  <2> QED
    BY <1>1, <1>2, <2>1, <2>2, <2>3
<1>3. CASE ~(FirstCheck(p) \/ Exists(p) \/ LastCheck(p) \/ Post(p) \/ FetchFails(p))
  BY <1>0, <1>3 DEF Track, Add, Refuse, SetBusy, StartItem, BeginScope, Await, Transfer, Fetched, LeaveScope,
     ClearBusy, Off, Goto, Shows, InScope
<1> QED
  BY <1>2, <1>3

(* The step of a caller other than Add and StartItem keeps the rows' calls. *)
LEMMA MarkStep ==
  ASSUME DisplayInv, NEW p \in Callers, Track(p),
         \/ UNCHANGED rows
         \/ \E status \in RowStatuses \ {"downloading"} : Mark(item[p], status) /\ item[p] \in Items,
         \A q \in Callers : pc[q] \in Shows => item'[q] = item[q]
  PROVE  RowsAreCalls'
<1>0. rows \in Seq(DisplayRow)
  BY DEF DisplayInv, TypeOK
<1>1. /\ DOMAIN rows' = DOMAIN rows
      /\ \A k \in DOMAIN rows : /\ rows'[k].item = rows[k].item
                                /\ rows'[k].status = "downloading" => rows[k].status = "downloading"
  BY <1>0, Marked
<1>2. ASSUME NEW k \in DOMAIN rows, rows'[k].status = "downloading"
      PROVE  /\ IsFirst(k, rows[k].item)'
             /\ \E q \in Callers : item'[q] = rows'[k].item /\ pc'[q] \in Shows
  <2>1. IsFirst(k, rows[k].item)
    BY <1>1, <1>2 DEF DisplayInv, RowsAreCalls
  <2>2. PICK q \in Callers : item[q] = rows[k].item /\ pc[q] \in Shows
    BY <1>1, <1>2 DEF DisplayInv, RowsAreCalls
  <2>3. DOMAIN rows = 1..Len(rows)
    BY <1>0
  <2>4. rows'[k].item = rows[k].item /\ \A l \in 1..k - 1 : rows'[l].item # rows[k].item
    BY <1>1, <2>1, <2>3 DEF IsFirst
  <2>5. pc'[q] \in Shows
    <3> SUFFICES ASSUME pc'[q] \notin Shows PROVE FALSE
      OBVIOUS
    <3>1. PICK status \in RowStatuses \ {"downloading"} : q = p /\ Mark(item[p], status)
      BY <2>2, ShowsOn DEF DisplayInv
    <3>2. rows[k] \in DisplayRow
      BY <1>0
    <3>3. item[p] = rows[k].item /\ item[p] \in Items
      BY <2>2, <3>1, <3>2 DEF DisplayRow
    <3>4. rows'[k].status = status
      BY <1>0, <2>1, <3>1, <3>3, Marked
    <3> QED
      BY <1>2, <3>1, <3>4
  <2> QED
    BY <1>1, <2>2, <2>4, <2>5 DEF IsFirst
<1> QED
  BY <1>1, <1>2 DEF RowsAreCalls, IsFirst

(* Every step keeps the calls behind the rows that say "downloading".      *)
LEMMA RowsStep == DisplayInv /\ [Next]_vars => RowsAreCalls'
<1> SUFFICES ASSUME DisplayInv, [Next]_vars PROVE RowsAreCalls'
  OBVIOUS
<1>0. rows \in Seq(DisplayRow) /\ DOMAIN rows = 1..Len(rows) /\ Len(rows) \in Nat
  BY DEF DisplayInv, TypeOK
<1>t. pc \in [Callers -> Phases] /\ item \in [Callers -> Items \cup {NoItem}]
  BY DEF DisplayInv, TypeOK
<1>1. ASSUME NEW p \in Callers, Track(p) PROVE RowsAreCalls'
  <2>1. ASSUME NEW i \in Items, Add(p, i) PROVE RowsAreCalls'
    <3> DEFINE row == [item |-> i, status |-> "queued"]
    <3>1. rows' = Append(rows, row) /\ row \in DisplayRow
      BY <2>1 DEF Add, AddToQueue, DisplayRow, RowStatuses
    <3>2. /\ DOMAIN rows' = 1..Len(rows) + 1 /\ rows'[Len(rows) + 1] = row
          /\ \A k \in 1..Len(rows) : rows'[k] = rows[k]
      BY <1>0, <3>1
    <3>3. \A q \in Callers : pc[q] \in Shows => q # p /\ item'[q] = item[q] /\ pc'[q] = pc[q]
      BY <1>t, <2>1 DEF Add, Goto, Shows, InScope
    <3>4. row.status # "downloading"
      OBVIOUS
    <3> HIDE DEF row
    <3>5. ASSUME NEW k \in DOMAIN rows', rows'[k].status = "downloading"
          PROVE  IsFirst(k, rows[k].item)' /\ rows'[k] = rows[k]
                 /\ \E q \in Callers : item'[q] = rows'[k].item /\ pc'[q] \in Shows
      <4>1. k \in 1..Len(rows) /\ rows'[k] = rows[k]
        BY <1>0, <3>2, <3>4, <3>5
      <4>2. IsFirst(k, rows[k].item) /\ \E q \in Callers : item[q] = rows[k].item /\ pc[q] \in Shows
        BY <1>0, <3>5, <4>1 DEF DisplayInv, RowsAreCalls
      <4>3. \A l \in 1..k - 1 : rows'[l] = rows[l]
        BY <1>0, <3>2, <4>1
      <4> QED
        BY <3>3, <4>1, <4>2, <4>3 DEF IsFirst
    <3> QED
      BY <3>5 DEF RowsAreCalls, IsFirst
  <2>2. ASSUME StartItem(p), item[p] \in Items PROVE RowsAreCalls'
    <3>1. /\ DOMAIN rows' = DOMAIN rows
          /\ \A k \in DOMAIN rows : /\ rows'[k].item = rows[k].item
                                    /\ rows'[k].status = IF IsFirst(k, item[p]) THEN "downloading" ELSE rows[k].status
      BY <1>0, <2>2, Marked DEF StartItem, RowStatuses
    <3>2. pc' = [pc EXCEPT ![p] = "started"] /\ item' = item
      BY <2>2 DEF StartItem, Goto, callVars
    <3>3. ASSUME NEW k \in DOMAIN rows, NEW i PROVE IsFirst(k, i)' <=> IsFirst(k, i)
      <4>1. \A l \in 1..k - 1 : l \in DOMAIN rows
        BY <1>0
      <4>2. \A l \in 1..k - 1 : rows'[l].item = rows[l].item
        BY <3>1, <4>1
      <4>3. rows'[k].item = rows[k].item
        BY <3>1
      <4> QED
        BY <4>2, <4>3 DEF IsFirst
    <3>4. ASSUME NEW k \in DOMAIN rows, rows'[k].status = "downloading"
          PROVE  IsFirst(k, rows[k].item) /\ \E q \in Callers : item'[q] = rows[k].item /\ pc'[q] \in Shows
      <4>1. CASE IsFirst(k, item[p])
        BY <1>t, <3>2, <4>1 DEF IsFirst, Shows
      <4>2. CASE ~IsFirst(k, item[p])
        BY <1>t, <3>1, <3>2, <3>4, <4>2 DEF DisplayInv, RowsAreCalls, Shows
      <4> QED
        BY <4>1, <4>2
    <3> QED
      BY <3>1, <3>3, <3>4 DEF RowsAreCalls, IsFirst
  <2>3. CASE ~StartItem(p) /\ ~ \E i \in Items : Add(p, i)
    <3>1. \/ UNCHANGED rows
          \/ \E status \in RowStatuses \ {"downloading"} : Mark(item[p], status) /\ item[p] \in Items
      BY <1>1, <2>3, CallsMark DEF DisplayInv
    <3>2. \A q \in Callers : pc[q] \in Shows => item'[q] = item[q]
      BY <1>1, <1>t, <2>3 DEF Track, Refuse, SetBusy, BeginScope, FirstCheck, Exists, Await, Transfer, FetchFails,
         Fetched, LastCheck, Post, LeaveScope, ClearBusy, Off, Goto, callVars, Shows, InScope
    <3> QED
      BY <1>1, <3>1, <3>2, MarkStep
  <2>4. StartItem(p) => item[p] \in Items
    BY <1>t DEF StartItem, Goto, DisplayInv, ItemsApart
  <2> QED
    BY <2>1, <2>2, <2>3, <2>4
<1>2. CASE StopRows \/ CancelAllQueued
  <2>1. \E statuses : rows' = [k \in DOMAIN rows |-> GivenUp(rows[k], statuses)]
    BY <1>2 DEF StopRows, CancelAllQueued
  <2>2. UNCHANGED <<pc, item>>
    BY <1>2 DEF StopRows, CancelAllQueued, callVars
  <2>3. /\ DOMAIN rows' = DOMAIN rows
        /\ \A k \in DOMAIN rows : /\ rows'[k].item = rows[k].item
                                  /\ rows'[k].status \in {rows[k].status, "skipped"}
    BY <1>0, <2>1, GivenUpRows
  <2>4. \A k \in DOMAIN rows : IsFirst(k, rows[k].item)' <=> IsFirst(k, rows[k].item)
    BY <1>0, <2>3 DEF IsFirst
  <2> QED
    BY <2>2, <2>3, <2>4 DEF DisplayInv, RowsAreCalls, IsFirst
<1>3. CASE ClearCompleted
  <2>1. rows' \in Seq(DisplayRow)
        /\ \E e \in [DOMAIN rows' -> DOMAIN rows] :
              /\ \A k \in DOMAIN rows' : rows'[k] = rows[e[k]]
              /\ \A k, l \in DOMAIN rows' : k < l => e[k] < e[l]
    BY <1>0, <1>3, SiftedRows DEF ClearCompleted
  <2>2. PICK e \in [DOMAIN rows' -> DOMAIN rows] :
              /\ \A k \in DOMAIN rows' : rows'[k] = rows[e[k]]
              /\ \A k, l \in DOMAIN rows' : k < l => e[k] < e[l]
    BY <2>1
  <2>3. DOMAIN rows' = 1..Len(rows') /\ Len(rows') \in Nat
    BY <2>1
  <2>4. UNCHANGED <<pc, item>>
    BY <1>3 DEF ClearCompleted, callVars
  <2>5. ASSUME NEW k \in DOMAIN rows', rows'[k].status = "downloading"
        PROVE  /\ \A l \in 1..k - 1 : rows'[l].item # rows'[k].item
               /\ \E q \in Callers : item'[q] = rows'[k].item /\ pc'[q] \in Shows
    <3>1. e[k] \in 1..Len(rows) /\ rows'[k] = rows[e[k]]
      BY <1>0, <2>2
    <3>2. IsFirst(e[k], rows[e[k]].item) /\ \E q \in Callers : item[q] = rows[e[k]].item /\ pc[q] \in Shows
      BY <1>0, <2>5, <3>1 DEF DisplayInv, RowsAreCalls
    <3>3. ASSUME NEW l \in 1..k - 1 PROVE rows'[l].item # rows'[k].item
      <4>1. l \in DOMAIN rows' /\ l < k
        BY <2>3
      <4>2. e[l] \in 1..Len(rows) /\ e[l] < e[k] /\ rows'[l] = rows[e[l]]
        BY <1>0, <2>2, <4>1
      <4>3. e[l] \in 1..e[k] - 1
        BY <1>0, <3>1, <4>2
      <4> QED
        BY <3>1, <3>2, <4>2, <4>3 DEF IsFirst
    <3> QED
      BY <2>4, <3>1, <3>2, <3>3
  <2> QED
    BY <2>5 DEF RowsAreCalls, IsFirst
<1>4. CASE ClearAll
  BY <1>4 DEF ClearAll, RowsAreCalls
<1>5. CASE StopTake \/ StopFire \/ StopCurrent \/ StopFlag \/ UNCHANGED vars
  <2>1. UNCHANGED <<pc, item, rows>>
    BY <1>5 DEF StopTake, StopFire, StopCurrent, StopFlag, vars, displayVars, callVars
  <2> QED
    BY <2>1 DEF DisplayInv, RowsAreCalls, IsFirst
<1> QED
  BY <1>1, <1>2, <1>3, <1>4, <1>5 DEF Next, Stop, Edit

(* Nothing runs and nothing is shown at first.                             *)
LEMMA DisplayInit == Init => DisplayInv
<1> SUFFICES ASSUME Init PROVE DisplayInv
  OBVIOUS
<1>1. rows = <<>> /\ <<>> \in Seq(DisplayRow)
  BY DEF Init
<1>2. TypeOK
  BY <1>1 DEF Init, TypeOK, Phases
<1>3. ItemsApart
  BY TrackAssumption DEF Init, ItemsApart, Callers, Items
<1>4. RowsAreCalls
  BY <1>1 DEF RowsAreCalls
<1> QED
  BY <1>2, <1>3, <1>4 DEF DisplayInv

(* The display queue's invariant holds in every reachable state.           *)
THEOREM DisplayInvariant == Spec => []DisplayInv
<1>1. DisplayInv /\ [Next]_vars => DisplayInv'
  BY TypeStep, ApartStep, RowsStep DEF DisplayInv
<1> QED
  BY <1>1, DisplayInit, PTL DEF Spec

(* Every variable keeps its type.                                          *)
THEOREM TypesKept == Spec => []TypeOK
<1>1. DisplayInv => TypeOK
  BY DEF DisplayInv
<1> QED
  BY <1>1, DisplayInvariant, PTL

(* A row says "downloading" only while a call for its item runs            *)
(* (progress.go:208-330), however often an item is tried, stopped, given up *)
(* and cleared while it runs.                                              *)
THEOREM NoRowIsLeft == Spec => []NoGhostRow
<1>1. DisplayInv => NoGhostRow
  BY DEF DisplayInv, RowsAreCalls, NoGhostRow, Shows
<1> QED
  BY <1>1, DisplayInvariant, PTL
=============================================================================
