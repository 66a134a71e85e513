--------------------------- MODULE GatewayProofs ---------------------------
(***************************************************************************)
(* Proofs about the gateway, for every set of jobs, clients, tracks, parts *)
(* and senders: what it calls ready is whole and is the track asked for.   *)
(***************************************************************************)
EXTENDS Gateway, WellFoundedInduction, TLAPS

(* Steps that leave the job table, the files and the worker's place alone. *)
Quiet == UNCHANGED <<track, state, jobs, disk, content, parts, stuck, left, sender, fpc, active, doomed>>

(* The others.                                                             *)
Loud ==
  \/ Get \/ Begin \/ Send \/ Raises \/ TimesOut \/ Abandon \/ ClearFlag
  \/ Scan \/ Resend \/ Wakes \/ Polls \/ StartDownload
  \/ \E s \in Senders : Take(s) \/ Arrive(s) \/ SenderDone(s) \/ DownloadFails(s)
  \/ Gathered \/ Rename \/ RenameFails \/ Publish \/ End
  \/ \E c \in Clients : \/ \E j \in Jobs, t \in Tracks : Post(c, j, t)
                       \/ Pop(c) \/ Unlink(c)
  \/ Reap \/ \E j \in Jobs : ReapFile(j)

(* Every step is one or the other.                                         *)
LEMMA QuietSteps == [Next]_vars => Quiet \/ Loud
<1> SUFFICES ASSUME [Next]_vars PROVE Quiet \/ Loud
  OBVIOUS
<1> USE DEF Quiet, tableVars, fileVars, fetchVars, senderVars, botVars, clientVars, reapVars, commandVars
<1>1. ASSUME NEW c \in Clients, Put(c) PROVE Quiet
  BY <1>1 DEF Put, At
<1>2. ASSUME NEW c \in Clients, Ready(c) PROVE Quiet
  BY <1>2 DEF Ready, At
<1>3. ASSUME NEW c \in Clients, GiveUp(c) PROVE Quiet
  BY <1>3 DEF GiveUp, At
<1>4. ASSUME NEW c \in Clients, LookUp(c) PROVE Quiet
  BY <1>4 DEF LookUp, At
<1>5. ASSUME NEW c \in Clients, Stream(c) PROVE Quiet
  BY <1>5 DEF Stream, At
<1>6. ASSUME NEW c \in Clients, Delete(c) PROVE Quiet
  BY <1>6 DEF Delete, At
<1>7. ASSUME NEW c \in Clients, DeleteLost(c) PROVE Quiet
  BY <1>7 DEF DeleteLost, At
<1>8. CASE Answers
  BY <1>8 DEF Answers, Receives
<1>9. CASE Tick
  BY <1>9 DEF Tick
<1>10. CASE CommandClear
  BY <1>10 DEF CommandClear
<1>11. CASE CommandCheck
  BY <1>11 DEF CommandCheck
<1>12. CASE CommandReply
  BY <1>12 DEF CommandReply, Receives, NoMessage
<1>13. CASE CommandDone
  BY <1>13 DEF CommandDone
<1>14. ASSUME NEW j \in Jobs, Age(j) PROVE Quiet
  BY <1>14 DEF Age
<1>15. CASE UNCHANGED vars
  BY <1>15 DEF vars
<1> HIDE DEF Quiet
<1> QED
  BY <1>1, <1>2, <1>3, <1>4, <1>5, <1>6, <1>7, <1>8, <1>9, <1>10, <1>11, <1>12, <1>13, <1>14, <1>15 DEF Next, Fetch, Client, Reaper, Command, Loud

(* Initially the table is empty and the worker waits.                      *)
LEMMA InitIInv == Init => IInv
<1> SUFFICES ASSUME Init PROVE IInv
  OBVIOUS
<1> USE GatewayAssumption DEF Init
<1>0. NoMessage \in Message
  BY DEF Message
<1>1. TypeOK
  <2>1. /\ track \in [Jobs -> Tracks \cup {None}] /\ state \in [Jobs -> States]
        /\ content \in [Jobs -> Message] /\ disk \in [Jobs -> {"none", "part", "final"}]
        /\ parts \in [Jobs -> SUBSET Parts] /\ aged \subseteq Jobs
    BY <1>0 DEF States
  <2>2. /\ sender \in [Senders -> Parts \cup {"top", "gone"}] /\ owed \in [Tracks -> Nat]
        /\ cpc \in [Clients -> ClientPCs] /\ cjob \in [Clients -> Jobs \cup {None}]
    BY DEF ClientPCs
  <2>3. queue \in Seq(Jobs) /\ chat \in Seq(Message)
    OBVIOUS
  <2>4. /\ fpc \in FetchPCs /\ active \in Jobs \cup {None} /\ cut \in Nat /\ clock \in 0 .. 2
        /\ command \in {"off", "asking"} /\ commands \in Nat
    BY DEF FetchPCs
  <2>5. resent \in BOOLEAN /\ activity \in BOOLEAN
    OBVIOUS
  <2> QED
    BY <2>1, <2>2, <2>3, <2>4, <2>5 DEF TypeOK
<1>2. IdsInv /\ RemovalInv
  BY DEF IdsInv, RemovalInv
<1>3. FetchInv /\ PartsInv
  BY DEF FetchInv, PartsInv, Resolving
<1>4. ReadyIsWhole /\ ReadyIsItsTrack /\ PartialIsActive
  BY DEF ReadyIsWhole, ReadyIsItsTrack, PartialIsActive
<1> QED
  BY <1>1, <1>2, <1>3, <1>4 DEF IInv

(* Asking the bot adds to the links it has not answered.                   *)
LEMMA AsksCounts ==
  ASSUME owed \in [Tracks -> Nat], NEW t, Asks(t)
  PROVE  owed' \in [Tracks -> Nat]
<1>1. owed' = [u \in Tracks |-> IF u = t THEN owed[u] + 1 ELSE owed[u]]
  BY DEF Asks
<1>2. \A u \in Tracks : owed[u] \in Nat /\ owed[u] + 1 \in Nat
  OBVIOUS
<1> QED
  BY <1>1, <1>2

(* Every step keeps every variable in its type.                            *)
LEMMA TypeStep == TypeOK /\ IdsInv /\ FetchInv /\ [Next]_vars => TypeOK'
<1> SUFFICES ASSUME TypeOK, IdsInv, FetchInv, [Next]_vars PROVE TypeOK'
  OBVIOUS
<1> USE DEF TypeOK, States, FetchPCs, ClientPCs, tableVars, fileVars, fetchVars, senderVars, botVars, clientVars, reapVars, commandVars
<1>1. CASE Get
  BY <1>1 DEF Get, Goto, FetchInv
<1>2. CASE Begin
  <2>1. Len(chat) \in Nat
    OBVIOUS
  <2>2. cut' \in Nat
    BY <1>2, <2>1 DEF Begin
  <2>3. state' \in [Jobs -> States] /\ fpc' \in FetchPCs
    BY <1>2 DEF Begin, Goto, SetState
  <2>4. clock' \in 0 .. 2
    BY <1>2 DEF Begin
  <2>5. resent' \in BOOLEAN
    BY <1>2 DEF Begin
  <2> QED
    BY <1>2, <2>2, <2>3, <2>4, <2>5 DEF Begin
<1>3. CASE Send
  <2>1. owed' \in [Tracks -> Nat]
    BY <1>3, AsksCounts DEF Send
  <2> QED
    BY <1>3, <2>1 DEF Send, Goto
<1>4. CASE Raises
  BY <1>4 DEF Raises, SetState, FetchInv
<1>5. CASE TimesOut
  BY <1>5 DEF TimesOut, Goto, SetState, OutOfTime, FetchInv
<1>6. CASE Abandon
  BY <1>6 DEF Abandon, Goto, FetchInv
<1>7. CASE ClearFlag
  BY <1>7 DEF ClearFlag, Goto, FetchInv
<1>8. CASE Scan
  <2>1. \A k \in Window : chat[k] \in Message
    BY DEF Window
  <2>2. content' \in [Jobs -> Message]
    BY <1>8, <2>1 DEF Scan
  <2> QED
    BY <1>8, <2>2 DEF Scan
<1>9. CASE Resend
  <2>2. resent' \in BOOLEAN
    BY <1>9 DEF Resend
  <2>3. activity' \in BOOLEAN
    BY <1>9 DEF Resend, FlagAfterScan
  <2>1. owed' \in [Tracks -> Nat]
    BY <1>9, AsksCounts DEF Resend
  <2> QED
    BY <1>9, <2>1, <2>2, <2>3 DEF Resend, Goto
<1>10. CASE Wakes
  BY <1>10 DEF Wakes, Goto, FetchInv
<1>11. CASE Polls
  BY <1>11 DEF Polls, Goto, FetchInv
<1>12. CASE StartDownload
  BY <1>12 DEF StartDownload, Goto, SetState, FetchInv
<1>13. ASSUME NEW s \in Senders, Take(s) PROVE TypeOK'
  BY <1>13 DEF Take, FetchInv
<1>14. ASSUME NEW s \in Senders, Arrive(s) PROVE TypeOK'
  BY <1>14 DEF Arrive, FetchInv
<1>15. ASSUME NEW s \in Senders, SenderDone(s) PROVE TypeOK'
  BY <1>15 DEF SenderDone, FetchInv
<1>16. ASSUME NEW s \in Senders, DownloadFails(s) PROVE TypeOK'
  BY <1>16 DEF DownloadFails, Goto, SetState, PartialRemoved, FetchInv
<1>17. CASE Gathered
  BY <1>17 DEF Gathered, Goto, FetchInv
<1>18. CASE Rename
  BY <1>18 DEF Rename, Goto, FetchInv
<1>18a. CASE RenameFails
  BY <1>18a DEF RenameFails, SetState, Goto, FetchInv
<1>19. CASE Publish
  BY <1>19 DEF Publish, Goto, SetState, FetchInv
<1>20. CASE End
  BY <1>20 DEF End, Goto, FetchInv
<1>21. ASSUME NEW c \in Clients, NEW j \in Jobs, NEW t \in Tracks, Post(c, j, t) PROVE TypeOK'
  BY <1>21 DEF Post, At
<1>22. ASSUME NEW c \in Clients, Pop(c) PROVE TypeOK'
  BY <1>22 DEF Pop, At
<1>23. ASSUME NEW c \in Clients, Unlink(c) PROVE TypeOK'
  BY <1>23 DEF Unlink, At, RemovedFile
<1>24. CASE Reap
  BY <1>24 DEF Reap, Stale
<1>25. ASSUME NEW j \in Jobs, ReapFile(j) PROVE TypeOK'
  BY <1>25 DEF ReapFile, RemovedFile
<1>26. ASSUME NEW c \in Clients, Put(c) PROVE TypeOK'
  <2>1. cjob[c] \in Jobs
    BY <1>26 DEF Put, At, IdsInv
  <2>2. queue' \in Seq(Jobs)
    BY <1>26, <2>1 DEF Put
  <2> QED
    BY <1>26, <2>2 DEF Put, At
<1>27. ASSUME NEW c \in Clients, Ready(c) PROVE TypeOK'
  BY <1>27 DEF Ready, At
<1>28. ASSUME NEW c \in Clients, GiveUp(c) PROVE TypeOK'
  BY <1>28 DEF GiveUp, At
<1>29. ASSUME NEW c \in Clients, LookUp(c) PROVE TypeOK'
  BY <1>29 DEF LookUp, At
<1>30. ASSUME NEW c \in Clients, Stream(c) PROVE TypeOK'
  BY <1>30 DEF Stream, At
<1>31. ASSUME NEW c \in Clients, Delete(c) PROVE TypeOK'
  <2>1. cjob[c] \in Jobs
    BY <1>31 DEF Delete, At, IdsInv
  <2> QED
    BY <1>31, <2>1 DEF Delete, At
<1>32. ASSUME NEW c \in Clients, DeleteLost(c) PROVE TypeOK'
  BY <1>32 DEF DeleteLost, At
<1>33. CASE Answers
  BY <1>33 DEF Answers, Receives
<1>34. CASE Tick
  BY <1>34 DEF Tick
<1>35. CASE CommandClear
  BY <1>35 DEF CommandClear
<1>36. CASE CommandCheck
  BY <1>36 DEF CommandCheck
<1>37. CASE CommandReply
  <2>1. NoMessage \in Message
    BY DEF Message
  <2> QED
    BY <1>37, <2>1 DEF CommandReply, Receives
<1>38. CASE CommandDone
  BY <1>38 DEF CommandDone
<1>39. ASSUME NEW j \in Jobs, Age(j) PROVE TypeOK'
  BY <1>39 DEF Age
<1>40. CASE UNCHANGED vars
  BY <1>40 DEF vars
<1> QED
  BY <1>1, <1>2, <1>3, <1>4, <1>5, <1>6, <1>7, <1>8, <1>9, <1>10, <1>11, <1>12, <1>13, <1>14, <1>15, <1>16, <1>17, <1>18, <1>18a, <1>19, <1>20, <1>21, <1>22, <1>23, <1>24, <1>25, <1>26, <1>27, <1>28, <1>29, <1>30, <1>31, <1>32, <1>33, <1>34, <1>35, <1>36, <1>37, <1>38, <1>39, <1>40 DEF Next, Fetch, Client, Reaper, Command

(* Ids stay made up once.                                                  *)
LEMMA IdsStep == TypeOK /\ IdsInv /\ FetchInv /\ [Next]_vars => IdsInv'
<1> SUFFICES ASSUME TypeOK, IdsInv, FetchInv, [Next]_vars PROVE IdsInv'
  OBVIOUS
<1> USE DEF TypeOK, IdsInv, Posted, tableVars, fileVars, fetchVars, senderVars, botVars, clientVars, reapVars, commandVars
<1>1. CASE Get
  BY <1>1 DEF Get, Goto, FetchInv
<1>2. CASE Begin
  BY <1>2 DEF Begin, Goto, SetState, FetchInv
<1>3. CASE Send
  BY <1>3 DEF Send, Goto, Asks, FetchInv
<1>4. CASE Raises
  BY <1>4 DEF Raises, SetState, FetchInv
<1>5. CASE TimesOut
  BY <1>5 DEF TimesOut, Goto, SetState, OutOfTime, FetchInv
<1>6. CASE Abandon
  BY <1>6 DEF Abandon, Goto, FetchInv
<1>7. CASE ClearFlag
  BY <1>7 DEF ClearFlag, Goto, FetchInv
<1>8. CASE Scan
  BY <1>8 DEF Scan, FetchInv
<1>9. CASE Resend
  BY <1>9 DEF Resend, Goto, Asks, FlagAfterScan, FetchInv
<1>10. CASE Wakes
  BY <1>10 DEF Wakes, Goto, FetchInv
<1>11. CASE Polls
  BY <1>11 DEF Polls, Goto, FetchInv
<1>12. CASE StartDownload
  BY <1>12 DEF StartDownload, Goto, SetState, FetchInv
<1>13. ASSUME NEW s \in Senders, Take(s) PROVE IdsInv'
  BY <1>13 DEF Take, FetchInv
<1>14. ASSUME NEW s \in Senders, Arrive(s) PROVE IdsInv'
  BY <1>14 DEF Arrive, FetchInv
<1>15. ASSUME NEW s \in Senders, SenderDone(s) PROVE IdsInv'
  BY <1>15 DEF SenderDone, FetchInv
<1>16. ASSUME NEW s \in Senders, DownloadFails(s) PROVE IdsInv'
  BY <1>16 DEF DownloadFails, Goto, SetState, PartialRemoved, FetchInv
<1>17. CASE Gathered
  BY <1>17 DEF Gathered, Goto, FetchInv
<1>18. CASE Rename
  BY <1>18 DEF Rename, Goto, FetchInv
<1>18a. CASE RenameFails
  BY <1>18a DEF RenameFails, SetState, Goto, FetchInv
<1>19. CASE Publish
  BY <1>19 DEF Publish, Goto, SetState, FetchInv
<1>20. CASE End
  BY <1>20, GatewayAssumption DEF End, Goto
<1>21. ASSUME NEW c \in Clients, NEW j \in Jobs, NEW t \in Tracks, Post(c, j, t) PROVE IdsInv'
  BY <1>21 DEF Post, At
<1>22. ASSUME NEW c \in Clients, Pop(c) PROVE IdsInv'
  <2>1. \A d \in Clients : cpc'[d] = "idle" <=> cjob'[d] = None
    BY <1>22, GatewayAssumption DEF Pop, At
  <2>2. \A d \in Clients : cjob'[d] \in Jobs => cjob'[d] = cjob[d]
    BY <1>22, GatewayAssumption DEF Pop, At
  <2>3. (\A k \in DOMAIN queue' : Posted(queue'[k])) /\ (\A k \in jobs' \cup doomed' : Posted(k))
    BY <1>22 DEF Pop, At
  <2> QED
    BY <1>22, <2>1, <2>2, <2>3 DEF Pop, At
<1>23. ASSUME NEW c \in Clients, Unlink(c) PROVE IdsInv'
  <2>1. \A d \in Clients : cpc'[d] = "idle" <=> cjob'[d] = None
    BY <1>23, GatewayAssumption DEF Unlink, At, RemovedFile
  <2>2. \A d \in Clients : cjob'[d] \in Jobs => cjob'[d] = cjob[d]
    BY <1>23, GatewayAssumption DEF Unlink, At, RemovedFile
  <2>3. (\A k \in DOMAIN queue' : Posted(queue'[k])) /\ (\A k \in jobs' \cup doomed' : Posted(k))
    BY <1>23 DEF Unlink, At, RemovedFile
  <2> QED
    BY <1>23, <2>1, <2>2, <2>3 DEF Unlink, At, RemovedFile
<1>24. CASE Reap
  BY <1>24 DEF Reap, Stale
<1>25. ASSUME NEW j \in Jobs, ReapFile(j) PROVE IdsInv'
  BY <1>25 DEF ReapFile, RemovedFile
<1>26. ASSUME NEW c \in Clients, Put(c) PROVE IdsInv'
  <2>0. cjob[c] \in Jobs /\ Posted(cjob[c])
    BY <1>26 DEF Put, At
  <2>1. \A d \in Clients : cpc'[d] = "idle" <=> cjob'[d] = None
    BY <1>26, <2>0, GatewayAssumption DEF Put, At
  <2>2. \A d \in Clients : cjob'[d] \in Jobs => cjob'[d] = cjob[d]
    BY <1>26, GatewayAssumption DEF Put, At
  <2>3. \A k \in DOMAIN queue' : Posted(queue'[k])
    BY <1>26, <2>0 DEF Put
  <2> QED
    BY <1>26, <2>1, <2>2, <2>3 DEF Put
<1>27. ASSUME NEW c \in Clients, Ready(c) PROVE IdsInv'
  BY <1>27 DEF Ready, At
<1>28. ASSUME NEW c \in Clients, GiveUp(c) PROVE IdsInv'
  BY <1>28 DEF GiveUp, At
<1>29. ASSUME NEW c \in Clients, LookUp(c) PROVE IdsInv'
  BY <1>29 DEF LookUp, At
<1>30. ASSUME NEW c \in Clients, Stream(c) PROVE IdsInv'
  BY <1>30 DEF Stream, At
<1>31. ASSUME NEW c \in Clients, Delete(c) PROVE IdsInv'
  BY <1>31 DEF Delete, At
<1>32. ASSUME NEW c \in Clients, DeleteLost(c) PROVE IdsInv'
  <2>1. \A d \in Clients : cpc'[d] = "idle" <=> cjob'[d] = None
    BY <1>32, GatewayAssumption DEF DeleteLost, At
  <2>2. \A d \in Clients : cjob'[d] \in Jobs => cjob'[d] = cjob[d]
    BY <1>32, GatewayAssumption DEF DeleteLost, At
  <2>3. (\A k \in DOMAIN queue' : Posted(queue'[k])) /\ (\A k \in jobs' \cup doomed' : Posted(k))
    BY <1>32 DEF DeleteLost, At
  <2> QED
    BY <1>32, <2>1, <2>2, <2>3 DEF DeleteLost, At
<1>33. CASE Answers
  BY <1>33 DEF Answers, Receives
<1>34. CASE Tick
  BY <1>34 DEF Tick
<1>35. CASE CommandClear
  BY <1>35 DEF CommandClear
<1>36. CASE CommandCheck
  BY <1>36 DEF CommandCheck
<1>37. CASE CommandReply
  BY <1>37 DEF CommandReply, Receives, NoMessage
<1>38. CASE CommandDone
  BY <1>38 DEF CommandDone
<1>39. ASSUME NEW j \in Jobs, Age(j) PROVE IdsInv'
  BY <1>39 DEF Age
<1>40. CASE UNCHANGED vars
  BY <1>40 DEF vars
<1> QED
  BY <1>1, <1>2, <1>3, <1>4, <1>5, <1>6, <1>7, <1>8, <1>9, <1>10, <1>11, <1>12, <1>13, <1>14, <1>15, <1>16, <1>17, <1>18, <1>18a, <1>19, <1>20, <1>21, <1>22, <1>23, <1>24, <1>25, <1>26, <1>27, <1>28, <1>29, <1>30, <1>31, <1>32, <1>33, <1>34, <1>35, <1>36, <1>37, <1>38, <1>39, <1>40 DEF Next, Fetch, Client, Reaper, Command

(* Nothing that is being removed is listed again.                          *)
LEMMA RemovalStep == TypeOK /\ IdsInv /\ RemovalInv /\ [Next]_vars => RemovalInv'
<1> SUFFICES ASSUME TypeOK, IdsInv, RemovalInv, [Next]_vars PROVE RemovalInv'
  OBVIOUS
<1> USE DEF TypeOK, IdsInv, RemovalInv, Posted, tableVars, fileVars, fetchVars, senderVars, botVars, clientVars, reapVars, commandVars
<1>1. CASE Get
  BY <1>1 DEF Get, Goto
<1>2. CASE Begin
  BY <1>2 DEF Begin, Goto, SetState
<1>3. CASE Send
  BY <1>3 DEF Send, Goto, Asks
<1>4. CASE Raises
  BY <1>4 DEF Raises, SetState
<1>5. CASE TimesOut
  BY <1>5 DEF TimesOut, Goto, SetState, OutOfTime
<1>6. CASE Abandon
  BY <1>6 DEF Abandon, Goto
<1>7. CASE ClearFlag
  BY <1>7 DEF ClearFlag, Goto
<1>8. CASE Scan
  BY <1>8 DEF Scan
<1>9. CASE Resend
  BY <1>9 DEF Resend, Goto, Asks, FlagAfterScan
<1>10. CASE Wakes
  BY <1>10 DEF Wakes, Goto
<1>11. CASE Polls
  BY <1>11 DEF Polls, Goto
<1>12. CASE StartDownload
  BY <1>12 DEF StartDownload, Goto, SetState
<1>13. ASSUME NEW s \in Senders, Take(s) PROVE RemovalInv'
  BY <1>13 DEF Take
<1>14. ASSUME NEW s \in Senders, Arrive(s) PROVE RemovalInv'
  BY <1>14 DEF Arrive
<1>15. ASSUME NEW s \in Senders, SenderDone(s) PROVE RemovalInv'
  BY <1>15 DEF SenderDone
<1>16. ASSUME NEW s \in Senders, DownloadFails(s) PROVE RemovalInv'
  BY <1>16 DEF DownloadFails, Goto, SetState, PartialRemoved
<1>17. CASE Gathered
  BY <1>17 DEF Gathered, Goto
<1>18. CASE Rename
  BY <1>18 DEF Rename, Goto
<1>18a. CASE RenameFails
  BY <1>18a DEF RenameFails, SetState, Goto
<1>19. CASE Publish
  BY <1>19 DEF Publish, Goto, SetState
<1>20. CASE End
  BY <1>20 DEF End, Goto
<1>21. ASSUME NEW c \in Clients, NEW j \in Jobs, NEW t \in Tracks, Post(c, j, t) PROVE RemovalInv'
  BY <1>21 DEF Post, At
<1>22. ASSUME NEW c \in Clients, Pop(c) PROVE RemovalInv'
  BY <1>22 DEF Pop, At
<1>23. ASSUME NEW c \in Clients, Unlink(c) PROVE RemovalInv'
  BY <1>23 DEF Unlink, At, RemovedFile
<1>24. CASE Reap
  BY <1>24 DEF Reap, Stale
<1>25. ASSUME NEW j \in Jobs, ReapFile(j) PROVE RemovalInv'
  BY <1>25 DEF ReapFile, RemovedFile
<1>26. ASSUME NEW c \in Clients, Put(c) PROVE RemovalInv'
  BY <1>26 DEF Put, At
<1>27. ASSUME NEW c \in Clients, Ready(c) PROVE RemovalInv'
  BY <1>27 DEF Ready, At
<1>28. ASSUME NEW c \in Clients, GiveUp(c) PROVE RemovalInv'
  BY <1>28 DEF GiveUp, At
<1>29. ASSUME NEW c \in Clients, LookUp(c) PROVE RemovalInv'
  BY <1>29 DEF LookUp, At
<1>30. ASSUME NEW c \in Clients, Stream(c) PROVE RemovalInv'
  BY <1>30 DEF Stream, At
<1>31. ASSUME NEW c \in Clients, Delete(c) PROVE RemovalInv'
  BY <1>31 DEF Delete, At
<1>32. ASSUME NEW c \in Clients, DeleteLost(c) PROVE RemovalInv'
  BY <1>32 DEF DeleteLost, At
<1>33. CASE Answers
  BY <1>33 DEF Answers, Receives
<1>34. CASE Tick
  BY <1>34 DEF Tick
<1>35. CASE CommandClear
  BY <1>35 DEF CommandClear
<1>36. CASE CommandCheck
  BY <1>36 DEF CommandCheck
<1>37. CASE CommandReply
  BY <1>37 DEF CommandReply, Receives, NoMessage
<1>38. CASE CommandDone
  BY <1>38 DEF CommandDone
<1>39. ASSUME NEW j \in Jobs, Age(j) PROVE RemovalInv'
  BY <1>39 DEF Age
<1>40. CASE UNCHANGED vars
  BY <1>40 DEF vars
<1> QED
  BY <1>1, <1>2, <1>3, <1>4, <1>5, <1>6, <1>7, <1>8, <1>9, <1>10, <1>11, <1>12, <1>13, <1>14, <1>15, <1>16, <1>17, <1>18, <1>18a, <1>19, <1>20, <1>21, <1>22, <1>23, <1>24, <1>25, <1>26, <1>27, <1>28, <1>29, <1>30, <1>31, <1>32, <1>33, <1>34, <1>35, <1>36, <1>37, <1>38, <1>39, <1>40 DEF Next, Fetch, Client, Reaper, Command

(* What matches says nothing or is not apart from the title asked for.     *)
LEMMA PickedIsRight ==
  ASSUME NEW k, chat[k] \in Message, Acceptable(k)
  PROVE  /\ chat[k].track # None
         /\ MatchStrict /\ Apart(track[active], chat[k].track) => chat[k].text = <<>>
<1>1. chat[k].track # None
  BY DEF Acceptable, IsFlac
<1>2. PICK t \in Tracks : chat[k] \in [track : {t}, text : Says[t]]
  BY <1>1 DEF Message, NoMessage
<1>3. chat[k].track = t /\ chat[k].text \in Says[t]
  BY <1>2
<1>4. ASSUME MatchStrict, Apart(track[active], t) PROVE chat[k].text = <<>>
  BY <1>3, <1>4 DEF Acceptable, MatchesExpected, Apart
<1> QED
  BY <1>1, <1>3, <1>4

(* The active job's state and file follow the worker.                      *)
LEMMA FetchStep == TypeOK /\ IdsInv /\ FetchInv /\ PartsInv /\ [Next]_vars => FetchInv'
<1> SUFFICES ASSUME TypeOK, IdsInv, FetchInv, PartsInv, [Next]_vars PROVE FetchInv'
  OBVIOUS
<1> USE DEF TypeOK, IdsInv, FetchInv, RightTrack, Posted, Resolving, tableVars, fileVars, fetchVars, senderVars, botVars, clientVars, reapVars, commandVars
<1>1. CASE Get
  <2>1. active' \in Jobs
    BY <1>1 DEF Get
  <2> QED
    BY <1>1, <2>1, GatewayAssumption DEF Get, Goto
<1>2. CASE Begin
  BY <1>2 DEF Begin, Goto, SetState
<1>3. CASE Send
  BY <1>3 DEF Send, Goto, Asks
<1>4. CASE Raises
  BY <1>4 DEF Raises, SetState
<1>5. CASE TimesOut
  BY <1>5 DEF TimesOut, Goto, SetState, OutOfTime
<1>6. CASE Abandon
  BY <1>6 DEF Abandon, Goto
<1>7. CASE ClearFlag
  BY <1>7 DEF ClearFlag, Goto
<1>8. CASE Scan
  <2>1. CASE UNCHANGED content /\ fpc' = "resend"
    BY <1>8, <2>1 DEF Scan
  <2>2. ASSUME NEW k \in Window, Picks(k), fpc' = "found", content' = [content EXCEPT ![active] = chat[k]]
        PROVE  FetchInv'
    <3>1. chat[k] \in Message /\ active \in Jobs
      BY <2>2, <1>8, GatewayAssumption DEF Window, Scan
    <3>2. /\ chat[k].track # None
          /\ MatchStrict /\ Apart(track[active], chat[k].track) => chat[k].text = <<>>
      BY <2>2, <3>1, PickedIsRight DEF Picks
    <3>3. content'[active] = chat[k]
      BY <2>2, <3>1
    <3>4. UNCHANGED <<track, state, active, disk>>
      BY <1>8 DEF Scan
    <3> QED
      BY <2>2, <1>8, <3>1, <3>2, <3>3, <3>4 DEF Scan
  <2> QED
    BY <1>8, <2>1, <2>2 DEF Scan
<1>9. CASE Resend
  BY <1>9 DEF Resend, Goto, Asks, FlagAfterScan
<1>10. CASE Wakes
  BY <1>10 DEF Wakes, Goto
<1>11. CASE Polls
  BY <1>11 DEF Polls, Goto
<1>12. CASE StartDownload
  BY <1>12 DEF StartDownload, Goto, SetState
<1>13. ASSUME NEW s \in Senders, Take(s) PROVE FetchInv'
  BY <1>13 DEF Take
<1>14. ASSUME NEW s \in Senders, Arrive(s) PROVE FetchInv'
  BY <1>14 DEF Arrive
<1>15. ASSUME NEW s \in Senders, SenderDone(s) PROVE FetchInv'
  BY <1>15 DEF SenderDone
<1>16. ASSUME NEW s \in Senders, DownloadFails(s) PROVE FetchInv'
  BY <1>16 DEF DownloadFails, Goto, SetState, PartialRemoved
<1>17. CASE Gathered
  BY <1>17 DEF Gathered, Goto
<1>18. CASE Rename
  BY <1>18 DEF Rename, Goto
<1>18a. CASE RenameFails
  BY <1>18a DEF RenameFails, SetState, Goto
<1>19. CASE Publish
  BY <1>19 DEF Publish, Goto, SetState
<1>20. CASE End
  BY <1>20 DEF End, Goto
<1>21. ASSUME NEW c \in Clients, NEW j \in Jobs, NEW t \in Tracks, Post(c, j, t) PROVE FetchInv'
  BY <1>21 DEF Post, At
<1>22. ASSUME NEW c \in Clients, Pop(c) PROVE FetchInv'
  BY <1>22 DEF Pop, At
<1>23. ASSUME NEW c \in Clients, Unlink(c) PROVE FetchInv'
  BY <1>23 DEF Unlink, At, RemovedFile
<1>24. CASE Reap
  BY <1>24 DEF Reap, Stale
<1>25. ASSUME NEW j \in Jobs, ReapFile(j) PROVE FetchInv'
  BY <1>25 DEF ReapFile, RemovedFile
<1>26. CASE Quiet
  BY <1>26 DEF Quiet
<1> QED
  BY QuietSteps, <1>1, <1>2, <1>3, <1>4, <1>5, <1>6, <1>7, <1>8, <1>9, <1>10, <1>11, <1>12, <1>13, <1>14, <1>15, <1>16, <1>17, <1>18, <1>18a, <1>19, <1>20, <1>21, <1>22, <1>23, <1>24, <1>25, <1>26 DEF Loud

(* No part is lost between taking and writing it.                          *)
LEMMA PartsStep == TypeOK /\ IdsInv /\ FetchInv /\ PartsInv /\ [Next]_vars => PartsInv'
<1> SUFFICES ASSUME TypeOK, IdsInv, FetchInv, PartsInv, [Next]_vars PROVE PartsInv'
  OBVIOUS
<1> USE DEF TypeOK, PartsInv, tableVars, fileVars, fetchVars, senderVars, botVars, clientVars, reapVars, commandVars
<1>1. CASE Get
  BY <1>1 DEF Get, Goto
<1>2. CASE Begin
  BY <1>2 DEF Begin, Goto, SetState
<1>3. CASE Send
  BY <1>3 DEF Send, Goto, Asks
<1>4. CASE Raises
  BY <1>4 DEF Raises, SetState
<1>5. CASE TimesOut
  BY <1>5 DEF TimesOut, Goto, SetState, OutOfTime
<1>6. CASE Abandon
  BY <1>6 DEF Abandon, Goto
<1>7. CASE ClearFlag
  BY <1>7 DEF ClearFlag, Goto
<1>8. CASE Scan
  BY <1>8 DEF Scan
<1>9. CASE Resend
  BY <1>9 DEF Resend, Goto, Asks, FlagAfterScan
<1>10. CASE Wakes
  BY <1>10 DEF Wakes, Goto
<1>11. CASE Polls
  BY <1>11 DEF Polls, Goto
<1>12. CASE StartDownload
  BY <1>12 DEF StartDownload, Goto, SetState
<1>13. ASSUME NEW s \in Senders, Take(s) PROVE PartsInv'
  <2>1. PICK p \in left : left' = left \ {p} /\ sender' = [sender EXCEPT ![s] = p]
    BY <1>13 DEF Take
  <2>2. \A q \in Senders : q # s => sender'[q] = sender[q]
    BY <2>1
  <2>3. sender'[s] = p /\ sender[s] = "top" /\ sender[s] \notin Parts /\ p \in Parts
    BY <1>13, <2>1, GatewayAssumption DEF Take
  <2> QED
    BY <1>13, <2>1, <2>2, <2>3, GatewayAssumption DEF Take
<1>14. ASSUME NEW s \in Senders, Arrive(s) PROVE PartsInv'
  <2>0. active \in Jobs
    BY <1>14 DEF Arrive, FetchInv
  <2>1. parts'[active] = parts[active] \cup {sender[s]}
    BY <1>14, <2>0 DEF Arrive
  <2>2. \A q \in Senders : q # s => sender'[q] = sender[q]
    BY <1>14 DEF Arrive
  <2>3. \A p \in Parts : p \in left' \/ p \in parts'[active] \/ \E q \in Senders : sender'[q] = p
    BY <1>14, <2>1, <2>2 DEF Arrive
  <2>4. \A q \in Senders : sender'[q] = "gone" => sender[q] = "gone"
    BY <1>14 DEF Arrive
  <2> QED
    BY <1>14, <2>3, <2>4 DEF Arrive
<1>15. ASSUME NEW s \in Senders, SenderDone(s) PROVE PartsInv'
  <2>1. \A q \in Senders : sender[q] \in Parts => sender'[q] = sender[q]
    BY <1>15, GatewayAssumption DEF SenderDone
  <2>2. \A p \in Parts : p \in left' \/ p \in parts'[active] \/ \E q \in Senders : sender'[q] = p
    BY <1>15, <2>1 DEF SenderDone
  <2> QED
    BY <1>15, <2>2 DEF SenderDone
<1>16. ASSUME NEW s \in Senders, DownloadFails(s) PROVE PartsInv'
  BY <1>16 DEF DownloadFails, Goto, SetState, PartialRemoved
<1>17. CASE Gathered
  <2>0. active \in Jobs /\ left = {}
    BY <1>17, GatewayAssumption DEF Gathered, Goto, AllGone, FetchInv
  <2>1. \A s \in Senders : sender[s] \notin Parts
    BY <1>17, GatewayAssumption DEF Gathered, AllGone
  <2>2. \A p \in Parts : p \in parts[active]
    BY <1>17, <2>0, <2>1 DEF Gathered, Goto
  <2>3. parts[active] \subseteq Parts
    BY <2>0
  <2> QED
    BY <1>17, <2>0, <2>2, <2>3 DEF Gathered, Goto
<1>18. CASE Rename
  BY <1>18 DEF Rename, Goto
<1>18a. CASE RenameFails
  BY <1>18a DEF RenameFails, SetState, Goto
<1>19. CASE Publish
  BY <1>19 DEF Publish, Goto, SetState
<1>20. CASE End
  BY <1>20 DEF End, Goto
<1>21. ASSUME NEW c \in Clients, NEW j \in Jobs, NEW t \in Tracks, Post(c, j, t) PROVE PartsInv'
  BY <1>21 DEF Post, At
<1>22. ASSUME NEW c \in Clients, Pop(c) PROVE PartsInv'
  BY <1>22 DEF Pop, At
<1>23. ASSUME NEW c \in Clients, Unlink(c) PROVE PartsInv'
  BY <1>23 DEF Unlink, At, RemovedFile
<1>24. CASE Reap
  BY <1>24 DEF Reap, Stale
<1>25. ASSUME NEW j \in Jobs, ReapFile(j) PROVE PartsInv'
  BY <1>25 DEF ReapFile, RemovedFile
<1>26. CASE Quiet
  BY <1>26 DEF Quiet
<1> QED
  BY QuietSteps, <1>1, <1>2, <1>3, <1>4, <1>5, <1>6, <1>7, <1>8, <1>9, <1>10, <1>11, <1>12, <1>13, <1>14, <1>15, <1>16, <1>17, <1>18, <1>18a, <1>19, <1>20, <1>21, <1>22, <1>23, <1>24, <1>25, <1>26 DEF Loud

(* What is ready stays whole, and partial files stay the worker's.         *)
LEMMA ReadyStep == IInv /\ [Next]_vars => (ReadyIsWhole /\ ReadyIsItsTrack /\ PartialIsActive)'
<1> SUFFICES ASSUME IInv, [Next]_vars PROVE (ReadyIsWhole /\ ReadyIsItsTrack /\ PartialIsActive)'
  OBVIOUS
<1> USE DEF IInv, TypeOK, ReadyIsWhole, ReadyIsItsTrack, RightTrack, PartialIsActive, FetchInv, Resolving, tableVars, fileVars, fetchVars, senderVars, botVars, clientVars, reapVars, commandVars
<1>1. CASE Get
  BY <1>1 DEF Get, Goto
<1>2. CASE Begin
  BY <1>2 DEF Begin, Goto, SetState
<1>3. CASE Send
  BY <1>3 DEF Send, Goto, Asks
<1>4. CASE Raises
  BY <1>4 DEF Raises, SetState
<1>5. CASE TimesOut
  BY <1>5 DEF TimesOut, Goto, SetState, OutOfTime
<1>6. CASE Abandon
  BY <1>6 DEF Abandon, Goto
<1>7. CASE ClearFlag
  BY <1>7 DEF ClearFlag, Goto
<1>8. CASE Scan
  <2>1. UNCHANGED <<state, jobs, disk, parts, active, stuck>> /\ active \in Jobs /\ state[active] = "resolving"
    BY <1>8 DEF Scan
  <2>2. fpc \notin {"parts", "rename", "publish"} /\ fpc' \notin {"parts", "rename", "publish"}
    BY <1>8 DEF Scan
  <2>3. \A j \in Jobs : j # active => content'[j] = content[j] /\ track'[j] = track[j]
    BY <1>8, <2>1 DEF Scan
  <2>4. ReadyIsWhole' /\ PartialIsActive'
    BY <2>1, <2>2
  <2>5. ASSUME NEW j \in jobs', state'[j] = "ready" PROVE j \in Jobs /\ j # active
    BY <2>1, <2>5
  <2>6. ReadyIsItsTrack'
    BY <2>1, <2>3, <2>5
  <2> QED
    BY <2>4, <2>6
<1>9. CASE Resend
  BY <1>9 DEF Resend, Goto, Asks, FlagAfterScan
<1>10. CASE Wakes
  BY <1>10 DEF Wakes, Goto
<1>11. CASE Polls
  BY <1>11 DEF Polls, Goto
<1>12. CASE StartDownload
  BY <1>12 DEF StartDownload, Goto, SetState
<1>13. ASSUME NEW s \in Senders, Take(s) PROVE (ReadyIsWhole /\ ReadyIsItsTrack /\ PartialIsActive)'
  BY <1>13 DEF Take
<1>14. ASSUME NEW s \in Senders, Arrive(s) PROVE (ReadyIsWhole /\ ReadyIsItsTrack /\ PartialIsActive)'
  BY <1>14 DEF Arrive
<1>15. ASSUME NEW s \in Senders, SenderDone(s) PROVE (ReadyIsWhole /\ ReadyIsItsTrack /\ PartialIsActive)'
  BY <1>15 DEF SenderDone
<1>16. ASSUME NEW s \in Senders, DownloadFails(s) PROVE (ReadyIsWhole /\ ReadyIsItsTrack /\ PartialIsActive)'
  BY <1>16 DEF DownloadFails, Goto, SetState, PartialRemoved
<1>17. CASE Gathered
  BY <1>17 DEF Gathered, Goto
<1>18. CASE Rename
  BY <1>18 DEF Rename, Goto
<1>18a. CASE RenameFails
  BY <1>18a DEF RenameFails, SetState, Goto
<1>19. CASE Publish
  <2>1. active \in Jobs /\ disk[active] = "final" /\ parts[active] = Parts
    BY <1>19 DEF Publish, Goto, PartsInv
  <2>2. state' = [state EXCEPT ![active] = "ready"] /\ UNCHANGED <<track, jobs, fileVars, active>>
    BY <1>19 DEF Publish, SetState
  <2>3. ReadyIsWhole'
    BY <2>1, <2>2
  <2>4. ReadyIsItsTrack'
    BY <1>19, <2>1, <2>2 DEF Publish, Goto
  <2>5. PartialIsActive'
    BY <1>19, <2>1, <2>2 DEF Publish, Goto
  <2> QED
    BY <2>3, <2>4, <2>5
<1>20. CASE End
  BY <1>20 DEF End, Goto
<1>21. ASSUME NEW c \in Clients, NEW j \in Jobs, NEW t \in Tracks, Post(c, j, t) PROVE (ReadyIsWhole /\ ReadyIsItsTrack /\ PartialIsActive)'
  BY <1>21 DEF Post, At, IdsInv, Posted
<1>22. ASSUME NEW c \in Clients, Pop(c) PROVE (ReadyIsWhole /\ ReadyIsItsTrack /\ PartialIsActive)'
  BY <1>22 DEF Pop, At
<1>23. ASSUME NEW c \in Clients, Unlink(c) PROVE (ReadyIsWhole /\ ReadyIsItsTrack /\ PartialIsActive)'
  <2>1. cjob[c] \notin jobs
    BY <1>23 DEF Unlink, At, RemovalInv
  <2>2. \A k \in Jobs : k # cjob[c] => disk'[k] = disk[k]
    BY <1>23 DEF Unlink, RemovedFile
  <2>3. \A k \in Jobs : disk'[k] = disk[k] \/ disk'[k] = "none"
    BY <1>23 DEF Unlink, RemovedFile
  <2>4. ReadyIsWhole'
    BY <1>23, <2>1, <2>2 DEF Unlink
  <2>5. ReadyIsItsTrack'
    BY <1>23 DEF Unlink
  <2>6. PartialIsActive'
    BY <1>23, <2>3 DEF Unlink
  <2> QED
    BY <2>4, <2>5, <2>6
<1>24. CASE Reap
  BY <1>24 DEF Reap, Stale
<1>25. ASSUME NEW j \in Jobs, ReapFile(j) PROVE (ReadyIsWhole /\ ReadyIsItsTrack /\ PartialIsActive)'
  <2>1. j \notin jobs
    BY <1>25 DEF ReapFile, At, RemovalInv
  <2>2. \A k \in Jobs : k # j => disk'[k] = disk[k]
    BY <1>25 DEF ReapFile, RemovedFile
  <2>3. \A k \in Jobs : disk'[k] = disk[k] \/ disk'[k] = "none"
    BY <1>25 DEF ReapFile, RemovedFile
  <2>4. ReadyIsWhole'
    BY <1>25, <2>1, <2>2 DEF ReapFile
  <2>5. ReadyIsItsTrack'
    BY <1>25 DEF ReapFile
  <2>6. PartialIsActive'
    BY <1>25, <2>3 DEF ReapFile
  <2> QED
    BY <2>4, <2>5, <2>6
<1>26. CASE Quiet
  BY <1>26 DEF Quiet
<1> QED
  BY QuietSteps, <1>1, <1>2, <1>3, <1>4, <1>5, <1>6, <1>7, <1>8, <1>9, <1>10, <1>11, <1>12, <1>13, <1>14, <1>15, <1>16, <1>17, <1>18, <1>18a, <1>19, <1>20, <1>21, <1>22, <1>23, <1>24, <1>25, <1>26 DEF Loud

-----------------------------------------------------------------------------
(* The inductive invariant holds in every state the gateway can reach.     *)
THEOREM InductiveInvariant == Spec => []IInv
<1>1. Init => IInv
  BY InitIInv
<1>2. IInv /\ [Next]_vars => IInv'
  BY TypeStep, IdsStep, RemovalStep, FetchStep, PartsStep, ReadyStep DEF IInv
<1> QED
  BY <1>1, <1>2, PTL DEF Spec

(* Every variable of the gateway keeps its type.                           *)
THEOREM TypeCorrect == Spec => []TypeOK
<1>1. IInv => TypeOK
  BY DEF IInv
<1> QED
  BY <1>1, InductiveInvariant, PTL

(* A job that says "ready" has its whole file in place.                    *)
THEOREM ReadyMeansWhole == Spec => []ReadyIsWhole
<1>1. IInv => ReadyIsWhole
  BY DEF IInv
<1> QED
  BY <1>1, InductiveInvariant, PTL

(* No stale, duplicated or mistaken reply whose name can be read is filed  *)
(* under another track's name.                                             *)
THEOREM ReadyMeansItsTrack == Spec => []ReadyIsItsTrack
<1>1. IInv => ReadyIsItsTrack
  BY DEF IInv
<1> QED
  BY <1>1, InductiveInvariant, PTL

(* No failure and no cancellation leaves a partial file behind.            *)
THEOREM PartialsAreActive == Spec => []PartialIsActive
<1>1. IInv => PartialIsActive
  BY DEF IInv
<1> QED
  BY <1>1, InductiveInvariant, PTL

-----------------------------------------------------------------------------
(* A set of naturals has a least element.                                  *)
LEMMA Least == ASSUME NEW T, T \subseteq Nat, T # {} PROVE \E x \in T : \A y \in T : x <= y
<1> DEFINE R == OpToRel(<, Nat)
<1>1. IsWellFoundedOn(R, Nat)
  BY NatLessThanWellFounded
<1>2. \A x, y \in T : y < x => <<y, x>> \in R
  BY DEF OpToRel
<1> HIDE DEF R
<1>3. PICK x \in T : \A y \in T : ~(<<y, x>> \in R)
  BY <1>1, WFMin
<1>4. ASSUME NEW y \in T PROVE x <= y
  <2>1. ~ (y < x)
    BY <1>2, <1>3
  <2>2. x \in Nat /\ y \in Nat
    OBVIOUS
  <2> QED
    BY <2>1, <2>2
<1> QED
  BY <1>4

(* A scan that picks nothing has seen nothing acceptable: were there any,  *)
(* the newest would be picked.                                             *)
LEMMA ScanSeesAll ==
  ASSUME TypeOK, \A k \in Window : ~Picks(k)
  PROVE  \A k \in Window : ~Acceptable(k)
<1> DEFINE Seen == {k \in Window : Acceptable(k)}
           Behind == {Len(chat) - k : k \in Seen}
<1>1. Window \subseteq 1 .. Len(chat) /\ Len(chat) \in Nat
  BY DEF TypeOK, Window
<1>2. Behind \subseteq Nat
  BY <1>1
<1>3. ASSUME Seen # {} PROVE FALSE
  <2>1. Behind # {}
    BY <1>3
  <2>2. PICK d \in Behind : \A e \in Behind : d <= e
    BY <1>2, <2>1, Least
  <2>3. PICK k \in Seen : d = Len(chat) - k
    BY <2>2
  <2>4. \A l \in Seen : l <= k
    <3> TAKE l \in Seen
    <3>1. d <= Len(chat) - l
      BY <2>2
    <3>2. l \in Nat /\ k \in Nat
      BY <1>1
    <3> QED
      BY <1>1, <2>3, <3>1, <3>2
  <2>5. Picks(k)
    BY <1>1, <2>4 DEF Picks
  <2> QED
    BY <2>5
<1> QED
  BY <1>3

(* A command in progress has been counted.                                 *)
AskingIsCounted == command = "asking" => commands > 0

(* Only CommandCheck starts one, and it counts it.                         *)
LEMMA CommandStep == TypeOK /\ AskingIsCounted /\ [Next]_vars => AskingIsCounted'
<1> SUFFICES ASSUME TypeOK, AskingIsCounted, [Next]_vars PROVE AskingIsCounted'
  OBVIOUS
<1>1. CASE UNCHANGED commandVars
  BY <1>1 DEF AskingIsCounted, commandVars
<1>2. CASE Command
  BY <1>2 DEF Command, CommandCheck, CommandClear, CommandReply, CommandDone, AskingIsCounted, TypeOK, commandVars
<1>3. Command \/ UNCHANGED commandVars
  BY DEF Next, vars, commandVars, Fetch, Answers, Tick, Client, Reaper, Get, Begin, Send, Raises, TimesOut,
     Abandon, ClearFlag, Scan, Resend, Wakes, Polls, StartDownload, Take, Arrive, SenderDone, DownloadFails,
     Gathered, Rename, RenameFails, Publish, End, Post, Put, Ready, GiveUp, LookUp, Stream, Delete, DeleteLost, Pop, Unlink,
     Age, Reap, ReapFile
<1> QED
  BY <1>1, <1>2, <1>3

(* What the reply rests on is left alone outside the worker's own steps,   *)
(* but for answers, which raise the flag, and commands.                    *)
Still == UNCHANGED <<fpc, active, cut, chat, activity, commands>> /\ track'[active] = track[active]

(* A step after which the worker is past a scan is still in that sense, or *)
(* the scan, the resend, an answer or a command.                           *)
LEMMA StillSteps ==
  ASSUME TypeOK, IdsInv, [Next]_vars, fpc' \in {"resend", "wait"}
  PROVE  Still \/ Scan \/ Resend \/ Answers \/ Command
<1> USE DEF Still, tableVars, fileVars, fetchVars, senderVars, botVars, clientVars, reapVars, commandVars
<1>1. CASE UNCHANGED vars
  BY <1>1 DEF vars
<1>2. CASE Fetch
  <2>1. CASE Get \/ Begin \/ Send \/ Raises \/ TimesOut \/ Abandon \/ ClearFlag
    BY <2>1 DEF Get, Begin, Send, Raises, TimesOut, Abandon, ClearFlag, Goto
  <2>2. CASE Wakes \/ Polls \/ StartDownload \/ Gathered \/ Rename \/ RenameFails \/ Publish \/ End
    BY <2>2 DEF Wakes, Polls, StartDownload, Gathered, Rename, RenameFails, Publish, End, Goto
  <2>3. ASSUME NEW s \in Senders, Take(s) \/ Arrive(s) \/ SenderDone(s) \/ DownloadFails(s) PROVE FALSE
    BY <2>3 DEF Take, Arrive, SenderDone, DownloadFails, Goto
  <2> QED
    BY <1>2, <2>1, <2>2, <2>3 DEF Fetch
<1>3. CASE Tick
  BY <1>3 DEF Tick
<1>4. ASSUME NEW c \in Clients, NEW j \in Jobs, NEW t \in Tracks, Post(c, j, t) PROVE Still
  <2>1. active # j \/ active \notin Jobs
    BY <1>4 DEF Post, IdsInv, Posted
  <2>2. track' = [track EXCEPT ![j] = t] /\ track \in [Jobs -> Tracks \cup {None}] /\ active # j
    BY <1>4, <2>1 DEF Post, TypeOK
  <2>3. track'[active] = track[active]
    BY <2>2
  <2> QED
    BY <1>4, <2>3 DEF Post
<1>5. ASSUME NEW c \in Clients, \/ Put(c) \/ Ready(c) \/ GiveUp(c) \/ LookUp(c) \/ Stream(c)
                               \/ Delete(c) \/ DeleteLost(c) \/ Pop(c) \/ Unlink(c)
      PROVE Still
  BY <1>5 DEF Put, Ready, GiveUp, LookUp, Stream, Delete, DeleteLost, Pop, Unlink
<1>6. CASE Reaper
  BY <1>6 DEF Reaper, Age, Reap, ReapFile
<1> QED
  BY <1>1, <1>2, <1>3, <1>4, <1>5, <1>6 DEF Next, Client

(* No step makes the worker overlook a reply: what comes in raises the flag*)
(* that only the head of the loop, before the next scan, takes down.       *)
LEMMA ReplyStep ==
  TypeOK /\ IdsInv /\ AskingIsCounted /\ NoMissedReply /\ [Next]_vars => NoMissedReply'
<1> SUFFICES ASSUME TypeOK, IdsInv, AskingIsCounted, NoMissedReply, [Next]_vars,
                    commands' = 0, fpc' \in {"resend", "wait"}, ~activity'
             PROVE  \A k \in Window' : ~Acceptable(k)'
  BY DEF NoMissedReply
<1> DEFINE Same == UNCHANGED <<cut, chat>> /\ track'[active'] = track[active]
<1>1. ASSUME Same, \A k \in Window : ~Acceptable(k) PROVE \A k \in Window' : ~Acceptable(k)'
  <2>1. Window' = Window
    BY <1>1 DEF Window
  <2>2. \A k : Acceptable(k)' <=> Acceptable(k)
    BY <1>1 DEF Acceptable, IsFlac, MatchesExpected
  <2> QED
    BY <1>1, <2>1, <2>2
<1>2. CASE Still
  BY <1>1, <1>2 DEF Still, NoMissedReply
<1>3. CASE Scan
  <2>1. Same
    BY <1>3 DEF Scan, tableVars, botVars
  <2>2. \A k \in Window : ~Picks(k)
    BY <1>3 DEF Scan
  <2> HIDE DEF Same
  <2> QED
    BY <1>1, <2>1, <2>2, ScanSeesAll
<1>4. CASE Resend
  <2>1. Same /\ activity' = activity /\ commands' = commands /\ fpc = "resend"
    BY <1>4 DEF Resend, tableVars, commandVars, FlagAfterScan, Goto
  <2> HIDE DEF Same
  <2> QED
    BY <1>1, <2>1 DEF NoMissedReply
<1>5. CASE Answers
  BY <1>5 DEF Answers, Receives
<1>6. CASE Command
  <2>1. ~CommandReply
    BY DEF CommandReply, Receives
  <2>2. ~CommandCheck
    BY DEF CommandCheck, TypeOK
  <2>3. ~CommandClear
    BY DEF CommandClear, AskingIsCounted, commandVars
  <2>4. CommandDone
    BY <1>6, <2>1, <2>2, <2>3 DEF Command
  <2>5. Same /\ activity' = activity /\ commands' = commands /\ fpc' = fpc
    BY <2>4 DEF CommandDone, tableVars, botVars, fetchVars
  <2> HIDE DEF Same
  <2> QED
    BY <1>1, <2>5 DEF NoMissedReply
<1> HIDE DEF Same
<1> QED
  BY <1>2, <1>3, <1>4, <1>5, <1>6, StillSteps

(* The worker never waits with the flag down over an acceptable reply, as  *)
(* long as nobody asks the bot anything else (gateway.py:391-399).         *)
THEOREM NoReplyIsMissed == Spec => []NoMissedReply
<1> DEFINE Inv == AskingIsCounted /\ NoMissedReply
<1>1. Init => Inv
  BY DEF Init, AskingIsCounted, NoMissedReply
<1>2. IInv /\ Inv /\ [Next]_vars => Inv'
  BY CommandStep, ReplyStep DEF IInv
<1>3. Inv => NoMissedReply
  OBVIOUS
<1> QED
  BY <1>1, <1>2, <1>3, InductiveInvariant, PTL DEF Spec
=============================================================================
