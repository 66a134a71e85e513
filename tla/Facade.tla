-------------------------------- MODULE Facade --------------------------------
(***************************************************************************)
(* Acquisition through the Subsonic facade (subsonic.go:834-1118).  A star *)
(* or a playlist addition of a track that is not in the library becomes a  *)
(* promise kept in memory and a download in the queue; when files have     *)
(* landed, reconcile() looks the tracks up in Navidrome and makes the      *)
(* promises true.  Requests and reconciliations interleave between their   *)
(* critical sections and calls.                                            *)
(*                                                                         *)
(* Of the queue only what the facade reads is kept: per track the number   *)
(* of downloads that wait or run and whether one has completed.            *)
(***************************************************************************)
EXTENDS Naturals, Sequences, FiniteSets

CONSTANTS
    Track,          \* Spotify ids
    Request,        \* requests being served
    Reconciler,     \* goroutines of reconcile()
    MaxRequests,    \* bound: requests
    MaxFacadeFaults \* bound: restarts and reconciliations beyond the first

ASSUME FacadeAssumption ==
    MaxRequests \in Nat /\ MaxFacadeFaults \in Nat /\ Track # {} /\ "none" \notin Track

VARIABLES
    promises,   \* the pendingAcquisition objects made since the start
    pending,    \* f.pending: the number of the track's object, 0 for none
    live,       \* downloads of the track that wait or run
    fetched,    \* tracks with a completed download in the queue
    landed,     \* scanPending: a file landed since the last flushScan
    indexed,    \* tracks Navidrome finds
    request,    \* the handlers that run
    recon,      \* the reconciliations that run
    madeTrue,   \* what Navidrome was told of the real tracks
    asked,      \* history: requests so far
    faults,     \* history: restarts and further reconciliations
    wanted,     \* history: what an answered request asked for and nobody took back
    excused,    \* history: wants given up in the way the comments accept, and
                \* additions to a playlist whose name was not read
    tangled     \* history: tracks whose requests or reconciliations overlapped

facadeVars == <<promises, pending, live, fetched, landed, indexed, request, recon,
                madeTrue, asked, faults, wanted, excused, tangled>>

Wish == {"star", "list"}
Want == Track \X Wish
Kind == {"star", "stream", "playlist", "unstar"}

Free == [pc |-> "free", kind |-> "star", track |-> CHOOSE t \in Track : TRUE, promise |-> 0]
Asleep == [pc |-> "asleep", todo |-> {}, promise |-> 0, late |-> FALSE, lists |-> FALSE]

FacadeInit ==
    /\ promises = <<>> /\ pending = [t \in Track |-> 0]
    /\ live = [t \in Track |-> 0] /\ fetched = {} /\ landed = FALSE /\ indexed = {}
    /\ request = [r \in Request |-> Free] /\ recon = [w \in Reconciler |-> Asleep]
    /\ madeTrue = {} /\ asked = 0 /\ faults = 0
    /\ wanted = {} /\ excused = {} /\ tangled = {}

Holds(w) == {promises[p].track : p \in recon[w].todo \cup ({recon[w].promise} \ {0})}
Serving(t) == {r \in Request : request[r].pc # "free" /\ request[r].track = t}
-----------------------------------------------------------------------------
(* A request names a virtual id: star, stream, a playlist, or unstar. *)
Ask(r, kind, t) ==
    /\ request[r].pc = "free"
    /\ asked < MaxRequests
    /\ asked' = asked + 1
    /\ request' = [request EXCEPT ![r] = [pc |-> IF kind = "unstar" THEN "cancel" ELSE "look",
                                          kind |-> kind, track |-> t, promise |-> 0]]
    /\ tangled' = IF Serving(t) # {} \/ \E w \in Reconciler : t \in Holds(w)
                  THEN tangled \cup {t} ELSE tangled
    /\ UNCHANGED <<promises, pending, live, fetched, landed, indexed, recon, madeTrue,
                   faults, wanted, excused>>

(* The answer goes out. *)
Answered(r, wants) ==
    /\ request' = [request EXCEPT ![r] = Free]
    /\ wanted' = wanted \cup wants
    /\ excused' = excused \ wants

Starring(r) == request[r].kind \in {"star", "stream"}

(* acquire is done: a star is answered, a playlist goes on to Navidrome. *)
Acquired(r) ==
    IF request[r].kind = "playlist"
    THEN request' = [request EXCEPT ![r].pc = "forward"] /\ UNCHANGED <<wanted, excused>>
    ELSE Answered(r, {<<request[r].track, "star">>})

(* unstar on a virtual id takes the whole promise back, and only the promise. *)
Unstar(r) ==
    /\ request[r].pc = "cancel"
    /\ LET t == request[r].track
       IN  /\ pending' = [pending EXCEPT ![t] = 0]
           /\ wanted' = {x \in wanted : x[1] # t}
    /\ request' = [request EXCEPT ![r] = Free]
    /\ UNCHANGED <<promises, live, fetched, landed, indexed, recon, madeTrue, asked,
                   faults, excused, tangled>>

(* acquire reads the promise there is, in a critical section of its own ... *)
Look(r) ==
    /\ request[r].pc = "look"
    /\ LET p == pending[request[r].track]
       IN  request' = [request EXCEPT ![r].promise = p,
                                      ![r].pc = IF p = 0 THEN "fetch" ELSE "note"]
    /\ UNCHANGED <<promises, pending, live, fetched, landed, indexed, recon, madeTrue,
                   asked, faults, wanted, excused, tangled>>

\* mutant: whatever was asked for is noted as a wish
NotedAsKind(r, p) == [p EXCEPT !.wishes = @ \cup {request[r].kind}]

\* mutant: a track that is played is not starred
NotedIfStarred(r, p) == IF request[r].kind = "star" THEN [p EXCEPT !.wishes = @ \cup {"star"}] ELSE p

Noted(r, p) == IF Starring(r) THEN [p EXCEPT !.wishes = @ \cup {"star"}] ELSE p

(* ... and adds to it in another. *)
NoteExisting(r) ==
    /\ request[r].pc = "note"
    /\ promises' = [promises EXCEPT ![request[r].promise] = Noted(r, @)]
    /\ Acquired(r)
    /\ UNCHANGED <<pending, live, fetched, landed, indexed, recon, madeTrue, asked,
                   faults, tangled>>

NewPromise(t) == [track |-> t, wishes |-> {}]

(* Without one: the metadata are fetched, and a new promise is put in its place. *)
Promise(r) ==
    /\ request[r].pc = "fetch"
    /\ promises' = Append(promises, Noted(r, NewPromise(request[r].track)))
    /\ pending' = [pending EXCEPT ![request[r].track] = Len(promises')]
    /\ request' = [request EXCEPT ![r].pc = "check"]
    /\ UNCHANGED <<live, fetched, landed, indexed, recon, madeTrue, asked, faults, wanted,
                   excused, tangled>>

(* The metadata fail: an error answer, except that stream always answers the same. *)
NoMetadata(r) ==
    /\ request[r].pc = "fetch"
    /\ request' = [request EXCEPT ![r] = Free]
    /\ UNCHANGED <<promises, pending, live, fetched, landed, indexed, recon, madeTrue,
                   asked, faults, wanted, excused, tangled>>

\* mutant: a download that is done does not count
OnlyLive(t) == live[t] > 0

(* acquisitionStates: the queue has it waiting, running or done. *)
OnItsWay(t) == live[t] > 0 \/ t \in fetched

Check(r) ==
    /\ request[r].pc = "check"
    /\ IF OnItsWay(request[r].track)
       THEN Acquired(r)
       ELSE request' = [request EXCEPT ![r].pc = "enqueue"] /\ UNCHANGED <<wanted, excused>>
    /\ UNCHANGED <<promises, pending, live, fetched, landed, indexed, recon, madeTrue,
                   asked, faults, tangled>>

Enqueue(r) ==
    /\ request[r].pc = "enqueue"
    /\ live' = [live EXCEPT ![request[r].track] = @ + 1]
    /\ Acquired(r)
    /\ UNCHANGED <<promises, pending, fetched, landed, indexed, recon, madeTrue, asked,
                   faults, tangled>>

(* The queue refuses it: the promise is dropped, whoever made it. *)
EnqueueFails(r) ==
    /\ request[r].pc = "enqueue"
    /\ pending' = [pending EXCEPT ![request[r].track] = 0]
    /\ request' = [request EXCEPT ![r] = Free]
    /\ UNCHANGED <<promises, live, fetched, landed, indexed, recon, madeTrue, asked,
                   faults, wanted, excused, tangled>>

(* The rest of a playlist request goes to Navidrome, which answers. *)
Forward(r) ==
    /\ request[r].pc = "forward"
    /\ request' = [request EXCEPT ![r].pc = "file"]
    /\ UNCHANGED <<promises, pending, live, fetched, landed, indexed, recon, madeTrue,
                   asked, faults, wanted, excused, tangled>>

(* ... or does not: the track is acquired and filed nowhere. *)
NotForwarded(r) ==
    /\ request[r].pc = "forward"
    /\ Answered(r, {})
    /\ UNCHANGED <<promises, pending, live, fetched, landed, indexed, recon, madeTrue,
                   asked, faults, tangled>>

(* The request or a JSON answer names the playlist. *)
FileUnder(r) ==
    /\ request[r].pc = "file"
    /\ LET t == request[r].track
           p == pending[t]
       IN  /\ promises' = IF p = 0 THEN promises
                          ELSE [promises EXCEPT ![p].wishes = @ \cup {"list"}]
           /\ Answered(r, {<<t, "list">>})
    /\ UNCHANGED <<pending, live, fetched, landed, indexed, recon, madeTrue, asked,
                   faults, tangled>>

(* createPlaylist answered in XML: createdPlaylistID finds no id in it, the
   answer is passed on and the track is filed nowhere. *)
NotNamed(r) ==
    /\ request[r].pc = "file"
    /\ LET x == <<request[r].track, "list">>
       IN  /\ wanted' = wanted \cup {x}
           /\ excused' = IF x \in wanted THEN excused ELSE excused \cup {x}
    /\ request' = [request EXCEPT ![r] = Free]
    /\ UNCHANGED <<promises, pending, live, fetched, landed, indexed, recon, madeTrue,
                   asked, faults, tangled>>
-----------------------------------------------------------------------------
(* The queue finishes a download, one way or the other. *)
Download(t) ==
    /\ live[t] > 0
    /\ live' = [live EXCEPT ![t] = @ - 1]
    /\ \/ fetched' = fetched \cup {t} /\ landed' = TRUE
       \/ UNCHANGED <<fetched, landed>>
    /\ UNCHANGED <<promises, pending, indexed, request, recon, madeTrue, asked, faults,
                   wanted, excused, tangled>>

NavidromeIndexes(t) ==
    /\ t \in fetched \ indexed
    /\ indexed' = indexed \cup {t}
    /\ UNCHANGED <<promises, pending, live, fetched, landed, request, recon, madeTrue,
                   asked, faults, wanted, excused, tangled>>

(* flushScan starts a reconciliation of the promises there are, if there are any. *)
ReconStart(w) ==
    /\ landed
    /\ recon[w].pc = "asleep"
    /\ landed' = FALSE
    /\ IF \E o \in Reconciler : recon[o].pc # "asleep"
       THEN faults < MaxFacadeFaults /\ faults' = faults + 1
       ELSE UNCHANGED faults
    /\ LET todo == {pending[t] : t \in Track} \ {0}
           held == {promises[p].track : p \in todo}
       IN  /\ recon' = [recon EXCEPT ![w] = [Asleep EXCEPT !.todo = todo,
                                               !.pc = IF todo = {} THEN "asleep" ELSE "next"]]
           /\ tangled' = tangled \cup {t \in held : Serving(t) # {}}
    /\ UNCHANGED <<promises, pending, live, fetched, indexed, request, madeTrue, asked,
                   wanted, excused>>

(* The rescan is refused: nothing is reconciled until another file lands. *)
ScanFails ==
    /\ landed
    /\ landed' = FALSE
    /\ UNCHANGED <<promises, pending, live, fetched, indexed, request, recon, madeTrue,
                   asked, faults, wanted, excused, tangled>>

(* The next promise, in any order. *)
ReconNext(w) ==
    /\ recon[w].pc = "next"
    /\ \E p \in recon[w].todo :
         recon' = [recon EXCEPT ![w].todo = @ \ {p}, ![w].promise = p, ![w].pc = "poll"]
    /\ UNCHANGED <<promises, pending, live, fetched, landed, indexed, request, madeTrue,
                   asked, faults, wanted, excused, tangled>>

(* The three minutes are those of the whole call. *)
ReconLate(w) ==
    /\ recon[w].pc = "poll"
    /\ ~recon[w].late
    /\ recon' = [recon EXCEPT ![w].late = TRUE]
    /\ UNCHANGED <<promises, pending, live, fetched, landed, indexed, request, madeTrue,
                   asked, faults, wanted, excused, tangled>>

Current(w) == promises[recon[w].promise]

(* findNavidromeSong has found it before the deadline. *)
ReconFinds(w) ==
    /\ recon[w].pc = "poll"
    /\ ~recon[w].late
    /\ Current(w).track \in indexed
    /\ recon' = [recon EXCEPT ![w].pc = "star"]
    /\ UNCHANGED <<promises, pending, live, fetched, landed, indexed, request, madeTrue,
                   asked, faults, wanted, excused, tangled>>

Dropped(w) == /\ pending' = [pending EXCEPT ![Current(w).track] = 0]
              /\ recon' = [recon EXCEPT ![w].promise = 0, ![w].lists = FALSE,
                             ![w].pc = IF recon[w].todo = {} THEN "asleep" ELSE "next",
                             ![w].late = recon[w].late /\ recon[w].todo # {}]

(* Out of time, for this one and for all that come after it: the promise is dropped. *)
ReconGivesUp(w) ==
    /\ recon[w].pc = "poll"
    /\ recon[w].late
    /\ Dropped(w)
    /\ excused' = excused \cup {x \in Want : x[1] = Current(w).track}
    /\ UNCHANGED <<promises, live, fetched, landed, indexed, request, madeTrue, asked,
                   faults, wanted, tangled>>

(* One call of Navidrome: it is done, or it fails and that is only logged. *)
Told(x) == \/ madeTrue' = madeTrue \cup {x} /\ UNCHANGED excused
           \/ excused' = excused \cup {x} /\ UNCHANGED madeTrue

(* The star, if the promise has one by now; the playlists are read then too. *)
ReconStars(w) ==
    /\ recon[w].pc = "star"
    /\ IF "star" \in Current(w).wishes
       THEN Told(<<Current(w).track, "star">>)
       ELSE UNCHANGED <<madeTrue, excused>>
    /\ recon' = [recon EXCEPT ![w].pc = "file", ![w].lists = "list" \in Current(w).wishes]
    /\ UNCHANGED <<promises, pending, live, fetched, landed, indexed, request, asked,
                   faults, wanted, tangled>>

ReconFiles(w) ==
    /\ recon[w].pc = "file"
    /\ IF recon[w].lists
       THEN Told(<<Current(w).track, "list">>)
       ELSE UNCHANGED <<madeTrue, excused>>
    /\ recon' = [recon EXCEPT ![w].pc = "drop"]
    /\ UNCHANGED <<promises, pending, live, fetched, landed, indexed, request, asked,
                   faults, wanted, tangled>>

(* cancelPending goes by the track, not by the promise that was served. *)
ReconDrops(w) ==
    /\ recon[w].pc = "drop"
    /\ Dropped(w)
    /\ UNCHANGED <<promises, live, fetched, landed, indexed, request, madeTrue, asked,
                   faults, wanted, excused, tangled>>

(* The process restarts; promises live in memory, the queue does not. *)
FacadeRestart ==
    /\ faults < MaxFacadeFaults
    /\ faults' = faults + 1
    /\ promises' = <<>> /\ pending' = [t \in Track |-> 0] /\ landed' = FALSE
    /\ request' = [r \in Request |-> Free] /\ recon' = [w \in Reconciler |-> Asleep]
    /\ excused' = Want
    /\ UNCHANGED <<live, fetched, indexed, madeTrue, asked, wanted, tangled>>

FacadeNext ==
    \/ \E r \in Request :
         \/ \E k \in Kind, t \in Track : Ask(r, k, t)
         \/ Unstar(r) \/ Look(r) \/ NoteExisting(r) \/ Promise(r) \/ NoMetadata(r)
         \/ Check(r) \/ Enqueue(r) \/ EnqueueFails(r)
         \/ Forward(r) \/ NotForwarded(r) \/ FileUnder(r) \/ NotNamed(r)
    \/ \E t \in Track : Download(t) \/ NavidromeIndexes(t)
    \/ \E w \in Reconciler :
         \/ ReconStart(w) \/ ReconNext(w) \/ ReconLate(w) \/ ReconFinds(w)
         \/ ReconGivesUp(w) \/ ReconStars(w) \/ ReconFiles(w) \/ ReconDrops(w)
    \/ ScanFails \/ FacadeRestart

FacadeSpec == FacadeInit /\ [][FacadeNext]_facadeVars
-----------------------------------------------------------------------------
Promised == [track : Track, wishes : SUBSET Wish]
Number == 0..Len(promises)

(* Every variable keeps its type, and who holds the number of a promise holds
   that of one that was made since the start. *)
FacadeTypeOK ==
    /\ promises \in Seq(Promised) /\ Len(promises) <= MaxRequests
    /\ pending \in [Track -> Number]
    /\ live \in [Track -> 0..MaxRequests]
    /\ fetched \subseteq Track /\ indexed \subseteq Track /\ landed \in BOOLEAN
    /\ request \in [Request -> [pc : {"free", "cancel", "look", "note", "fetch", "check",
                                      "enqueue", "forward", "file"},
                                kind : Kind, track : Track, promise : Number]]
    /\ recon \in [Reconciler -> [pc : {"asleep", "next", "poll", "star", "file", "drop"},
                                 todo : SUBSET (Number \ {0}), promise : Number,
                                 late : BOOLEAN, lists : BOOLEAN]]
    /\ madeTrue \subseteq Want /\ wanted \subseteq Want /\ excused \subseteq Want
    /\ asked \in 0..MaxRequests /\ faults \in 0..MaxFacadeFaults /\ tangled \subseteq Track

(* "The user's action has to end up true of the real track": what an answered
   request asked for is promised, or true in Navidrome, or was given up for one
   of the reasons the comments accept (never indexed in time, a call that
   failed, a restart), or was an addition to a new playlist whose id an XML
   answer hid - as long as requests for the track overlap neither each other
   nor a reconciliation of it. *)
PromiseIsKept ==
    \A x \in wanted \ (madeTrue \cup excused) :
        \/ x[1] \in tangled
        \/ pending[x[1]] # 0 /\ x[2] \in promises[pending[x[1]]].wishes

(* "Idempotent: a second star for an id already queued only updates the
   promise": one track has one download that waits, runs or is done, again if
   its requests do not overlap. *)
EnqueuedOnce ==
    \A t \in Track \ tangled : live[t] <= 1 /\ (t \in fetched => live[t] = 0)
==============================================================================
