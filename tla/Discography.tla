----------------------------- MODULE Discography -----------------------------
(***************************************************************************)
(* An artist's discography (spotify_metadata.go:1267-1420): one goroutine  *)
(* per album, a few at work at a time, each streams its tracks to the      *)
(* browser and sends its result to the request that collects them; the     *)
(* request gives up at the first album that was reached after its deadline.*)
(***************************************************************************)
EXTENDS Integers, FiniteSets, Functions, Sifting

CONSTANTS
    Album,          \* the albums of the list
    TracksOf,       \* TracksOf[a], the album's tracks in order
    Slots           \* capacity of sem

AlbumTracks == UNION {Range(TracksOf[a]) : a \in Album}

ASSUME DiscographyAssumption ==
    /\ Slots \in Nat \ {0} /\ IsFiniteSet(Album)
    /\ TracksOf \in [Album -> Seq(AlbumTracks)]

VARIABLES
    albumTask,      \* each album's goroutine: waiting, working, answered, sent
    albumFound,     \* what it has to send: tracks, or the error of the context
    albumSem,       \* slots taken
    albumResults,   \* resultsChan
    collected,      \* what the request has received, in order
    albumTracks,    \* allTracks
    deadline,       \* the context is done
    streamed,       \* albums whose tracks went to the browser
    collector       \* the request: collecting, returned, failed

discVars == <<albumTask, albumFound, albumSem, albumResults, collected, albumTracks, deadline,
              streamed, collector>>

NoAnswer == [album |-> "none", err |-> FALSE, tracks |-> <<>>]

DiscInit ==
    /\ albumTask = [a \in Album |-> "waiting"]
    /\ albumFound = [a \in Album |-> NoAnswer]
    /\ albumSem = 0 /\ albumResults = <<>> /\ collected = <<>> /\ albumTracks = <<>>
    /\ deadline = FALSE /\ streamed = {} /\ collector = "collecting"
-----------------------------------------------------------------------------
\* mutant: the channel has room for those that run
CapacityOfSlots == Slots

Capacity == Cardinality(Album)

(* A goroutine gets its slot, and finds the context done or asks for its album. *)
StartAlbum(a) ==
    /\ albumTask[a] = "waiting" /\ albumSem < Slots
    /\ albumSem' = albumSem + 1
    /\ IF deadline
       THEN /\ albumTask' = [albumTask EXCEPT ![a] = "answered"]
            /\ albumFound' = [albumFound EXCEPT ![a] = [album |-> a, err |-> TRUE, tracks |-> <<>>]]
       ELSE /\ albumTask' = [albumTask EXCEPT ![a] = "working"]
            /\ UNCHANGED albumFound
    /\ UNCHANGED <<albumResults, collected, albumTracks, deadline, streamed, collector>>

\* mutant: the browser is told of an album before it could be fetched
AlbumAnnounced(a) ==
    /\ albumTask[a] = "working"
    /\ albumTask' = [albumTask EXCEPT ![a] = "answered"]
    /\ streamed' = streamed \cup {a}
    /\ \E tracks \in {TracksOf[a], <<>>} :
         albumFound' = [albumFound EXCEPT ![a] = [album |-> a, err |-> FALSE, tracks |-> tracks]]
    /\ UNCHANGED <<albumSem, albumResults, collected, albumTracks, deadline, collector>>

(* The album is there and its tracks are streamed; or it could not be fetched,
   which the request is not told. *)
AlbumAnswers(a) ==
    /\ albumTask[a] = "working"
    /\ albumTask' = [albumTask EXCEPT ![a] = "answered"]
    /\ \/ /\ albumFound' = [albumFound EXCEPT ![a] = [album |-> a, err |-> FALSE, tracks |-> TracksOf[a]]]
          /\ streamed' = streamed \cup {a}
       \/ /\ albumFound' = [albumFound EXCEPT ![a] = [album |-> a, err |-> FALSE, tracks |-> <<>>]]
          /\ UNCHANGED streamed
    /\ UNCHANGED <<albumSem, albumResults, collected, albumTracks, deadline, collector>>

\* mutant: the slot is not given back
SendAlbumKeepingSlot(a) ==
    /\ albumTask[a] = "answered"
    /\ Len(albumResults) < Capacity
    /\ albumResults' = Append(albumResults, albumFound[a])
    /\ albumTask' = [albumTask EXCEPT ![a] = "sent"]
    /\ UNCHANGED <<albumSem, albumFound, collected, albumTracks, deadline, streamed, collector>>

SendAlbum(a) ==
    /\ albumTask[a] = "answered"
    /\ Len(albumResults) < Capacity
    /\ albumResults' = Append(albumResults, albumFound[a])
    /\ albumTask' = [albumTask EXCEPT ![a] = "sent"]
    /\ albumSem' = albumSem - 1
    /\ UNCHANGED <<albumFound, collected, albumTracks, deadline, streamed, collector>>

(* The request takes as many results as there are albums, and returns at once
   when one is an error. *)
Collect ==
    /\ collector = "collecting" /\ albumResults # <<>>
    /\ albumResults' = Tail(albumResults)
    /\ LET r == Head(albumResults)
       IN  /\ collected' = Append(collected, r.album)
           /\ albumTracks' = IF r.err THEN albumTracks ELSE albumTracks \o r.tracks
           /\ collector' = IF r.err THEN "failed"
                           ELSE IF Len(collected) + 1 = Cardinality(Album) THEN "returned"
                           ELSE "collecting"
    /\ UNCHANGED <<albumTask, albumFound, albumSem, deadline, streamed>>

TimeIsUp ==
    /\ ~deadline /\ deadline' = TRUE
    /\ UNCHANGED <<albumTask, albumFound, albumSem, albumResults, collected, albumTracks, streamed, collector>>

DiscNext ==
    \/ \E a \in Album : StartAlbum(a) \/ AlbumAnswers(a) \/ SendAlbum(a)
    \/ Collect \/ TimeIsUp

DiscSpec == DiscInit /\ [][DiscNext]_discVars
-----------------------------------------------------------------------------
(* Every variable keeps its type; slots and results are within their limits. *)
DiscTypeOK ==
    /\ albumTask \in [Album -> {"waiting", "working", "answered", "sent"}]
    /\ albumSem = Cardinality({a \in Album : albumTask[a] \in {"working", "answered"}})
    /\ albumSem <= Slots
    /\ Len(albumResults) <= Cardinality(Album)
    /\ deadline \in BOOLEAN /\ streamed \subseteq Album
    /\ collector \in {"collecting", "returned", "failed"}

(* No goroutine is left behind when the request has given up: there is room
   for the result of each, whoever reads it, and its slot comes free. *)
NobodyIsLeft ==
    \A a \in Album : albumTask[a] = "answered" => Len(albumResults) < Capacity

(* The tracks of each album that the browser was shown. *)
ShownTracks == [a \in Album |-> IF a \in streamed THEN TracksOf[a] ELSE <<>>]

(* What the request returns is what the browser was shown on the way: the
   tracks of the albums that were fetched, each album once and in one piece,
   in whatever order they came. *)
ReturnsWhatWasShown ==
    collector = "returned" =>
        /\ IsInjective(collected) /\ Range(collected) = Album
        /\ albumTracks = Strung(collected, ShownTracks)
==============================================================================
