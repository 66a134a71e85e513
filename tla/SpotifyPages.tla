----------------------------- MODULE SpotifyPages -----------------------------
(***************************************************************************)
(* Albums, playlists and discographies come in pages (fetchAlbumWithClient,*)
(* fetchPlaylist, fetchArtistDiscography in spotify_metadata.go).  The     *)
(* service may send shorter pages than were asked for, may leave out its   *)
(* total, may fail, and a list may be edited between two pages.            *)
(***************************************************************************)
EXTENDS Integers, SequencesExt, Sifting

CONSTANTS
    Limit,          \* items asked for at a time: 1000, or 50 for discographies
    LongestList,    \* bound: items of the service's list at first
    MaxListEdits,   \* bound: edits while the pages come
    Unnamed         \* entries without a name: tracks that are no longer there

ASSUME PagesAssumption ==
    /\ Limit \in Nat \ {0} /\ LongestList \in Nat /\ MaxListEdits \in Nat
    /\ Unnamed \subseteq Nat

Listing == {"album", "playlist", "discography"}

VARIABLES
    listing,        \* what is fetched
    listed,         \* the service's list
    served,         \* the longest page it sends
    givesTotal,     \* whether its answers name a total
    allItems,       \* the items so far
    offset, totalCount,     \* of the paging; no total yet is -1
    pagesPc,        \* "ask", "shown" (the callback, with a first page), "done", "failed"
    firstShown,          \* what the callback got of the first page
    payload,        \* what is returned: [rows, count]
    pagesAsked, pageFailed, listEdits

pagesVars == <<listing, listed, served, givesTotal, allItems, offset, totalCount, pagesPc,
               firstShown, payload, pagesAsked, pageFailed, listEdits>>
theService == <<listing, listed, served, givesTotal, listEdits>>

NoTotal == -1
EmptyPayload == [rows |-> <<>>, count |-> 0]

PagesInit ==
    /\ listing \in Listing
    /\ \E n \in 0..LongestList : listed = [i \in 1..n |-> i]
    /\ served \in 1..Limit /\ givesTotal \in BOOLEAN
    /\ allItems = <<>> /\ offset = 0 /\ totalCount = NoTotal
    /\ pagesPc = "ask" /\ firstShown = <<>> /\ payload = EmptyPayload
    /\ pagesAsked = 0 /\ pageFailed = FALSE /\ listEdits = 0

(* The rows of a page: FilterPlaylist leaves out what has no name.         *)
Listable == IF listing = "playlist" THEN Nat \ Unnamed ELSE Nat
RowsOf(items) == Sift(items, Listable)

(* FilterAlbum counts its rows.  The number of all items that the paging puts
   in for a total is an int: FilterArtist takes it; FilterPlaylist, which looks
   for a float64, does not see it and counts its rows as well. *)
CountOf(items) == IF listing = "discography" THEN Len(items) ELSE Len(RowsOf(items))
-----------------------------------------------------------------------------
Page == SubSeq(listed, offset + 1,
               IF offset + served < Len(listed) THEN offset + served ELSE Len(listed))

(* The total of the first page stands, or its length if it names none.     *)
KnownTotal(page) ==
    IF totalCount # NoTotal THEN totalCount
    ELSE IF givesTotal THEN Len(listed) ELSE Len(page)

\* mutant: a short page does not end it
LastPageByTotal(page) == Len(page) = 0 \/ Len(allItems \o page) >= KnownTotal(page)

\* mutant: it ends one item early
LastPageTooEarly(page) == \/ Len(page) = 0
                          \/ Len(allItems \o page) + 1 >= KnownTotal(page)
                          \/ Len(page) < Limit

\* mutant: the total is not looked at
LastPageByLength(page) == Len(page) < Limit

LastPage(page) == \/ Len(page) = 0
                  \/ Len(allItems \o page) >= KnownTotal(page)
                  \/ Len(page) < Limit

(* A discography shows the artist's overview instead, not a page of it.    *)
ShowsFirst == pagesAsked = 0 /\ listing # "discography"

\* mutant: the offset stays
AskPageAgain ==
    /\ pagesPc = "ask"
    /\ pagesAsked' = pagesAsked + 1
    /\ firstShown' = IF ShowsFirst THEN RowsOf(Page) ELSE firstShown
    /\ allItems' = allItems \o Page
    /\ totalCount' = IF Page = <<>> THEN totalCount ELSE KnownTotal(Page)
    /\ pagesPc' = IF LastPage(Page) THEN "collect" ELSE "ask"
    /\ UNCHANGED <<offset, payload, pageFailed, theService>>

(* One turn of the loop.  The first answer goes to the callback as it is.  *)
AskPage ==
    /\ pagesPc = "ask"
    /\ pagesAsked' = pagesAsked + 1
    /\ firstShown' = IF ShowsFirst THEN RowsOf(Page) ELSE firstShown
    /\ allItems' = allItems \o Page
    /\ totalCount' = IF Page = <<>> THEN totalCount ELSE KnownTotal(Page)
    /\ IF LastPage(Page) THEN pagesPc' = "collect" /\ UNCHANGED offset
                         ELSE pagesPc' = "ask" /\ offset' = offset + Limit
    /\ UNCHANGED <<payload, pageFailed, theService>>

(* A query that fails loses the album or the playlist; a discography goes on
   with what it has.  Between two pages of a discography the request may be
   cancelled. *)
PageError ==
    /\ pagesPc = "ask" /\ pageFailed' = TRUE
    /\ pagesPc' = IF listing = "discography" THEN "collect" ELSE "failed"
    /\ UNCHANGED <<allItems, offset, totalCount, firstShown, payload, pagesAsked, theService>>

CancelPages ==
    /\ pagesPc = "ask" /\ listing = "discography" /\ pagesAsked > 0
    /\ pagesPc' = "failed"
    /\ UNCHANGED <<allItems, offset, totalCount, firstShown, payload, pagesAsked, pageFailed, theService>>

(* All items and their number replace those of the first answer.           *)
CollectPages ==
    /\ pagesPc = "collect"
    /\ pagesPc' = "done"
    /\ payload' = [rows |-> RowsOf(allItems), count |-> CountOf(allItems)]
    /\ UNCHANGED <<allItems, offset, totalCount, firstShown, pagesAsked, pageFailed, theService>>

(* Somebody else edits the list.                                           *)
EditList ==
    /\ pagesPc = "ask" /\ pagesAsked > 0 /\ listEdits < MaxListEdits /\ listEdits' = listEdits + 1
    /\ \/ listed' = <<LongestList + listEdits + 1>> \o listed
       \/ listed # <<>> /\ listed' = Tail(listed)
    /\ UNCHANGED <<listing, served, givesTotal, allItems, offset, totalCount, pagesPc,
                   firstShown, payload, pagesAsked, pageFailed>>

PagesNext == AskPage \/ PageError \/ CancelPages \/ CollectPages \/ EditList

PagesSpec == PagesInit /\ [][PagesNext]_pagesVars
-----------------------------------------------------------------------------
(* The paging keeps to its types, asks at whole multiples of the limit and
   holds no more than it was sent. *)
PagesTypeOK ==
    /\ listing \in Listing /\ served \in 1..Limit
    /\ pagesPc \in {"ask", "collect", "done", "failed"}
    /\ pagesPc = "ask" => offset = pagesAsked * Limit
    /\ totalCount \in Nat \cup {NoTotal}
    /\ Len(allItems) <= pagesAsked * served
    /\ payload # EmptyPayload => pagesPc = "done"

(* What is returned has no gap: it is the beginning of the list, in order,
   however short the pages were and wherever a discography's query failed; and
   what the browser was shown of it early is how it begins. *)
NoGaps ==
    pagesPc = "done" =>
        /\ IsPrefix(firstShown, payload.rows)
        /\ listEdits = 0 => IsPrefix(payload.rows, RowsOf(listed))

(* It is all of the list when the service honours the limit and names its
   total, and no page failed, and it is as long as it says.  A short page, or a
   missing total, ends the paging early, and its length then tells nobody. *)
WholeListIsReturned ==
    pagesPc = "done" /\ listEdits = 0 /\ ~pageFailed /\ served = Limit /\ givesTotal =>
        /\ payload.rows = RowsOf(listed)
        /\ payload.count = Len(payload.rows)

(* The paging ends, though the list may grow or shrink meanwhile: it asks for
   no more pages than the first total takes, and one that may be empty. *)
PagingEnds ==
    totalCount # NoTotal => (pagesAsked - 1) * Limit <= totalCount
==============================================================================
