------------------------------- MODULE Histories -------------------------------
(***************************************************************************)
(* The two histories in history.db (backend/history.go): the downloads and *)
(* the fetched links.  Each RPC is one bolt transaction.  A row's key is   *)
(* the time it was added followed by the bucket's sequence number, so the  *)
(* bucket is in the order of the clock, and the clock of a container may   *)
(* step back.                                                              *)
(***************************************************************************)
EXTENDS Integers, FiniteSets

CONSTANTS
    URL,            \* links that may be fetched, NoURL among them
    FetchType,      \* "track", "album", ...
    MaxHistory,     \* maxHistory, 10000 in the code
    TrimCount,      \* maxHistory / 20, at least 1
    LastTime,       \* bound: the clock runs from 1 to here
    MaxAdded,       \* bound: rows added
    MaxStepsBack    \* bound: times the clock steps back

ASSUME HistoryAssumption ==
    /\ MaxHistory \in Nat \ {0} /\ TrimCount \in 1..MaxHistory
    /\ LastTime \in Nat \ {0} /\ MaxAdded \in Nat /\ MaxStepsBack \in Nat

VARIABLES
    downloads, fetches,     \* the buckets: sets of rows
    buckets,                \* those that exist; the next row makes one again
    sequence,               \* each bucket's NextSequence
    rows,                   \* rows added so far, which number them
    addedLast,              \* the row the last transaction added, or none
    clock, stepsBack

historyVars == <<downloads, fetches, buckets, sequence, rows, addedLast, clock, stepsBack>>

NoURL == "none"
Row(bucket, url, type) == [at |-> clock, seq |-> sequence[bucket] + 1, url |-> url, type |-> type, no |-> rows + 1]

HistoryInit ==
    /\ downloads = {} /\ fetches = {} /\ buckets = {"downloads"}
    /\ sequence = [downloads |-> 0, fetches |-> 0]
    /\ rows = 0 /\ addedLast = {} /\ clock = 1 /\ stepsBack = 0

(* The key's order: the time has as many digits for centuries to come.     *)
Before(r, s) ==
    \/ r.at < s.at
    \/ r.at = s.at /\ r.seq < s.seq

(* The loops over First and Next that delete the TrimCount first keys.  A
   bucket with so many rows has many pages, and a cursor that walks a page
   does not see what is deleted under it: no row is skipped. *)
First(bucket, n) == {r \in bucket : Cardinality({s \in bucket : Before(s, r)}) < n}

\* mutant: the limit may be passed by one
TrimmedLate(committed, bucket) ==
    IF Cardinality(committed) > MaxHistory THEN bucket \ First(bucket, TrimCount) ELSE bucket

(* Stats counts the rows that are committed, those deleted by this very
   transaction included.  The new row is put after the trim. *)
Trimmed(committed, bucket) ==
    IF Cardinality(committed) >= MaxHistory THEN bucket \ First(bucket, TrimCount) ELSE bucket

\* mutant: the row is put before the trim
AddHistoryItemThenTrim ==
    /\ rows < MaxAdded
    /\ downloads' = Trimmed(downloads, downloads \cup {Row("downloads", NoURL, "track")})
    /\ addedLast' = {rows + 1}
    /\ rows' = rows + 1
    /\ sequence' = [sequence EXCEPT !.downloads = @ + 1]
    /\ buckets' = buckets \cup {"downloads"}
    /\ UNCHANGED <<fetches, clock, stepsBack>>

AddHistoryItem ==
    /\ rows < MaxAdded
    /\ downloads' = Trimmed(downloads, downloads) \cup {Row("downloads", NoURL, "track")}
    /\ addedLast' = {rows + 1}
    /\ rows' = rows + 1
    /\ sequence' = [sequence EXCEPT !.downloads = @ + 1]
    /\ buckets' = buckets \cup {"downloads"}
    /\ UNCHANGED <<fetches, clock, stepsBack>>

(* An entry of the same link and type goes before the new one comes.  In a
   bucket of one page the cursor does see the deletion, and passes over the
   row that follows the deleted one. *)
SameLink(r, url, type) == url # NoURL /\ r.url = url /\ r.type = type
\* mutant: the loop ends after the first row
AllButFirst(r, url, type) == \E s \in fetches : Before(s, r)

PassedOver(r, url, type) ==
    \E s \in fetches : /\ SameLink(s, url, type) /\ Before(s, r)
                       /\ ~\E t \in fetches : Before(s, t) /\ Before(t, r)
Replaced(url, type) == {r \in fetches : SameLink(r, url, type) /\ ~PassedOver(r, url, type)}

AddFetchHistoryItem(url, type) ==
    /\ rows < MaxAdded
    /\ fetches' = Trimmed(fetches, fetches \ Replaced(url, type)) \cup {Row("fetches", url, type)}
    /\ addedLast' = {rows + 1}
    /\ rows' = rows + 1
    /\ sequence' = [sequence EXCEPT !.fetches = @ + 1]
    /\ buckets' = buckets \cup {"fetches"}
    /\ UNCHANGED <<downloads, clock, stepsBack>>

Rest == addedLast' = {} /\ UNCHANGED <<rows, clock, stepsBack>>

(* DeleteBucket starts the sequence anew; a second call finds no bucket and
   fails. *)
ClearHistory ==
    /\ "downloads" \in buckets
    /\ downloads' = {} /\ buckets' = buckets \ {"downloads"}
    /\ sequence' = [sequence EXCEPT !.downloads = 0]
    /\ Rest /\ UNCHANGED fetches

ClearFetchHistory ==
    /\ "fetches" \in buckets
    /\ fetches' = {} /\ buckets' = buckets \ {"fetches"}
    /\ sequence' = [sequence EXCEPT !.fetches = 0]
    /\ Rest /\ UNCHANGED downloads

ClearFetchHistoryByType(type) ==
    /\ fetches' = {r \in fetches : r.type # type}
    /\ Rest /\ UNCHANGED <<downloads, buckets, sequence>>

DeleteHistoryItem(r) ==
    /\ downloads' = downloads \ {r}
    /\ Rest /\ UNCHANGED <<fetches, buckets, sequence>>

DeleteFetchHistoryItem(r) ==
    /\ fetches' = fetches \ {r}
    /\ Rest /\ UNCHANGED <<downloads, buckets, sequence>>

Clock ==
    /\ \/ clock < LastTime /\ clock' = clock + 1 /\ UNCHANGED stepsBack
       \/ stepsBack < MaxStepsBack /\ clock > 1 /\ clock' = 1 /\ stepsBack' = stepsBack + 1
    /\ UNCHANGED <<downloads, fetches, buckets, sequence, rows, addedLast>>

HistoryNext ==
    \/ AddHistoryItem
    \/ \E url \in URL, type \in FetchType : AddFetchHistoryItem(url, type)
    \/ ClearHistory
    \/ ClearFetchHistory
    \/ \E type \in FetchType : ClearFetchHistoryByType(type)
    \/ \E r \in downloads : DeleteHistoryItem(r)
    \/ \E r \in fetches : DeleteFetchHistoryItem(r)
    \/ Clock

HistorySpec == HistoryInit /\ [][HistoryNext]_historyVars
-----------------------------------------------------------------------------
(* Every row is one that was added, under the numbers its bucket has given
   out, and the limit on rows holds at all times for both buckets. *)
HistoryTypeOK ==
    /\ \A r \in downloads \cup fetches : /\ r.at \in 1..LastTime /\ r.no \in 1..rows
                                         /\ r.url \in URL \cup {NoURL}
    /\ \A r \in downloads : r.seq \in 1..sequence.downloads
    /\ \A r \in fetches : r.seq \in 1..sequence.fetches /\ r.type \in FetchType
    /\ "downloads" \notin buckets => downloads = {}
    /\ "fetches" \notin buckets => fetches = {}
    /\ Cardinality(downloads) <= MaxHistory /\ Cardinality(fetches) <= MaxHistory
    /\ clock \in 1..LastTime

(* A link that was fetched again is listed once per type, although the loop
   that removes its older row deletes under its own cursor and may pass over
   rows: there is never a second one to pass over. *)
FetchedOnce ==
    \A r, s \in fetches : SameLink(r, s.url, s.type) => r = s

(* What was just added is there, though the clock has stepped back and its
   key sorts before those the trim has taken; no two rows share a key, so
   none has overwritten another. *)
JustAddedIsKept ==
    /\ \A no \in addedLast : \E r \in downloads \cup fetches : r.no = no
    /\ \A r, s \in downloads : r.at = s.at /\ r.seq = s.seq => r = s
    /\ \A r, s \in fetches : r.at = s.at /\ r.seq = s.seq => r = s
=============================================================================
