----------------------------- MODULE FacadeSearch -----------------------------
(***************************************************************************)
(* search3 through the facade (subsonic.go:233-832): the library's answer  *)
(* and Spotify's are fetched side by side; rows for what can be acquired   *)
(* are put behind the library's, or the answer goes out as it came.  Two   *)
(* bounded caches are shared by all requests: catalog answers by query,    *)
(* and the tracks behind the rows that were offered.                       *)
(***************************************************************************)
EXTENDS Matching, Integers, Functions, Sifting

CONSTANTS
    Hit,            \* catalog tracks: records [id, title, credit, isrc]
    Catalog,        \* Catalog[q] is Spotify's answer to a query, a sequence of hits
    LibrarySong,    \* songs the library can have: records [title, credit, isrc]
    QueueHas,       \* what the queue can have fetched: sets of ids
    Relevance,      \* Relevance[q][title]: 2 is the title itself, 1 holds it, 0 else
    Search,         \* searches being served
    MaxSearches,    \* bound: searches
    MaxInjected,    \* maxInjectedSongs
    SearchCap,      \* searchCacheEntries
    SeenCap         \* the bound of f.seen

SearchText == DOMAIN Catalog

ASSUME SearchAssumption ==
    /\ MaxSearches \in Nat /\ MaxInjected \in Nat
    /\ SearchCap \in Nat \ {0} /\ SeenCap \in Nat \ {0}
    /\ SearchText # {} /\ \A q \in SearchText : Catalog[q] \in Seq(Hit)
    /\ \A g, h \in Hit : g.id = h.id => g = h
    /\ \A q \in SearchText, h \in Hit : Relevance[q][h.title] \in 0..2

VARIABLES
    searchCache,    \* query -> the catalog's answer and whether it is still fresh
    searchOrder,    \* the cached queries, oldest first
    seen,           \* f.seen: ids of tracks that were offered
    seenOrder,      \* ... oldest first
    search,         \* the requests that run, with their catalog lookups
    searches        \* searches so far

searchVars == <<searchCache, searchOrder, seen, seenOrder, search, searches>>

NoRows == <<>>
Free0 == [pc |-> "free", query |-> CHOOSE q \in SearchText : TRUE, lookup |-> "none",
          tracks |-> <<>>, rows |-> NoRows, songs |-> {}, library |-> {}, fetched |-> {},
          answer |-> "none"]

SearchInit ==
    /\ searchCache = <<>> /\ searchOrder = <<>> /\ seen = {} /\ seenOrder = <<>>
    /\ search = [s \in Search |-> Free0] /\ searches = 0
-----------------------------------------------------------------------------
(* A search that is to be extended: a GET of the first page with a query.  *)
(* cachedSearch decides whether the catalog has to be asked.               *)
Hits(q) == q \in DOMAIN searchCache /\ searchCache[q].fresh

SearchStart(s, q) ==
    /\ search[s].pc = "free"
    /\ searches < MaxSearches
    /\ searches' = searches + 1
    /\ search' = [search EXCEPT ![s] =
                    [Free0 EXCEPT !.pc = "forward", !.query = q,
                       !.tracks = IF Hits(q) THEN searchCache[q].tracks ELSE <<>>,
                       !.lookup = IF Hits(q) THEN "cached" ELSE "asking"]]
    /\ UNCHANGED <<searchCache, searchOrder, seen, seenOrder>>

(* Entries past the limit go, oldest first. *)
Evicted(order, cap) == SubSeq(order, 1, Len(order) - cap)
Kept(order, cap) == IF Len(order) > cap THEN SubSeq(order, Len(order) - cap + 1, Len(order))
                    ELSE order
WithoutHead(f, keys) == [k \in DOMAIN f \ keys |-> f[k]]

\* mutant: a query that is cached already is put down again
OrderWithTwice(q) == Append(searchOrder, q)

(* cacheSearch: a query that is cached already keeps its place. *)
OrderWith(q) == IF q \in DOMAIN searchCache THEN searchOrder ELSE Append(searchOrder, q)
\* mutant: the answer is cached before it is there
CacheWithNothing(q) == [k \in DOMAIN searchCache \cup {q} |->
                           IF k = q THEN [tracks |-> <<>>, fresh |-> TRUE] ELSE searchCache[k]]

CacheWith(q) == [k \in DOMAIN searchCache \cup {q} |->
                    IF k = q THEN [tracks |-> Catalog[q], fresh |-> TRUE] ELSE searchCache[k]]

(* The catalog answers: the cache is filled, also when nobody waits any more. *)
CatalogAnswers(s) ==
    /\ search[s].lookup = "asking"
    /\ LET q == search[s].query
       IN  /\ searchOrder' = Kept(OrderWith(q), SearchCap)
           /\ searchCache' = WithoutHead(CacheWith(q), Range(Evicted(OrderWith(q), SearchCap)))
           /\ search' = [search EXCEPT ![s].lookup = "answered", ![s].tracks =
                           IF search[s].pc \in {"forward", "wait"} THEN Catalog[q] ELSE @]
    /\ UNCHANGED <<seen, seenOrder, searches>>

CatalogFails(s) ==
    /\ search[s].lookup = "asking"
    /\ search' = [search EXCEPT ![s].lookup = "failed"]
    /\ UNCHANGED <<searchCache, searchOrder, seen, seenOrder, searches>>

(* Navidrome cannot be read: the client's request is proxied after all.    *)
SearchProxied(s) ==
    /\ search[s].pc = "forward"
    /\ search' = [search EXCEPT ![s].pc = "done", ![s].answer = "proxied"]
    /\ UNCHANGED <<searchCache, searchOrder, seen, seenOrder, searches>>

(* It answers with the songs it has: the answer is understood, or goes out raw. *)
SearchForwarded(s) ==
    /\ search[s].pc = "forward"
    /\ \E songs \in SUBSET LibrarySong :
         \/ search' = [search EXCEPT ![s].pc = "wait", ![s].songs = songs]
         \/ search' = [search EXCEPT ![s].pc = "done", ![s].answer = "raw"]
    /\ UNCHANGED <<searchCache, searchOrder, seen, seenOrder, searches>>
-----------------------------------------------------------------------------
(* virtualSongs, for the answers the library index and the queue give now. *)
Item(t) == [id |-> t.id, isrc |-> NoKey, title |-> t.title, credit |-> t.credit]

(* The ISRCs earlier downloads have left in the cache: those of the hits that have one. *)
CachedISRC == [i \in {h.id : h \in {g \in Hit : g.isrc # NoKey}} |->
                 (CHOOSE h \in Hit : h.id = i).isrc]

Eligible(tracks, songs, library, fetched) ==
    Sift(tracks, {t \in Hit : /\ t.title # NoKey
                              /\ MatchType(library, CachedISRC, Item(t)) = "none"
                              /\ ~OwnedHas(songs, t.title, t.credit)
                              /\ t.id \notin fetched})

(* Three tiers, the catalog's own order within each.                       *)
Tier(q, tracks, n) == Sift(tracks, {t \in Hit : Relevance[q][t.title] = n})

\* mutant: the catalog's own order, whatever was typed
Unranked(q, tracks) == tracks

Ranked(q, tracks) == Tier(q, tracks, 2) \o Tier(q, tracks, 1) \o Tier(q, tracks, 0)

Rows(q, tracks, songs, library, fetched) ==
    LET ranked == Ranked(q, Eligible(tracks, songs, library, fetched))
    IN  SubSeq(ranked, 1, IF Len(ranked) < MaxInjected THEN Len(ranked) ELSE MaxInjected)

(* remember: each row's track, which keeps its place if it was seen before. *)
Remembered(order, rows) ==
    LET after[n \in 0..Len(rows)] ==
            IF n = 0 THEN order
            ELSE IF rows[n].id \in Range(after[n - 1]) THEN after[n - 1]
            ELSE Kept(Append(after[n - 1], rows[n].id), SeenCap)
    IN  after[Len(rows)]

(* The catalog has answered, or its time is up; rows are injected if the
   answer has the place for them, and the answer goes out raw if not. *)
SearchAnswers(s) ==
    /\ search[s].pc = "wait"
    /\ \E library \in SUBSET LibrarySong, fetched \in QueueHas, fits \in BOOLEAN :
         LET rows == Rows(search[s].query, search[s].tracks, search[s].songs, library, fetched)
         IN  /\ search' = [search EXCEPT
                  ![s] = IF fits /\ rows # NoRows
                         THEN [@ EXCEPT !.pc = "done", !.answer = "injected", !.rows = rows,
                                        !.library = library, !.fetched = fetched]
                         ELSE [@ EXCEPT !.pc = "done", !.answer = "raw"]]
             /\ seenOrder' = Remembered(seenOrder, rows)
             /\ seen' = Range(Remembered(seenOrder, rows))
    /\ UNCHANGED <<searchCache, searchOrder, searches>>

(* The client has its answer and the lookup is over. *)
SearchEnds(s) ==
    /\ search[s].pc = "done"
    /\ search[s].lookup # "asking"
    /\ search' = [search EXCEPT ![s] = Free0]
    /\ UNCHANGED <<searchCache, searchOrder, seen, seenOrder, searches>>

(* Ten minutes pass. *)
CacheAges ==
    /\ \E q \in DOMAIN searchCache : searchCache[q].fresh
    /\ searchCache' = [q \in DOMAIN searchCache |-> [searchCache[q] EXCEPT !.fresh = FALSE]]
    /\ UNCHANGED <<searchOrder, seen, seenOrder, search, searches>>

SearchNext ==
    \/ \E s \in Search : \/ \E q \in SearchText : SearchStart(s, q)
                         \/ CatalogAnswers(s) \/ CatalogFails(s) \/ SearchProxied(s)
                         \/ SearchForwarded(s) \/ SearchAnswers(s) \/ SearchEnds(s)
    \/ CacheAges

SearchSpec == SearchInit /\ [][SearchNext]_searchVars
-----------------------------------------------------------------------------
(* Every variable keeps its type. *)
SearchTypeOK ==
    /\ DOMAIN searchCache \subseteq SearchText
    /\ \A q \in DOMAIN searchCache : searchCache[q].tracks = Catalog[q] /\ searchCache[q].fresh \in BOOLEAN
    /\ searchOrder \in Seq(SearchText) /\ seenOrder \in Seq({h.id : h \in Hit})
    /\ seen \subseteq {h.id : h \in Hit}
    /\ \A s \in Search :
         /\ search[s].pc \in {"free", "forward", "wait", "done"}
         /\ search[s].lookup \in {"none", "cached", "asking", "answered", "failed"}
         /\ search[s].query \in SearchText /\ search[s].tracks \in {<<>>, Catalog[search[s].query]}
         /\ search[s].rows \in Seq(Hit) /\ search[s].answer \in {"none", "proxied", "raw", "injected"}
    /\ searches \in 0..MaxSearches

(* The list that decides what goes next and the cache it is about stay in step:
   the same keys, each once, and no more of them than the limit, however late a
   catalog answer comes in and however often a query or a track comes back. *)
InStep(order, keys, cap) ==
    /\ Range(order) = keys
    /\ IsInjective(order)
    /\ Len(order) <= cap
CachesInStep == /\ InStep(searchOrder, DOMAIN searchCache, SearchCap)
                /\ InStep(seenOrder, seen, SeenCap)

(* Who searches is offered what can be acquired and nothing else: no row for
   what the library, this very answer or the queue already has; the best
   answers to the words typed first; and a hit is left out only if it is owned
   or if a full list of hits at least as close has pushed it out. *)
Owned(s, t) ==
    \/ t.isrc # NoKey /\ \E e \in search[s].library : e.isrc = t.isrc
    \/ \E e \in search[s].library \cup search[s].songs :
          e.title = t.title /\ CreditsMatch(e.credit, t.credit)
    \/ t.id \in search[s].fetched

RowsAreAcquirable ==
    \A s \in Search : search[s].answer = "injected" =>
        LET rows == search[s].rows
            closeness(t) == Relevance[search[s].query][t.title]
        IN  /\ \A i \in DOMAIN rows : ~Owned(s, rows[i])
            /\ \A i, j \in DOMAIN rows : i < j => closeness(rows[i]) >= closeness(rows[j])
            /\ \A t \in Range(search[s].tracks) \ Range(rows) :
                  \/ t.title = NoKey \/ Owned(s, t)
                  \/ Len(rows) = MaxInjected /\ \A i \in DOMAIN rows : closeness(rows[i]) >= closeness(t)
==============================================================================
