---------------------------- MODULE SpotifyClient ----------------------------
(***************************************************************************)
(* Talking to Spotify (spotfetch.go:28-400): an access token shared by the *)
(* process behind a mutex, and clients with a copy of it, each used by one *)
(* goroutine or, for an artist's albums, by several.  A query that is      *)
(* refused throws the tokens away, starts the session anew and tries once  *)
(* more.                                                                   *)
(***************************************************************************)
EXTENDS Integers, FiniteSets

CONSTANTS
    Fetcher,        \* goroutines that run queries
    Account,        \* SpotifyClient values
    ClientOf,       \* the client a goroutine uses
    MaxQueries,     \* bound: queries
    MaxRevoked,     \* bound: times the service stops to accept its tokens
    MaxTroubles     \* bound: times the cached token reaches its end, or a request fails

Nobody == "nobody"

ASSUME ClientAssumption ==
    /\ ClientOf \in [Fetcher -> Account] /\ Nobody \notin Fetcher
    /\ MaxQueries \in Nat /\ MaxRevoked \in Nat /\ MaxTroubles \in Nat

VARIABLES
    tokenCache,     \* spotifyAccessTokenCache: the token, 0 for none
    tokenLock,      \* who holds its mutex
    account,        \* each client's tokens: [access, client]
    fetcher,        \* each goroutine: [pc, try, rerun, refused, began]
    issued,         \* tokens the service has handed out: 1..issued
    revoked,        \* it accepts those above this number
    renewals,       \* refusals that emptied the cache
    expired, revokes, queries, webFaults    \* bounds

clientVars == <<tokenCache, tokenLock, account, fetcher, issued, revoked, renewals,
                expired, revokes, queries, webFaults>>
service == <<issued, revoked, renewals, expired, revokes, queries, webFaults>>

NoToken == 0
Idle == [pc |-> "idle", try |-> 1, rerun |-> FALSE, refused |-> NoToken, began |-> 0]

ClientInit ==
    /\ tokenCache = NoToken /\ tokenLock = Nobody
    /\ account = [a \in Account |-> [access |-> NoToken, client |-> FALSE]]
    /\ fetcher = [w \in Fetcher |-> Idle]
    /\ issued = 0 /\ revoked = 0 /\ renewals = 0
    /\ expired = 0 /\ revokes = 0 /\ queries = 0 /\ webFaults = 0

Mine(w) == account[ClientOf[w]]
Goes(w, pc) == fetcher' = [fetcher EXCEPT ![w].pc = pc]
Calm == expired + webFaults < MaxTroubles
Fault == Calm /\ webFaults' = webFaults + 1
-----------------------------------------------------------------------------
(* Query: without tokens the session is initialized first.                 *)
Query(w) ==
    /\ fetcher[w].pc = "idle" /\ queries < MaxQueries
    /\ queries' = queries + 1
    /\ fetcher' = [fetcher EXCEPT ![w] = [Idle EXCEPT !.began = revokes,
                     !.pc = IF Mine(w).access = NoToken \/ ~Mine(w).client THEN "session" ELSE "send"]]
    /\ UNCHANGED <<tokenCache, tokenLock, account, issued, revoked, renewals, expired, revokes, webFaults>>

(* getSessionInfo                                                          *)
Session(w) ==
    /\ fetcher[w].pc = "session"
    /\ \/ Goes(w, "lock") /\ UNCHANGED webFaults
       \/ Goes(w, "failed") /\ Fault
    /\ UNCHANGED <<tokenCache, tokenLock, account, issued, revoked, renewals, expired, revokes, queries>>

\* mutant: everyone asks for a token
TokenIsNotCached == FALSE

(* getAccessToken holds the mutex while it asks, so that others who wait
   find its answer in the cache.  A failure comes after three TOTP windows. *)
TokenIsCached == tokenCache # NoToken

LockToken(w) ==
    /\ fetcher[w].pc = "lock" /\ tokenLock = Nobody
    /\ tokenLock' = w
    /\ Goes(w, IF TokenIsCached THEN "cached" ELSE "ask")
    /\ UNCHANGED <<tokenCache, account, service>>

\* mutant: who finds a token does not let go of the mutex
UseCachedLocked(w) ==
    /\ fetcher[w].pc = "cached"
    /\ account' = [account EXCEPT ![ClientOf[w]].access = tokenCache]
    /\ Goes(w, "client")
    /\ UNCHANGED <<tokenCache, tokenLock, service>>

UseCached(w) ==
    /\ fetcher[w].pc = "cached"
    /\ account' = [account EXCEPT ![ClientOf[w]].access = tokenCache]
    /\ tokenLock' = Nobody
    /\ Goes(w, "client")
    /\ UNCHANGED <<tokenCache, service>>

AskToken(w) ==
    /\ fetcher[w].pc = "ask"
    /\ tokenLock' = Nobody
    /\ \/ /\ issued' = issued + 1
          /\ tokenCache' = issued + 1
          /\ account' = [account EXCEPT ![ClientOf[w]].access = issued + 1]
          /\ Goes(w, "client") /\ UNCHANGED webFaults
       \/ /\ Goes(w, "failed") /\ Fault
          /\ UNCHANGED <<issued, tokenCache, account>>
    /\ UNCHANGED <<revoked, renewals, expired, revokes, queries>>

(* getClientToken: once more from the session if a part of it is missing.  *)
ClientToken(w) ==
    /\ fetcher[w].pc = "client"
    /\ \/ /\ account' = [account EXCEPT ![ClientOf[w]].client = TRUE]
          /\ Goes(w, "send") /\ UNCHANGED webFaults
       \/ /\ ~fetcher[w].rerun /\ Fault
          /\ fetcher' = [fetcher EXCEPT ![w].pc = "session", ![w].rerun = TRUE]
          /\ UNCHANGED account
       \/ /\ Goes(w, "failed") /\ Fault
          /\ UNCHANGED account
    /\ UNCHANGED <<tokenCache, tokenLock, issued, revoked, renewals, expired, revokes, queries>>
-----------------------------------------------------------------------------
Accepted(w) == Mine(w).access > revoked /\ Mine(w).client

(* doRequest reads the client's tokens when the request is built; another
   goroutine of the same client may have emptied them, or may be writing
   them, in which case what is read can be no token at all. *)
Torn(w) == \E v \in Fetcher \ {w} : /\ ClientOf[v] = ClientOf[w]
                                    /\ fetcher[v].pc \in {"cached", "ask", "client", "clear"}

Send(w) ==
    /\ fetcher[w].pc = "send"
    /\ \/ Accepted(w) /\ Goes(w, "done") /\ UNCHANGED webFaults
       \/ Goes(w, "failed") /\ Fault
       \/ /\ ~Accepted(w) \/ Torn(w)
          /\ fetcher' = [fetcher EXCEPT ![w].pc = IF fetcher[w].try = 1 THEN "renew" ELSE "refused",
                           ![w].refused = IF fetcher[w].try = 1 THEN Mine(w).access ELSE @]
          /\ UNCHANGED webFaults
    /\ UNCHANGED <<tokenCache, tokenLock, account, issued, revoked, renewals, expired, revokes, queries>>

\* mutant: the refused token stays in the cache
NotEmptied(cache) == cache

(* 401 or 403: the cache is emptied under its lock, then the client's copies,
   and the session is initialized again. *)
Emptied(cache) == NoToken

Renew(w) ==
    /\ fetcher[w].pc = "renew" /\ tokenLock = Nobody
    /\ tokenCache' = Emptied(tokenCache)
    /\ renewals' = renewals + 1
    /\ Goes(w, "clear")
    /\ UNCHANGED <<tokenLock, account, issued, revoked, expired, revokes, queries, webFaults>>

Clear(w) ==
    /\ fetcher[w].pc = "clear"
    /\ account' = [account EXCEPT ![ClientOf[w]] = [access |-> NoToken, client |-> FALSE]]
    /\ fetcher' = [fetcher EXCEPT ![w].pc = "session", ![w].try = 2, ![w].rerun = FALSE]
    /\ UNCHANGED <<tokenCache, tokenLock, service>>

Return(w) ==
    /\ fetcher[w].pc \in {"done", "failed", "refused"}
    /\ fetcher' = [fetcher EXCEPT ![w] = Idle]
    /\ UNCHANGED <<tokenCache, tokenLock, account, service>>

(* The service stops to accept its tokens; the cached one reaches its end. *)
Revoke ==
    /\ revokes < MaxRevoked /\ revokes' = revokes + 1
    /\ revoked' = issued
    /\ UNCHANGED <<tokenCache, tokenLock, account, fetcher, issued, renewals, expired, queries, webFaults>>

Expire ==
    /\ Calm /\ tokenCache # NoToken /\ tokenLock = Nobody
    /\ expired' = expired + 1
    /\ tokenCache' = NoToken
    /\ UNCHANGED <<tokenLock, account, fetcher, issued, revoked, renewals, revokes, queries, webFaults>>

ClientNext ==
    \/ \E w \in Fetcher : \/ Query(w) \/ Session(w) \/ LockToken(w) \/ UseCached(w) \/ AskToken(w)
                          \/ ClientToken(w) \/ Send(w) \/ Renew(w) \/ Clear(w) \/ Return(w)
    \/ Revoke \/ Expire

ClientSpec == ClientInit /\ [][ClientNext]_clientVars
-----------------------------------------------------------------------------
(* Every variable keeps its type, and the mutex is held by who asks for or
   copies the token, and by nobody else. *)
ClientTypeOK ==
    /\ tokenCache \in 0..issued
    /\ tokenLock \in Fetcher \cup {Nobody}
    /\ account \in [Account -> [access : 0..issued, client : BOOLEAN]]
    /\ \A w \in Fetcher :
         /\ fetcher[w].pc \in {"idle", "session", "lock", "cached", "ask", "client", "send",
                               "renew", "clear", "done", "failed", "refused"}
         /\ fetcher[w].try \in 1..2 /\ fetcher[w].rerun \in BOOLEAN
         /\ fetcher[w].refused \in 0..issued /\ fetcher[w].began \in 0..revokes
         /\ tokenLock = w <=> fetcher[w].pc \in {"cached", "ask"}
    /\ revoked \in 0..issued /\ issued \in Nat /\ renewals \in Nat

(* However many goroutines find themselves without a token at once, one of
   them asks for it and the others use its answer: beyond the first, a token
   is asked for only after one has expired or was refused. *)
TokenIsShared == issued <= 1 + expired + renewals

(* Who was refused tries again with another token, not with the copy of the
   refused one that the cache or a sibling may still hold. *)
RetriesAreFresh ==
    \A w \in Fetcher : /\ fetcher[w].pc = "send" /\ fetcher[w].try = 2
                       /\ fetcher[w].refused # NoToken
                       => Mine(w).access # fetcher[w].refused

(* A client of one's own does not lose a query to one token that has come to
   its end: to be refused twice takes two revocations, the second of them
   after the query began.  Goroutines that share a client do lose queries
   that way, to a sibling that has just emptied the tokens. *)
OwnClientRecovers ==
    \A w \in Fetcher : /\ fetcher[w].pc = "refused"
                       /\ \A v \in Fetcher \ {w} : ClientOf[v] # ClientOf[w]
                       => revokes > fetcher[w].began
==============================================================================
