------------------------------- MODULE CatalogProofs -------------------------------
(*****************************************************************************)
(* Proofs about the modules that deal with services of the net: the Spotify  *)
(* client and its token, the fan-out of a discography, the paging of a list, *)
(* the lookups of MusicBrainz and those of track identifiers, and the        *)
(* facade, which promises what Navidrome does not have yet and offers it in  *)
(* searches.                                                                 *)
(*****************************************************************************)
EXTENDS SpotifyClient, Discography, SpotifyPages, MusicBrainz, TrackIds,
        Facade, FacadeSearch, SiftingProofs, FiniteSetTheorems,
        SequenceTheorems, TLAPS

-----------------------------------------------------------------------------
(* What a goroutine's record and a client's record are made of.            *)
Pcs == {"idle", "session", "lock", "cached", "ask", "client", "send", "renew", "clear", "done",
        "failed", "refused"}
FetcherState == [pc : Pcs, try : 1..2, rerun : BOOLEAN, refused : Nat, began : Nat]
TokenPair == [access : Nat, client : BOOLEAN]

ClientTyped ==
    /\ fetcher \in [Fetcher -> FetcherState]
    /\ account \in [Account -> TokenPair]
    /\ tokenLock \in Fetcher \cup {Nobody}
    /\ tokenCache \in Nat /\ issued \in Nat /\ revoked \in Nat /\ renewals \in Nat
    /\ expired \in Nat /\ revokes \in Nat /\ queries \in Nat /\ webFaults \in Nat

(* No token is known that was not handed out, and no query began later than now. *)
TokensAreIssued ==
    /\ tokenCache <= issued /\ revoked <= issued
    /\ \A a \in Account : account[a].access <= issued
    /\ \A w \in Fetcher : fetcher[w].refused <= issued /\ fetcher[w].began <= revokes

(* The mutex is held by who asks or copies, and the cache is as it was found. *)
LockIsHeld ==
    \A w \in Fetcher : /\ tokenLock = w <=> fetcher[w].pc \in {"cached", "ask"}
                       /\ fetcher[w].pc = "ask" => tokenCache = NoToken
                       /\ fetcher[w].pc = "cached" => tokenCache # NoToken

(* Each token but the cached one was followed by its end or its refusal.   *)
TokensAreCounted ==
    /\ issued <= 1 + expired + renewals
    /\ tokenCache = NoToken => issued <= expired + renewals

(* From the moment a refused token has been thrown out of the cache until the
   query ends, it is neither in the cache nor, once the client's copy is gone,
   in that copy. *)
RefusedIsGone ==
    \A w \in Fetcher : fetcher[w].refused # NoToken =>
        /\ fetcher[w].try = 2 \/ fetcher[w].pc = "clear" => tokenCache # fetcher[w].refused
        /\ fetcher[w].try = 2 => Mine(w).access # fetcher[w].refused

(* A goroutine that nobody shares its client with. *)
NobodyBut(w) == \A v \in Fetcher \ {w} : ClientOf[v] # ClientOf[w]

(* While the service has revoked nothing since the query began, its second
   try finds in the cache, and then in its client, a token that is accepted. *)
SecondTryIsGood ==
    \A w \in Fetcher : fetcher[w].began = revokes =>
        /\ fetcher[w].try = 2 \/ fetcher[w].pc = "clear" => tokenCache = NoToken \/ tokenCache > revoked
        /\ NobodyBut(w) /\ fetcher[w].try = 2 =>
             /\ fetcher[w].pc \in {"client", "send"} => Mine(w).access > revoked
             /\ fetcher[w].pc = "send" => Mine(w).client
             /\ fetcher[w].pc # "refused"

(* A query that was refused for good is on its second try. *)
RefusedIsSecond == \A w \in Fetcher : fetcher[w].pc = "refused" => fetcher[w].try = 2

ClientInv == /\ ClientTyped /\ TokensAreIssued /\ LockIsHeld /\ TokensAreCounted
             /\ RefusedIsGone /\ SecondTryIsGood /\ RefusedIsSecond
-----------------------------------------------------------------------------
(* The record of a goroutine that begins its second try is one of the kind. *)
LEMMA StateIsReset ==
  ASSUME NEW r \in FetcherState, NEW x \in Pcs
  PROVE  [r EXCEPT !.pc = x, !.try = 2, !.rerun = FALSE] \in FetcherState
  <1>1. ASSUME NEW t \in FetcherState PROVE [t EXCEPT !.pc = x] \in FetcherState BY DEF FetcherState
  <1>2. ASSUME NEW t \in FetcherState PROVE [t EXCEPT !.try = 2] \in FetcherState
    BY DEF FetcherState
  <1>3. ASSUME NEW t \in FetcherState PROVE [t EXCEPT !.rerun = FALSE] \in FetcherState
    BY DEF FetcherState
  <1>4. [[[r EXCEPT !.pc = x] EXCEPT !.try = 2] EXCEPT !.rerun = FALSE] = [r EXCEPT !.pc = x, !.try = 2,
          !.rerun = FALSE]
    BY DEF FetcherState
  <1> QED BY <1>1, <1>2, <1>3, <1>4, Zenon

(* Each step keeps the types. *)
LEMMA ClientTypedStep ==
  ASSUME ClientInv, [ClientNext]_clientVars
  PROVE  ClientTyped'
  <1> USE ClientAssumption DEF ClientInv, ClientTyped
  <1>1. ASSUME NEW u \in Fetcher, Query(u) PROVE ClientTyped'
    <2>1. ASSUME NEW x \in Pcs, NEW n \in Nat PROVE [Idle EXCEPT !.began = n, !.pc = x] \in FetcherState
      <3>1. ASSUME NEW r \in FetcherState PROVE [r EXCEPT !.began = n, !.pc = x] \in FetcherState
        BY DEF FetcherState
      <3>2. Idle \in FetcherState BY DEF Idle, NoToken, FetcherState, Pcs
      <3> QED BY <3>1, <3>2
    <2>2. [Idle EXCEPT !.began = revokes,
             !.pc = IF Mine(u).access = NoToken \/
               ~Mine(u).client THEN "session" ELSE "send"] \in FetcherState
      BY <2>1 DEF Pcs
    <2>3. fetcher' \in [Fetcher -> FetcherState] BY <1>1, <2>2 DEF Query
    <2> QED BY <1>1, <2>3 DEF Query
  <1>2. ASSUME NEW u \in Fetcher, Session(u) PROVE ClientTyped'
    <2>1. fetcher' \in [Fetcher -> FetcherState] BY <1>2 DEF Session, Goes, FetcherState, Pcs
    <2> QED BY <1>2, <2>1 DEF Session, Fault
  <1>3. ASSUME NEW u \in Fetcher, LockToken(u) PROVE ClientTyped'
    <2>1. fetcher' \in [Fetcher -> FetcherState] BY <1>3 DEF LockToken, Goes, FetcherState, Pcs
    <2> QED BY <1>3, <2>1 DEF LockToken, service
  <1>4. ASSUME NEW u \in Fetcher, UseCached(u) PROVE ClientTyped'
    <2>1. fetcher' \in [Fetcher -> FetcherState] BY <1>4 DEF UseCached, Goes, FetcherState, Pcs
    <2>2. account' \in [Account -> TokenPair] BY <1>4 DEF UseCached, TokenPair
    <2> QED BY <1>4, <2>1, <2>2 DEF UseCached, service
  <1>5. ASSUME NEW u \in Fetcher, AskToken(u) PROVE ClientTyped'
    <2>1. fetcher' \in [Fetcher -> FetcherState] BY <1>5 DEF AskToken, Goes, FetcherState, Pcs
    <2>2. account' \in [Account -> TokenPair] BY <1>5 DEF AskToken, TokenPair
    <2> QED BY <1>5, <2>1, <2>2 DEF AskToken, Fault
  <1>6. ASSUME NEW u \in Fetcher, ClientToken(u) PROVE ClientTyped'
    <2>1. fetcher' \in [Fetcher -> FetcherState]
      <3>1. CASE \E x \in Pcs : Goes(u, x)
        BY <3>1 DEF Goes, FetcherState
      <3>2. CASE fetcher' = [fetcher EXCEPT ![u].pc = "session", ![u].rerun = TRUE]
        BY <3>2, ZenonT(40) DEF FetcherState, Pcs
      <3> QED BY <1>6, <3>1, <3>2 DEF ClientToken, Pcs
    <2>2. account' \in [Account -> TokenPair]
      <3>1. ASSUME account' = [account EXCEPT ![ClientOf[u]].client = TRUE]
            PROVE  account' \in [Account -> TokenPair]
        BY <3>1 DEF TokenPair
      <3> QED BY <1>6, <3>1 DEF ClientToken
    <2> QED BY <1>6, <2>1, <2>2 DEF ClientToken, Fault
  <1>7. ASSUME NEW u \in Fetcher, Send(u) PROVE ClientTyped'
    <2>1. fetcher' \in [Fetcher -> FetcherState]
      <3>1. Mine(u).access \in Nat BY DEF Mine, TokenPair
      <3>2. ASSUME NEW x \in Pcs, NEW r \in Nat
            PROVE  [fetcher EXCEPT ![u].pc = x, ![u].refused = r] \in [Fetcher -> FetcherState]
        BY DEF FetcherState
      <3>3. CASE Goes(u, "done") \/ Goes(u, "failed") BY <3>3 DEF Goes, FetcherState, Pcs
      <3>4. CASE fetcher[u].try = 1 /\
                   fetcher' = [fetcher EXCEPT ![u].pc = "renew", ![u].refused = Mine(u).access]
        <4>1. "renew" \in Pcs BY DEF Pcs
        <4> QED BY <4>1, <3>1, <3>2, <3>4, Zenon
      <3>5. CASE fetcher[u].try # 1 /\
                   fetcher' = [fetcher EXCEPT ![u].pc = "refused", ![u].refused = fetcher[u].refused]
        <4>1. "refused" \in Pcs /\ fetcher[u].refused \in Nat BY DEF Pcs, FetcherState
        <4> QED BY <4>1, <3>2, <3>5, Zenon
      <3> QED BY <1>7, <3>3, <3>4, <3>5 DEF Send
    <2> QED BY <1>7, <2>1 DEF Send, Fault
  <1>8. ASSUME NEW u \in Fetcher, Renew(u) PROVE ClientTyped'
    <2>1. fetcher' \in [Fetcher -> FetcherState] BY <1>8 DEF Renew, Goes, FetcherState, Pcs
    <2> QED BY <1>8, <2>1 DEF Renew, Emptied, NoToken
  <1>9. ASSUME NEW u \in Fetcher, Clear(u) PROVE ClientTyped'
    <2>1. fetcher' \in [Fetcher -> FetcherState]
      <3>1. [fetcher[u] EXCEPT !.pc = "session", !.try = 2, !.rerun = FALSE] \in FetcherState
        <4>1. fetcher[u] \in FetcherState /\ "session" \in Pcs BY DEF Pcs
        <4> QED BY <4>1, StateIsReset, Zenon
      <3>2. fetcher' = [fetcher EXCEPT ![u] = [fetcher[u] EXCEPT !.pc = "session", !.try = 2,
              !.rerun = FALSE]]
        BY <1>9 DEF Clear
      <3> QED BY <3>1, <3>2
    <2>2. account' \in [Account -> TokenPair] BY <1>9 DEF Clear, TokenPair, NoToken
    <2> QED BY <1>9, <2>1, <2>2 DEF Clear, service
  <1>10. ASSUME NEW u \in Fetcher, Return(u) PROVE ClientTyped'
    <2>1. fetcher' \in [Fetcher -> FetcherState]
      BY <1>10 DEF Return, Idle, NoToken, FetcherState, Pcs
    <2> QED BY <1>10, <2>1 DEF Return, service
  <1>11. CASE Revoke BY <1>11 DEF Revoke
  <1>12. CASE Expire BY <1>12 DEF Expire, NoToken
  <1>13. CASE UNCHANGED clientVars BY <1>13 DEF clientVars
  <1> QED
    BY <1>1, <1>2, <1>3, <1>4, <1>5, <1>6, <1>7, <1>8, <1>9, <1>10, <1>11, <1>12, <1>13
    DEF ClientNext

(* Going to another place leaves the rest of a goroutine's record.         *)
LEMMA GoesOn ==
  ASSUME ClientTyped, NEW u \in Fetcher, NEW x, Goes(u, x)
  PROVE  \A w \in Fetcher : fetcher'[w].refused = fetcher[w].refused /\ fetcher'[w].began = fetcher[w].began
  BY DEF ClientTyped, Goes, FetcherState

(* A token that is used was handed out. *)
LEMMA IssuedStep ==
  ASSUME ClientInv, [ClientNext]_clientVars
  PROVE  TokensAreIssued'
  <1>t. /\ ClientTyped /\ TokensAreIssued
        /\ fetcher \in [Fetcher -> FetcherState] /\ account \in [Account -> TokenPair]
        /\ tokenCache \in Nat /\ issued \in Nat /\ revoked \in Nat /\ revokes \in Nat
        /\ ClientOf \in [Fetcher -> Account]
    BY ClientAssumption DEF ClientInv, ClientTyped
  <1>q. ASSUME UNCHANGED <<tokenCache, account, issued, revoked, revokes>>,
               \A w \in Fetcher : fetcher'[w].refused = fetcher[w].refused /\
                 fetcher'[w].began = fetcher[w].began
        PROVE  TokensAreIssued'
    BY <1>t, <1>q DEF TokensAreIssued
  <1>1. ASSUME NEW u \in Fetcher, Query(u) PROVE TokensAreIssued'
    <2>1. \A w \in Fetcher : w # u => fetcher'[w] = fetcher[w]
      BY <1>t, <1>1 DEF Query
    <2>2. fetcher'[u].refused = NoToken /\ fetcher'[u].began = revokes
      BY <1>t, <1>1 DEF Query, Idle
    <2> QED BY <1>t, <1>1, <2>1, <2>2 DEF Query, TokensAreIssued, NoToken
  <1>2. ASSUME NEW u \in Fetcher, Session(u) PROVE TokensAreIssued'
    <2>1. \E x : Goes(u, x)
      BY <1>2 DEF Session
    <2> QED BY <1>t, <1>2, <1>q, <2>1, GoesOn DEF Session
  <1>3. ASSUME NEW u \in Fetcher, LockToken(u) PROVE TokensAreIssued'
    BY <1>t, <1>3, <1>q, GoesOn DEF LockToken, service
  <1>4. ASSUME NEW u \in Fetcher, UseCached(u) PROVE TokensAreIssued'
    <2>1. \A a \in Account : account'[a].access <= issued
      BY <1>t, <1>4 DEF UseCached, TokensAreIssued, TokenPair
    <2>2. \A w \in Fetcher : fetcher'[w].refused = fetcher[w].refused /\
            fetcher'[w].began = fetcher[w].began
      BY <1>t, <1>4, GoesOn DEF UseCached
    <2> QED BY <1>t, <1>4, <2>1, <2>2 DEF UseCached, service, TokensAreIssued
  <1>5. ASSUME NEW u \in Fetcher, AskToken(u) PROVE TokensAreIssued'
    <2>1. \E x : Goes(u, x)
      BY <1>5 DEF AskToken
    <2>2. \A w \in Fetcher : fetcher'[w].refused = fetcher[w].refused /\
            fetcher'[w].began = fetcher[w].began
      BY <1>t, <2>1, GoesOn
    <2>3. CASE issued' = issued
      <3>1. UNCHANGED <<issued, tokenCache, account>>
        BY <1>t, <1>5, <2>3 DEF AskToken
      <3> QED BY <1>5, <1>q, <2>2, <3>1 DEF AskToken
    <2>4. CASE issued' # issued
      <3>1. /\ issued' = issued + 1 /\ tokenCache' = issued + 1
            /\ account' = [account EXCEPT ![ClientOf[u]].access = issued + 1]
        BY <1>5, <2>4 DEF AskToken
      <3>2. \A a \in Account : account'[a].access <= issued'
        BY <1>t, <3>1 DEF TokensAreIssued, TokenPair
      <3>3. \A w \in Fetcher : fetcher[w].refused \in Nat
        BY <1>t DEF FetcherState
      <3>4. \A w \in Fetcher : fetcher'[w].refused <= issued' /\ fetcher'[w].began <= revokes'
        BY <1>t, <1>5, <2>2, <3>1, <3>3 DEF AskToken, TokensAreIssued
      <3> QED BY <1>t, <1>5, <3>1, <3>2, <3>4 DEF AskToken, TokensAreIssued
    <2> QED BY <2>3, <2>4
  <1>6. ASSUME NEW u \in Fetcher, ClientToken(u) PROVE TokensAreIssued'
    <2>1. \A w \in Fetcher : fetcher'[w].refused = fetcher[w].refused /\
            fetcher'[w].began = fetcher[w].began
      <3>1. CASE \E x : Goes(u, x)
        BY <1>t, <3>1, GoesOn
      <3>2. CASE fetcher' = [fetcher EXCEPT ![u].pc = "session", ![u].rerun = TRUE]
        BY <1>t, <3>2 DEF FetcherState
      <3> QED BY <1>6, <3>1, <3>2 DEF ClientToken
    <2>2. account' = account \/ account' = [account EXCEPT ![ClientOf[u]].client = TRUE]
      BY <1>6 DEF ClientToken
    <2>3. \A a \in Account : account'[a].access = account[a].access
      BY <1>t, <2>2 DEF TokenPair
    <2> QED BY <1>t, <1>6, <2>1, <2>3 DEF ClientToken, TokensAreIssued
  <1>7. ASSUME NEW u \in Fetcher, Send(u) PROVE TokensAreIssued'
    <2>1. \A w \in Fetcher : w # u => fetcher'[w] = fetcher[w]
      BY <1>t, <1>7 DEF Send, Goes
    <2>2. fetcher'[u].began = fetcher[u].began /\
            fetcher'[u].refused \in {fetcher[u].refused, Mine(u).access}
      <3>1. CASE \E x : Goes(u, x)
        BY <1>t, <3>1, GoesOn
      <3>2. CASE \E x, y : /\ y \in {fetcher[u].refused, Mine(u).access}
                            /\ fetcher' = [fetcher EXCEPT ![u].pc = x, ![u].refused = y]
        BY <1>t, <3>2 DEF FetcherState
      <3>3. (\E x : Goes(u, x))
            \/ \E x, y : /\ y \in {fetcher[u].refused, Mine(u).access}
                          /\ fetcher' = [fetcher EXCEPT ![u].pc = x, ![u].refused = y]
        BY <1>7 DEF Send
      <3> QED BY <3>1, <3>2, <3>3
    <2>3. ClientOf[u] \in Account
      BY <1>t
    <2> QED BY <1>t, <1>7, <2>1, <2>2, <2>3 DEF Send, Mine, TokensAreIssued
  <1>8. ASSUME NEW u \in Fetcher, Renew(u) PROVE TokensAreIssued'
    <2>1. \A w \in Fetcher : fetcher'[w].refused = fetcher[w].refused /\
            fetcher'[w].began = fetcher[w].began
      BY <1>t, <1>8, GoesOn DEF Renew
    <2> QED BY <1>t, <1>8, <2>1 DEF Renew, Emptied, NoToken, TokensAreIssued
  <1>9. ASSUME NEW u \in Fetcher, Clear(u) PROVE TokensAreIssued'
    <2>1. \A w \in Fetcher : fetcher'[w].refused = fetcher[w].refused /\
            fetcher'[w].began = fetcher[w].began
      BY <1>t, <1>9 DEF Clear, FetcherState
    <2>2. \A a \in Account : account'[a].access \in {account[a].access, NoToken}
      BY <1>t, <1>9 DEF Clear, TokenPair
    <2> QED BY <1>t, <1>9, <2>1, <2>2 DEF Clear, service, NoToken, TokensAreIssued
  <1>10. ASSUME NEW u \in Fetcher, Return(u) PROVE TokensAreIssued'
    <2>1. \A w \in Fetcher : w # u => fetcher'[w] = fetcher[w]
      BY <1>t, <1>10 DEF Return
    <2>2. fetcher'[u].refused = NoToken /\ fetcher'[u].began = 0
      BY <1>t, <1>10 DEF Return, Idle
    <2> QED BY <1>t, <1>10, <2>1, <2>2 DEF Return, service, TokensAreIssued, NoToken
  <1>11. CASE Revoke
    <2>1. \A w \in Fetcher : fetcher[w].began \in Nat
      BY <1>t DEF FetcherState
    <2> QED BY <1>t, <1>11, <2>1 DEF Revoke, TokensAreIssued
  <1>12. CASE Expire
    BY <1>t, <1>12 DEF Expire, TokensAreIssued, NoToken
  <1>13. CASE UNCHANGED clientVars
    BY <1>13, <1>q DEF clientVars
  <1> QED
    BY <1>1, <1>2, <1>3, <1>4, <1>5, <1>6, <1>7, <1>8, <1>9, <1>10, <1>11, <1>12, <1>13
    DEF ClientNext

(* A goroutine that neither asks nor copies leaves the mutex as it is.     *)
LEMMA LockApart ==
  ASSUME LockIsHeld, NEW u \in Fetcher, UNCHANGED <<tokenLock, tokenCache>>,
         fetcher[u].pc \notin {"cached", "ask"}, fetcher'[u].pc \notin {"cached", "ask"},
         \A w \in Fetcher : w # u => fetcher'[w] = fetcher[w]
  PROVE  LockIsHeld'
  BY DEF LockIsHeld

(* The mutex is taken by one and let go by the same. *)
LEMMA LockStep ==
  ASSUME ClientInv, [ClientNext]_clientVars
  PROVE  LockIsHeld'
  <1> USE ClientAssumption DEF ClientInv, ClientTyped, LockIsHeld,
                             Goes, Fault, Mine, service, Emptied, Idle, NoToken, FetcherState, Pcs,
                               TokenPair, TokenIsCached
  <1>1. ASSUME NEW u \in Fetcher, Query(u) PROVE LockIsHeld'
    BY <1>1 DEF Query
  <1>2. ASSUME NEW u \in Fetcher, Session(u) PROVE LockIsHeld'
    <2>1. \E x \in {"lock", "failed"} : Goes(u, x)
      BY <1>2 DEF Session
    <2>2. fetcher'[u].pc \in {"lock", "failed"} /\ \A w \in Fetcher : w # u => fetcher'[w] = fetcher[w]
      BY <2>1
    <2> QED BY <1>2, <2>2, LockApart DEF Session
  <1>3. ASSUME NEW u \in Fetcher, LockToken(u) PROVE LockIsHeld'
    BY <1>3 DEF LockToken
  <1>4. ASSUME NEW u \in Fetcher, UseCached(u) PROVE LockIsHeld'
    BY <1>4 DEF UseCached
  <1>5. ASSUME NEW u \in Fetcher, AskToken(u) PROVE LockIsHeld'
    BY <1>5 DEF AskToken
  <1>6. ASSUME NEW u \in Fetcher, ClientToken(u) PROVE LockIsHeld'
    <2>1. CASE account' = [account EXCEPT ![ClientOf[u]].client = TRUE] /\ Goes(u, "send") /\
                 UNCHANGED webFaults
      BY <1>6, <2>1 DEF ClientToken
    <2>2. CASE fetcher' = [fetcher EXCEPT ![u].pc = "session", ![u].rerun = TRUE] /\ UNCHANGED account /\
                 Fault
      BY <1>6, <2>2 DEF ClientToken
    <2>3. CASE Goes(u, "failed") /\ UNCHANGED account /\ Fault
      BY <1>6, <2>3 DEF ClientToken
    <2> QED BY <1>6, <2>1, <2>2, <2>3 DEF ClientToken
  <1>7. ASSUME NEW u \in Fetcher, Send(u) PROVE LockIsHeld'
    <2>1. \A w \in Fetcher : w # u => fetcher'[w] = fetcher[w]
      BY <1>7 DEF Send
    <2>2. fetcher'[u].pc \in {"done", "failed", "renew", "refused"}
      <3>1. CASE Goes(u, "done") \/ Goes(u, "failed")
        BY <3>1
      <3>2. CASE \E x \in {"renew", "refused"} : \E y :
                   fetcher' = [fetcher EXCEPT ![u].pc = x, ![u].refused = y]
        BY <3>2
      <3>3. \/ Goes(u, "done") \/ Goes(u, "failed")
            \/ \E x \in {"renew", "refused"} : \E y :
                 fetcher' = [fetcher EXCEPT ![u].pc = x, ![u].refused = y]
        BY <1>7 DEF Send
      <3> QED BY <3>1, <3>2, <3>3
    <2>3. fetcher[u].pc = "send" /\ UNCHANGED <<tokenLock, tokenCache>>
      BY <1>7 DEF Send
    <2> QED BY <2>1, <2>2, <2>3, LockApart
  <1>8. ASSUME NEW u \in Fetcher, Renew(u) PROVE LockIsHeld'
    BY <1>8 DEF Renew
  <1>9. ASSUME NEW u \in Fetcher, Clear(u) PROVE LockIsHeld'
    BY <1>9 DEF Clear
  <1>10. ASSUME NEW u \in Fetcher, Return(u) PROVE LockIsHeld'
    BY <1>10 DEF Return
  <1>11. CASE Revoke BY <1>11 DEF Revoke
  <1>12. CASE Expire BY <1>12 DEF Expire
  <1>13. CASE UNCHANGED clientVars BY <1>13 DEF clientVars
  <1> QED
    BY <1>1, <1>2, <1>3, <1>4, <1>5, <1>6, <1>7, <1>8, <1>9, <1>10, <1>11, <1>12, <1>13
    DEF ClientNext

(* A token is asked for under the mutex, when none is cached. *)
LEMMA ReturnsCountedStep ==
  ASSUME ClientInv, [ClientNext]_clientVars
  PROVE  TokensAreCounted'
  <1> USE ClientAssumption DEF ClientInv, ClientTyped, TokensAreCounted, LockIsHeld,
                             Goes, Fault, Mine, service, Emptied, Idle, NoToken, FetcherState, Pcs,
                               TokenPair
  <1>1. ASSUME NEW u \in Fetcher, Query(u) PROVE TokensAreCounted'
    BY <1>1 DEF Query
  <1>2. ASSUME NEW u \in Fetcher, Session(u) PROVE TokensAreCounted'
    <2>1. \E x \in {"lock", "failed"} : Goes(u, x)
      BY <1>2 DEF Session
    <2>2. fetcher'[u].pc \in {"lock", "failed"} /\ \A w \in Fetcher : w # u => fetcher'[w] = fetcher[w]
      BY <2>1
    <2> QED BY <1>2, <2>2, LockApart DEF Session
  <1>3. ASSUME NEW u \in Fetcher, LockToken(u) PROVE TokensAreCounted'
    BY <1>3 DEF LockToken
  <1>4. ASSUME NEW u \in Fetcher, UseCached(u) PROVE TokensAreCounted'
    BY <1>4 DEF UseCached
  <1>5. ASSUME NEW u \in Fetcher, AskToken(u) PROVE TokensAreCounted'
    BY <1>5 DEF AskToken
  <1>6. ASSUME NEW u \in Fetcher, ClientToken(u) PROVE TokensAreCounted'
    BY <1>6 DEF ClientToken
  <1>7. ASSUME NEW u \in Fetcher, Send(u) PROVE TokensAreCounted'
    BY <1>7 DEF Send
  <1>8. ASSUME NEW u \in Fetcher, Renew(u) PROVE TokensAreCounted'
    BY <1>8 DEF Renew
  <1>9. ASSUME NEW u \in Fetcher, Clear(u) PROVE TokensAreCounted'
    BY <1>9 DEF Clear
  <1>10. ASSUME NEW u \in Fetcher, Return(u) PROVE TokensAreCounted'
    BY <1>10 DEF Return
  <1>11. CASE Revoke BY <1>11 DEF Revoke
  <1>12. CASE Expire BY <1>12 DEF Expire
  <1>13. CASE UNCHANGED clientVars BY <1>13 DEF clientVars
  <1> QED
    BY <1>1, <1>2, <1>3, <1>4, <1>5, <1>6, <1>7, <1>8, <1>9, <1>10, <1>11, <1>12, <1>13
    DEF ClientNext

(* A new token is not one that was refused before. *)
LEMMA GoneStep ==
  ASSUME ClientInv, [ClientNext]_clientVars
  PROVE  RefusedIsGone'
  <1> USE ClientAssumption DEF ClientInv, ClientTyped, TokensAreIssued, LockIsHeld, RefusedIsGone,
                             Goes, Fault, Mine, service, Emptied, Idle, NoToken, FetcherState, Pcs,
                               TokenPair
  <1>1. ASSUME NEW u \in Fetcher, Query(u) PROVE RefusedIsGone'
    BY <1>1 DEF Query
  <1>2. ASSUME NEW u \in Fetcher, Session(u) PROVE RefusedIsGone'
    <2>1. CASE Goes(u, "lock")
      BY <1>2, <2>1 DEF Session
    <2>2. CASE Goes(u, "failed") /\ Fault
      BY <1>2, <2>2 DEF Session
    <2> QED BY <1>2, <2>1, <2>2 DEF Session
  <1>3. ASSUME NEW u \in Fetcher, LockToken(u) PROVE RefusedIsGone'
    BY <1>3 DEF LockToken
  <1>4. ASSUME NEW u \in Fetcher, UseCached(u) PROVE RefusedIsGone'
    BY <1>4 DEF UseCached
  <1>5. ASSUME NEW u \in Fetcher, AskToken(u) PROVE RefusedIsGone'
    <2>1. CASE issued' = issued + 1 /\ tokenCache' = issued + 1 /\
                 account' = [account EXCEPT ![ClientOf[u]].access = issued + 1]
              /\ Goes(u, "client") /\ UNCHANGED webFaults
      BY <1>5, <2>1 DEF AskToken
    <2>2. CASE Goes(u, "failed") /\ Fault /\ UNCHANGED <<issued, tokenCache, account>>
      BY <1>5, <2>2 DEF AskToken
    <2> QED BY <1>5, <2>1, <2>2 DEF AskToken
  <1>6. ASSUME NEW u \in Fetcher, ClientToken(u) PROVE RefusedIsGone'
    <2>1. CASE account' = [account EXCEPT ![ClientOf[u]].client = TRUE] /\ Goes(u, "send") /\
                 UNCHANGED webFaults
      BY <1>6, <2>1 DEF ClientToken
    <2>2. CASE fetcher' = [fetcher EXCEPT ![u].pc = "session", ![u].rerun = TRUE] /\ UNCHANGED account /\
                 Fault
      BY <1>6, <2>2 DEF ClientToken
    <2>3. CASE Goes(u, "failed") /\ UNCHANGED account /\ Fault
      BY <1>6, <2>3 DEF ClientToken
    <2> QED BY <1>6, <2>1, <2>2, <2>3 DEF ClientToken
  <1>7. ASSUME NEW u \in Fetcher, Send(u) PROVE RefusedIsGone'
    BY <1>7 DEF Send
  <1>8. ASSUME NEW u \in Fetcher, Renew(u) PROVE RefusedIsGone'
    BY <1>8 DEF Renew
  <1>9. ASSUME NEW u \in Fetcher, Clear(u) PROVE RefusedIsGone'
    BY <1>9 DEF Clear
  <1>10. ASSUME NEW u \in Fetcher, Return(u) PROVE RefusedIsGone'
    BY <1>10 DEF Return
  <1>11. CASE Revoke BY <1>11 DEF Revoke
  <1>12. CASE Expire BY <1>12 DEF Expire
  <1>13. CASE UNCHANGED clientVars BY <1>13 DEF clientVars
  <1> QED
    BY <1>1, <1>2, <1>3, <1>4, <1>5, <1>6, <1>7, <1>8, <1>9, <1>10, <1>11, <1>12, <1>13
    DEF ClientNext

(* The second try has a token that is newer than the last revocation. *)
LEMMA SecondStep ==
  ASSUME ClientInv, [ClientNext]_clientVars
  PROVE  SecondTryIsGood'
  <1> USE ClientAssumption DEF ClientInv, ClientTyped, TokensAreIssued, LockIsHeld, SecondTryIsGood,
                             Goes, Fault, Mine, service, Emptied, Idle, NoToken, FetcherState, Pcs,
                               TokenPair, Accepted, Torn, NobodyBut
  <1>1. ASSUME NEW u \in Fetcher, Query(u) PROVE SecondTryIsGood'
    BY <1>1 DEF Query
  <1>2. ASSUME NEW u \in Fetcher, Session(u) PROVE SecondTryIsGood'
    <2>1. \E x \in {"lock", "failed"} : Goes(u, x)
      BY <1>2 DEF Session
    <2>2. fetcher'[u].pc \in {"lock", "failed"} /\ \A w \in Fetcher : w # u => fetcher'[w] = fetcher[w]
      BY <2>1
    <2> QED BY <1>2, <2>2, LockApart DEF Session
  <1>3. ASSUME NEW u \in Fetcher, LockToken(u) PROVE SecondTryIsGood'
    BY <1>3 DEF LockToken
  <1>4. ASSUME NEW u \in Fetcher, UseCached(u) PROVE SecondTryIsGood'
    BY <1>4 DEF UseCached
  <1>5. ASSUME NEW u \in Fetcher, AskToken(u) PROVE SecondTryIsGood'
    BY <1>5 DEF AskToken
  <1>6. ASSUME NEW u \in Fetcher, ClientToken(u) PROVE SecondTryIsGood'
    <2>1. CASE account' = [account EXCEPT ![ClientOf[u]].client = TRUE] /\ Goes(u, "send") /\
                 UNCHANGED webFaults
      BY <1>6, <2>1 DEF ClientToken
    <2>2. CASE fetcher' = [fetcher EXCEPT ![u].pc = "session", ![u].rerun = TRUE] /\ UNCHANGED account /\
                 Fault
      BY <1>6, <2>2 DEF ClientToken
    <2>3. CASE Goes(u, "failed") /\ UNCHANGED account /\ Fault
      BY <1>6, <2>3 DEF ClientToken
    <2> QED BY <1>6, <2>1, <2>2, <2>3 DEF ClientToken
  <1>7. ASSUME NEW u \in Fetcher, Send(u) PROVE SecondTryIsGood'
    BY <1>7 DEF Send
  <1>8. ASSUME NEW u \in Fetcher, Renew(u) PROVE SecondTryIsGood'
    BY <1>8 DEF Renew
  <1>9. ASSUME NEW u \in Fetcher, Clear(u) PROVE SecondTryIsGood'
    BY <1>9 DEF Clear
  <1>10. ASSUME NEW u \in Fetcher, Return(u) PROVE SecondTryIsGood'
    BY <1>10 DEF Return
  <1>11. CASE Revoke BY <1>11 DEF Revoke
  <1>12. CASE Expire BY <1>12 DEF Expire
  <1>13. CASE UNCHANGED clientVars BY <1>13 DEF clientVars
  <1> QED
    BY <1>1, <1>2, <1>3, <1>4, <1>5, <1>6, <1>7, <1>8, <1>9, <1>10, <1>11, <1>12, <1>13
    DEF ClientNext

(* The first refusal is answered with a new token. *)
LEMMA RefusedStep ==
  ASSUME ClientInv, [ClientNext]_clientVars
  PROVE  RefusedIsSecond'
  <1> USE ClientAssumption DEF ClientInv, ClientTyped, RefusedIsSecond,
                             Goes, Fault, Mine, service, Emptied, Idle, NoToken, FetcherState, Pcs,
                               TokenPair
  <1>1. ASSUME NEW u \in Fetcher, Query(u) PROVE RefusedIsSecond'
    BY <1>1 DEF Query
  <1>2. ASSUME NEW u \in Fetcher, Session(u) PROVE RefusedIsSecond'
    BY <1>2 DEF Session
  <1>3. ASSUME NEW u \in Fetcher, LockToken(u) PROVE RefusedIsSecond'
    BY <1>3 DEF LockToken
  <1>4. ASSUME NEW u \in Fetcher, UseCached(u) PROVE RefusedIsSecond'
    BY <1>4 DEF UseCached
  <1>5. ASSUME NEW u \in Fetcher, AskToken(u) PROVE RefusedIsSecond'
    BY <1>5 DEF AskToken
  <1>6. ASSUME NEW u \in Fetcher, ClientToken(u) PROVE RefusedIsSecond'
    <2>1. fetcher'[u].pc # "refused" /\ \A w \in Fetcher : w # u => fetcher'[w] = fetcher[w]
      <3>1. CASE Goes(u, "send") \/ Goes(u, "failed")
        BY <3>1
      <3>2. CASE fetcher' = [fetcher EXCEPT ![u].pc = "session", ![u].rerun = TRUE]
        BY <3>2
      <3> QED BY <1>6, <3>1, <3>2 DEF ClientToken
    <2> QED BY <2>1
  <1>7. ASSUME NEW u \in Fetcher, Send(u) PROVE RefusedIsSecond'
    BY <1>7 DEF Send
  <1>8. ASSUME NEW u \in Fetcher, Renew(u) PROVE RefusedIsSecond'
    BY <1>8 DEF Renew
  <1>9. ASSUME NEW u \in Fetcher, Clear(u) PROVE RefusedIsSecond'
    BY <1>9 DEF Clear
  <1>10. ASSUME NEW u \in Fetcher, Return(u) PROVE RefusedIsSecond'
    BY <1>10 DEF Return
  <1>11. CASE Revoke BY <1>11 DEF Revoke
  <1>12. CASE Expire BY <1>12 DEF Expire
  <1>13. CASE UNCHANGED clientVars BY <1>13 DEF clientVars
  <1> QED
    BY <1>1, <1>2, <1>3, <1>4, <1>5, <1>6, <1>7, <1>8, <1>9, <1>10, <1>11, <1>12, <1>13
    DEF ClientNext

(* The inductive invariant of the client, for any goroutines, clients, tokens
   and refusals. *)
THEOREM ClientInvariant == ClientSpec => []ClientInv
  <1>1. ClientInit => ClientInv
    BY ClientAssumption DEF ClientInit, ClientInv, ClientTyped, TokensAreIssued, LockIsHeld,
           TokensAreCounted, RefusedIsGone,
       SecondTryIsGood, RefusedIsSecond, Idle, NoToken, FetcherState, Pcs, TokenPair, Mine
  <1>2. ClientInv /\ [ClientNext]_clientVars => ClientInv'
    BY ClientTypedStep, IssuedStep, LockStep, ReturnsCountedStep, GoneStep, SecondStep,
           RefusedStep DEF ClientInv
  <1> QED BY <1>1, <1>2, PTL DEF ClientSpec

(* Every variable keeps its type, and every token in use was handed out.   *)
THEOREM ClientTypeCorrect == ClientSpec => []ClientTypeOK
  <1>1. ClientInv => ClientTypeOK
    BY DEF ClientInv, ClientTyped, TokensAreIssued, LockIsHeld, ClientTypeOK, FetcherState, Pcs,
           TokenPair
  <1> QED BY <1>1, ClientInvariant, PTL

(* Goroutines share a token: one is asked for only after the last has expired
   or was thrown out (spotfetch.go). *)
THEOREM TokensAreShared == ClientSpec => []TokenIsShared
  <1>1. ClientInv => TokenIsShared BY DEF ClientInv, TokensAreCounted, TokenIsShared
  <1> QED BY <1>1, ClientInvariant, PTL

(* A query that was refused is not sent again with the token that was refused. *)
THEOREM RetriesHaveNewTokens == ClientSpec => []RetriesAreFresh
  <1>1. ClientInv => RetriesAreFresh BY DEF ClientInv, RefusedIsGone, RetriesAreFresh
  <1> QED BY <1>1, ClientInvariant, PTL

(* A goroutine with a client of its own is refused for good only if the
   service revoked a token while it ran. *)
THEOREM OwnClientsRecover == ClientSpec => []OwnClientRecovers
  <1>1. ClientInv => OwnClientRecovers
    <2> SUFFICES ASSUME ClientInv, NEW w \in Fetcher, fetcher[w].pc = "refused", NobodyBut(w)
                 PROVE  revokes > fetcher[w].began
      BY DEF OwnClientRecovers, NobodyBut
    <2> QED
      BY DEF ClientInv, ClientTyped, TokensAreIssued, SecondTryIsGood, RefusedIsSecond,
           FetcherState, Pcs
  <1> QED BY <1>1, ClientInvariant, PTL

-----------------------------------------------------------------------------
Answer == [album : Album \cup {"none"}, err : BOOLEAN, tracks : {<<>>} \cup {TracksOf[a] : a \in Album}]

Busy == {a \in Album : albumTask[a] \in {"working", "answered"}}
SentAlbums == {a \in Album : albumTask[a] = "sent"}

(* Every result that was sent is in the channel or has been collected.      *)
ResultsAreCounted ==
    /\ albumFound \in [Album -> Answer]
    /\ albumResults \in Seq(Answer) /\ collected \in Seq(Album \cup {"none"})
    /\ Len(albumResults) + Len(collected) = Cardinality(SentAlbums)

DiscInv == DiscTypeOK /\ ResultsAreCounted

(* The albums at work, and those that were sent, are finitely many. *)
LEMMA Counted ==
    /\ IsFiniteSet(Busy) /\ IsFiniteSet(SentAlbums)
    /\ Cardinality(Busy) \in Nat /\ Cardinality(SentAlbums) \in Nat /\ Cardinality(Album) \in Nat
    /\ Cardinality(SentAlbums) <= Cardinality(Album)
<1>1. Busy \subseteq Album /\ SentAlbums \subseteq Album
  BY DEF Busy, SentAlbums
<1>2. IsFiniteSet(Busy) /\ IsFiniteSet(SentAlbums)
  BY <1>1, FS_Subset, DiscographyAssumption
<1>. QED BY <1>1, <1>2, FS_Subset, FS_CardinalityType, DiscographyAssumption

(* While an album has yet to be sent, fewer were than there are. *)
LEMMA RoomForOneMore ==
    ASSUME NEW a \in Album, albumTask[a] # "sent"
    PROVE  Cardinality(SentAlbums) < Cardinality(Album)
<1>1. SentAlbums \subseteq Album /\ a \notin SentAlbums
  BY DEF SentAlbums
<1>2. SentAlbums # Album
  BY <1>1
<1>. QED BY <1>1, <1>2, Counted, FS_Subset, DiscographyAssumption
-----------------------------------------------------------------------------
(* A step changes the slots and the results as it changes the albums at work
   and those that were sent. *)
LEMMA DiscStep == DiscInv /\ [DiscNext]_discVars => DiscInv'
<1> SUFFICES ASSUME DiscInv, [DiscNext]_discVars PROVE DiscInv'
  OBVIOUS
<1> USE DEF DiscInv
<1>0. /\ albumTask \in [Album -> {"waiting", "working", "answered", "sent"}]
      /\ albumSem = Cardinality(Busy) /\ albumSem <= Slots /\ albumSem \in Nat /\ Slots \in Nat
  BY Counted, DiscographyAssumption DEF DiscTypeOK, Busy
<1>1. ASSUME NEW a \in Album, StartAlbum(a) PROVE DiscInv'
  <2>1. Busy' = Busy \cup {a} /\ a \notin Busy /\ SentAlbums' = SentAlbums
    BY <1>0, <1>1 DEF StartAlbum, Busy, SentAlbums
  <2>2. Cardinality(Busy') = albumSem + 1
    BY <1>0, <2>1, Counted, FS_AddElement
  <2>3. /\ albumTask' \in [Album -> {"waiting", "working", "answered", "sent"}]
        /\ albumSem' = albumSem + 1 /\ albumSem < Slots
    BY <1>0, <1>1 DEF StartAlbum
  <2>4. DiscTypeOK'
    BY <1>0, <1>1, <2>2, <2>3 DEF StartAlbum, DiscTypeOK, Busy
  <2>5. albumFound' \in [Album -> Answer]
    <3>1. [album |-> a, err |-> TRUE, tracks |-> <<>>] \in Answer
      BY DEF Answer
    <3>. QED BY <1>1, <3>1 DEF StartAlbum, ResultsAreCounted
  <2>6. ResultsAreCounted'
    BY <1>1, <2>1, <2>5 DEF StartAlbum, ResultsAreCounted
  <2>. QED BY <2>4, <2>6
<1>2. ASSUME NEW a \in Album, AlbumAnswers(a) PROVE DiscInv'
  <2>1. Busy' = Busy /\ SentAlbums' = SentAlbums
    BY <1>0, <1>2 DEF AlbumAnswers, Busy, SentAlbums
  <2>2. /\ albumTask' \in [Album -> {"waiting", "working", "answered", "sent"}]
        /\ streamed' \subseteq Album
    BY <1>0, <1>2 DEF AlbumAnswers, DiscTypeOK
  <2>3. DiscTypeOK'
    BY <1>0, <1>2, <2>1, <2>2 DEF AlbumAnswers, DiscTypeOK, Busy
  <2>4. albumFound' \in [Album -> Answer]
    <3>1. /\ [album |-> a, err |-> FALSE, tracks |-> TracksOf[a]] \in Answer
          /\ [album |-> a, err |-> FALSE, tracks |-> <<>>] \in Answer
      BY DEF Answer
    <3>. QED BY <1>2, <3>1 DEF AlbumAnswers, ResultsAreCounted
  <2>5. ResultsAreCounted'
    BY <1>2, <2>1, <2>4 DEF AlbumAnswers, ResultsAreCounted
  <2>. QED BY <2>3, <2>5
<1>3. ASSUME NEW a \in Album, SendAlbum(a) PROVE DiscInv'
  <2>1. /\ Busy' = Busy \ {a} /\ a \in Busy
        /\ SentAlbums' = SentAlbums \cup {a} /\ a \notin SentAlbums
    BY <1>0, <1>3 DEF SendAlbum, Busy, SentAlbums
  <2>2. /\ Cardinality(Busy') = albumSem - 1
        /\ Cardinality(SentAlbums') = Cardinality(SentAlbums) + 1
    BY <1>0, <2>1, Counted, FS_RemoveElement, FS_AddElement
  <2>3. /\ albumResults' = Append(albumResults, albumFound[a]) /\ albumFound[a] \in Answer
        /\ Len(albumResults) < Cardinality(Album) /\ UNCHANGED <<albumFound, collected>>
    BY <1>3 DEF SendAlbum, Capacity, ResultsAreCounted
  <2>4. albumResults' \in Seq(Answer) /\ Len(albumResults') = Len(albumResults) + 1
    BY <2>3 DEF ResultsAreCounted
  <2>5. /\ albumTask' \in [Album -> {"waiting", "working", "answered", "sent"}]
        /\ albumSem' = albumSem - 1 /\ UNCHANGED <<deadline, streamed, collector>>
    BY <1>0, <1>3 DEF SendAlbum
  <2>6. Len(albumResults') <= Cardinality(Album)
    BY <2>3, <2>4, Counted DEF ResultsAreCounted
  <2>7. albumSem' <= Slots /\ albumSem' = Cardinality(Busy')
    BY <1>0, <2>2, <2>5
  <2>8. DiscTypeOK'
    BY <2>5, <2>6, <2>7 DEF DiscTypeOK, Busy
  <2>9. ResultsAreCounted'
    BY <2>2, <2>3, <2>4, Counted DEF ResultsAreCounted
  <2>. QED BY <2>8, <2>9
<1>4. CASE Collect
  <2> DEFINE r == Head(albumResults)
  <2>1. /\ albumResults \in Seq(Answer) /\ albumResults # <<>> /\ r \in Answer
        /\ albumResults' = Tail(albumResults) /\ collected' = Append(collected, r.album)
    BY <1>4 DEF Collect, ResultsAreCounted
  <2>2. albumResults' \in Seq(Answer) /\ Len(albumResults') = Len(albumResults) - 1
    BY <2>1
  <2>3. r.album \in Album \cup {"none"}
    BY <2>1 DEF Answer
  <2>4. collected' \in Seq(Album \cup {"none"}) /\ Len(collected') = Len(collected) + 1
    <3> HIDE DEF r
    <3>. QED BY <2>1, <2>3 DEF ResultsAreCounted
  <2>5. UNCHANGED <<albumTask, albumFound, albumSem, deadline, streamed>>
    BY <1>4 DEF Collect
  <2>6. SentAlbums' = SentAlbums /\ Busy' = Busy
    BY <2>5 DEF SentAlbums, Busy
  <2>7. collector' \in {"collecting", "returned", "failed"}
    BY <1>4 DEF Collect
  <2>8. Len(albumResults') <= Cardinality(Album)
    BY <2>1, <2>2, Counted DEF DiscTypeOK
  <2>9. ResultsAreCounted'
    BY <2>1, <2>2, <2>4, <2>5, <2>6, Counted DEF ResultsAreCounted
  <2>10. DiscTypeOK'
    BY <2>5, <2>7, <2>8 DEF DiscTypeOK
  <2>. QED BY <2>9, <2>10
<1>5. CASE TimeIsUp
  BY <1>5 DEF TimeIsUp, DiscTypeOK, ResultsAreCounted, SentAlbums
<1>6. CASE UNCHANGED discVars
  BY <1>6 DEF discVars, DiscTypeOK, ResultsAreCounted, SentAlbums
<1>. QED BY <1>1, <1>2, <1>3, <1>4, <1>5, <1>6 DEF DiscNext

(* The inductive invariant of a discography: the slots taken are those of the
   albums at work, and the results are those of the albums that were sent. *)
THEOREM DiscInvariant == DiscSpec => []DiscInv
<1>1. DiscInit => DiscInv
  <2> SUFFICES ASSUME DiscInit PROVE DiscInv
    OBVIOUS
  <2>1. Busy = {} /\ SentAlbums = {}
    BY DEF DiscInit, Busy, SentAlbums
  <2>2. Cardinality(Busy) = 0 /\ Cardinality(SentAlbums) = 0
    BY <2>1, FS_EmptySet
  <2>3. NoAnswer \in Answer
    BY DEF NoAnswer, Answer
  <2>4. Cardinality(Album) \in Nat /\ Slots \in Nat
    BY Counted, DiscographyAssumption
  <2>5. DiscTypeOK
    <3>1. albumTask \in [Album -> {"waiting", "working", "answered", "sent"}]
      BY DEF DiscInit
    <3>2. /\ albumSem = Cardinality(Busy) /\ albumSem <= Slots
          /\ Len(albumResults) <= Cardinality(Album)
      BY <2>2, <2>4 DEF DiscInit
    <3>. QED BY <3>1, <3>2 DEF DiscInit, DiscTypeOK, Busy
  <2>6. ResultsAreCounted
    BY <2>2, <2>3 DEF DiscInit, ResultsAreCounted
  <2>. QED BY <2>5, <2>6 DEF DiscInv
<1>. QED BY <1>1, DiscStep, PTL DEF DiscSpec

(* Slots and results keep within their limits (Discography's DiscTypeOK).   *)
THEOREM DiscTypeCorrect == DiscSpec => []DiscTypeOK
<1>1. DiscInv => DiscTypeOK
  BY DEF DiscInv
<1>. QED BY <1>1, DiscInvariant, PTL

(* Whether the request collects or has returned, a goroutine that has its
   answer finds room in resultsChan. *)
THEOREM EveryoneGetsThrough == DiscSpec => []NobodyIsLeft
<1>1. DiscInv => NobodyIsLeft
  <2> SUFFICES ASSUME DiscInv, NEW a \in Album, albumTask[a] = "answered"
               PROVE  Len(albumResults) < Cardinality(Album)
    BY DEF NobodyIsLeft, Capacity
  <2>1. Cardinality(SentAlbums) < Cardinality(Album)
    BY RoomForOneMore
  <2>2. Len(albumResults) \in Nat /\ Len(collected) \in Nat
    BY DEF DiscInv, ResultsAreCounted
  <2>. QED BY <2>1, <2>2, Counted DEF DiscInv, ResultsAreCounted
<1>. QED BY <1>1, DiscInvariant, PTL
-----------------------------------------------------------------------------
(* What an album's goroutine has to send is what was shown of the album. *)
FoundIsShown ==
    /\ \A a \in Album : albumTask[a] \in {"waiting", "working"} => a \notin streamed
    /\ \A a \in Album : albumTask[a] \in {"answered", "sent"} =>
         /\ albumFound[a].album = a /\ albumFound[a].tracks = ShownTracks[a]
         /\ albumFound[a].err => albumFound[a].tracks = <<>>

(* The results in the channel are those of albums that were sent, each once. *)
ChannelIsShown ==
    /\ \A i \in 1..Len(albumResults) :
         /\ albumResults[i].album \in SentAlbums
         /\ albumResults[i].tracks = ShownTracks[albumResults[i].album]
         /\ albumResults[i].err => albumResults[i].tracks = <<>>
    /\ \A i, j \in 1..Len(albumResults) : albumResults[i].album = albumResults[j].album => i = j

(* So are the albums that were collected, and every album that was sent is in
   one of the two. *)
CollectedOnce ==
    /\ \A i \in 1..Len(collected) : collected[i] \in SentAlbums
    /\ \A i, j \in 1..Len(collected) : collected[i] = collected[j] => i = j
    /\ \A i \in 1..Len(collected), j \in 1..Len(albumResults) : collected[i] # albumResults[j].album
    /\ \A a \in SentAlbums : \/ \E i \in 1..Len(collected) : collected[i] = a
                       \/ \E j \in 1..Len(albumResults) : albumResults[j].album = a

(* The tracks so far are those shown of the albums collected so far. *)
TracksAreShown ==
    /\ collected \in Seq(Album)
    /\ albumTracks = Strung(collected, ShownTracks)
    /\ collector = "returned" => Len(collected) = Cardinality(Album)

ShownInv == DiscInv /\ FoundIsShown /\ ChannelIsShown /\ CollectedOnce /\ TracksAreShown

(* Pieces of tracks for the albums, before a step and after it. *)
LEMMA ShownPieces == ShownTracks \in Pieces(Album, AlbumTracks) /\
  ShownTracks' \in Pieces(Album, AlbumTracks)
<1>1. \A a \in Album : TracksOf[a] \in Seq(AlbumTracks) /\ <<>> \in Seq(AlbumTracks)
  BY DiscographyAssumption
<1>2. ShownTracks \in [Album -> Seq(AlbumTracks)]
  BY <1>1 DEF ShownTracks
<1>3. ShownTracks' \in [Album -> Seq(AlbumTracks)]
  BY <1>1 DEF ShownTracks
<1>. QED BY <1>2, <1>3 DEF Pieces

(* An album that is shown after it has been asked for changes nothing that was
   collected or sent. *)
LEMMA ShownLater ==
    ASSUME ShownInv, NEW a \in Album, albumTask[a] = "working",
           streamed' \in {streamed, streamed \cup {a}}, UNCHANGED collected
    PROVE  /\ \A b \in Album : b # a => ShownTracks'[b] = ShownTracks[b]
           /\ Strung(collected, ShownTracks)' = Strung(collected, ShownTracks)
<1>1. \A b \in Album : b # a => ShownTracks'[b] = ShownTracks[b]
  BY DEF ShownTracks
<1>2. \A i \in 1..Len(collected) : ShownTracks'[collected[i]] = ShownTracks[collected[i]]
  <2>1. \A i \in 1..Len(collected) : collected[i] \in Album /\ collected[i] # a
    BY DEF ShownInv, CollectedOnce, SentAlbums
  <2>. QED BY <1>1, <2>1
<1>3. Strung(collected, ShownTracks') = Strung(collected, ShownTracks)
  <2>1. ASSUME NEW old \in Pieces(Album, AlbumTracks), NEW piece \in Pieces(Album, AlbumTracks),
               \A i \in 1..Len(collected) : piece[collected[i]] = old[collected[i]]
        PROVE  Strung(collected, piece) = Strung(collected, old)
    BY <2>1, StrungGoesOn DEF ShownInv, TracksAreShown
  <2>. QED BY <1>2, <2>1, ShownPieces
<1>. QED BY <1>1, <1>3

(* Each step keeps what was shown, found, sent and collected in agreement. *)
LEMMA ShownStep == ShownInv /\ [DiscNext]_discVars => ShownInv'
<1> SUFFICES ASSUME ShownInv, [DiscNext]_discVars PROVE ShownInv'
  OBVIOUS
<1>0. DiscInv'
  BY DiscStep DEF ShownInv
<1>t. /\ albumTask \in [Album -> {"waiting", "working", "answered", "sent"}]
      /\ albumFound \in [Album -> Answer] /\ albumResults \in Seq(Answer)
      /\ collected \in Seq(Album) /\ Len(albumResults) \in Nat /\ Len(collected) \in Nat
  BY DEF ShownInv, DiscInv, DiscTypeOK, ResultsAreCounted, TracksAreShown
<1>1. ASSUME NEW a \in Album, StartAlbum(a) PROVE ShownInv'
  <2>1. /\ albumTask[a] = "waiting" /\ a \notin streamed /\
             UNCHANGED <<streamed, collected, albumResults, albumTracks, collector>>
        /\ albumTask' = [albumTask EXCEPT ![a] = "answered"] \/
             albumTask' = [albumTask EXCEPT ![a] = "working"]
    BY <1>1 DEF StartAlbum, ShownInv, FoundIsShown
  <2>2. SentAlbums' = SentAlbums /\ ShownTracks' = ShownTracks
    BY <1>t, <2>1 DEF SentAlbums, ShownTracks
  <2>3. FoundIsShown'
    <3>1. CASE deadline
      <4>1. /\ albumTask' = [albumTask EXCEPT ![a] = "answered"]
            /\ albumFound' = [albumFound EXCEPT ![a] = [album |-> a, err |-> TRUE, tracks |-> <<>>]]
        BY <1>1, <3>1 DEF StartAlbum
      <4>2. ShownTracks[a] = <<>>
        BY <2>1 DEF ShownTracks
      <4>. QED BY <1>t, <2>1, <2>2, <4>1, <4>2 DEF ShownInv, FoundIsShown
    <3>2. CASE ~deadline
      <4>1. albumTask' = [albumTask EXCEPT ![a] = "working"] /\ UNCHANGED albumFound
        BY <1>1, <3>2 DEF StartAlbum
      <4>. QED BY <1>t, <2>1, <2>2, <4>1 DEF ShownInv, FoundIsShown
    <3>. QED BY <3>1, <3>2
  <2>4. ChannelIsShown' /\ CollectedOnce'
    BY <2>1, <2>2 DEF ShownInv, ChannelIsShown, CollectedOnce
  <2>5. TracksAreShown'
    BY <2>1, <2>2 DEF ShownInv, TracksAreShown
  <2>. QED BY <1>0, <2>3, <2>4, <2>5 DEF ShownInv
<1>2. ASSUME NEW a \in Album, AlbumAnswers(a) PROVE ShownInv'
  <2>1. /\ albumTask[a] = "working" /\ albumTask' = [albumTask EXCEPT ![a] = "answered"]
        /\ UNCHANGED <<collected, albumResults, albumTracks, collector>>
        /\ streamed' \in {streamed, streamed \cup {a}}
        /\ a \notin streamed
    BY <1>2 DEF AlbumAnswers, ShownInv, FoundIsShown
  <2>2. /\ \A b \in Album : b # a => ShownTracks'[b] = ShownTracks[b]
        /\ Strung(collected, ShownTracks)' = Strung(collected, ShownTracks)
    BY <2>1, ShownLater
  <2>3. SentAlbums' = SentAlbums /\ a \notin SentAlbums
    BY <1>t, <2>1 DEF SentAlbums
  <2>4. PICK tracks : /\ albumFound' = [albumFound EXCEPT ![a] = [album |-> a, err |-> FALSE,
                           tracks |-> tracks]]
                      /\ tracks = ShownTracks'[a]
    <3>1. CASE streamed' = streamed \cup {a} /\
                 albumFound' = [albumFound EXCEPT ![a] = [album |-> a, err |-> FALSE,
                 tracks |-> TracksOf[a]]]
      BY <3>1 DEF ShownTracks
    <3>2. CASE UNCHANGED streamed /\
                 albumFound' = [albumFound EXCEPT ![a] = [album |-> a, err |-> FALSE, tracks |-> <<>>]]
      BY <2>1, <3>2 DEF ShownTracks
    <3>. QED BY <1>2, <3>1, <3>2 DEF AlbumAnswers
  <2>5. FoundIsShown'
    <3>1. \A b \in Album : b # a => (b \in streamed' <=> b \in streamed) /\
            albumFound'[b] = albumFound[b] /\ albumTask'[b] = albumTask[b]
      BY <1>t, <2>1, <2>4
    <3>2. albumFound'[a] = [album |-> a, err |-> FALSE, tracks |-> ShownTracks'[a]] /\
            albumTask'[a] = "answered"
      BY <1>t, <2>1, <2>4
    <3>. QED BY <2>2, <3>1, <3>2 DEF ShownInv, FoundIsShown
  <2>6. ChannelIsShown'
    <3>1. \A i \in 1..Len(albumResults) : albumResults[i].album \in Album /\ albumResults[i].album # a
      BY <2>3 DEF ShownInv, ChannelIsShown, SentAlbums
    <3>. QED BY <2>1, <2>2, <2>3, <3>1 DEF ShownInv, ChannelIsShown
  <2>7. CollectedOnce'
    BY <2>1, <2>3 DEF ShownInv, CollectedOnce
  <2>8. TracksAreShown'
    BY <2>1, <2>2 DEF ShownInv, TracksAreShown
  <2>. QED BY <1>0, <2>5, <2>6, <2>7, <2>8 DEF ShownInv
<1>3. ASSUME NEW a \in Album, SendAlbum(a) PROVE ShownInv'
  <2>1. /\ albumTask[a] = "answered" /\ albumTask' = [albumTask EXCEPT ![a] = "sent"]
        /\ albumResults' = Append(albumResults, albumFound[a])
        /\ UNCHANGED <<albumFound, collected, albumTracks, streamed, collector>>
    BY <1>3 DEF SendAlbum
  <2>2. ShownTracks' = ShownTracks
    BY <2>1 DEF ShownTracks
  <2>3. SentAlbums' = SentAlbums \cup {a} /\ a \notin SentAlbums
    BY <1>t, <2>1 DEF SentAlbums
  <2>4. /\ Len(albumResults') = Len(albumResults) + 1 /\
             albumResults'[Len(albumResults) + 1] = albumFound[a]
        /\ \A i \in 1..Len(albumResults) : albumResults'[i] = albumResults[i]
    BY <1>t, <2>1, AppendProperties
  <2>5. /\ albumFound[a].album = a /\ albumFound[a].tracks = ShownTracks[a]
        /\ albumFound[a].err => albumFound[a].tracks = <<>>
    BY <2>1 DEF ShownInv, FoundIsShown
  <2>6. FoundIsShown'
    BY <1>t, <2>1, <2>2, <2>5 DEF ShownInv, FoundIsShown
  <2>7. \A i \in 1..Len(albumResults') : i \in 1..Len(albumResults) \/ i = Len(albumResults) + 1
    BY <1>t, <2>4
  <2>8. ChannelIsShown'
    <3>1. ASSUME NEW i \in 1..Len(albumResults')
          PROVE  /\ albumResults'[i].album \in SentAlbums'
                 /\ albumResults'[i].tracks = ShownTracks'[albumResults'[i].album]
                 /\ albumResults'[i].err => albumResults'[i].tracks = <<>>
      BY <2>2, <2>3, <2>4, <2>5, <2>7 DEF ShownInv, ChannelIsShown
    <3>2. \A i \in 1..Len(albumResults) : albumResults[i].album # a
      BY <2>3 DEF ShownInv, ChannelIsShown
    <3>3. ASSUME NEW i \in 1..Len(albumResults'), NEW j \in 1..Len(albumResults'),
                   albumResults'[i].album = albumResults'[j].album
          PROVE  i = j
      BY <2>4, <2>5, <2>7, <3>2, <3>3 DEF ShownInv, ChannelIsShown
    <3>. QED BY <3>1, <3>3 DEF ChannelIsShown
  <2>9. CollectedOnce'
    <3>1. \A i \in 1..Len(collected) : collected[i] # a
      BY <2>3 DEF ShownInv, CollectedOnce
    <3>2. ASSUME NEW i \in 1..Len(collected), NEW j \in 1..Len(albumResults')
          PROVE  collected[i] # albumResults'[j].album
      BY <2>4, <2>5, <2>7, <3>1 DEF ShownInv, CollectedOnce
    <3>3. ASSUME NEW b \in SentAlbums'
          PROVE  (\E i \in 1..Len(collected) : collected[i] = b) \/
                   (\E j \in 1..Len(albumResults') : albumResults'[j].album = b)
      <4>1. CASE b = a
        BY <1>t, <2>4, <2>5, <4>1
      <4>2. CASE b \in SentAlbums
        <5>1. \A j \in 1..Len(albumResults) : j \in 1..Len(albumResults')
          BY <1>t, <2>4
        <5>. QED BY <2>4, <4>2, <5>1 DEF ShownInv, CollectedOnce
      <4>. QED BY <2>3, <4>1, <4>2
    <3>. QED BY <2>1, <2>3, <3>2, <3>3 DEF ShownInv, CollectedOnce
  <2>10. TracksAreShown'
    BY <2>1, <2>2 DEF ShownInv, TracksAreShown
  <2>. QED BY <1>0, <2>6, <2>8, <2>9, <2>10 DEF ShownInv
<1>4. CASE Collect
  <2> DEFINE r == albumResults[1]
             rest == albumResults'
  <2>1. /\ albumResults # <<>> /\ albumResults' = Tail(albumResults) /\ Head(albumResults) = r
        /\ collected' = Append(collected, r.album)
        /\ albumTracks' = IF r.err THEN albumTracks ELSE albumTracks \o r.tracks
        /\ collector = "collecting"
        /\ collector' = "returned" => Len(collected) + 1 = Cardinality(Album)
        /\ UNCHANGED <<albumTask, albumFound, streamed>>
    BY <1>4, <1>t DEF Collect
  <2>2. ShownTracks' = ShownTracks /\ SentAlbums' = SentAlbums
    BY <2>1 DEF ShownTracks, SentAlbums
  <2>3. /\ 1 \in 1..Len(albumResults) /\ Len(rest) = Len(albumResults) - 1
        /\ \A i \in 1..Len(rest) : rest[i] = albumResults[i + 1] /\ i + 1 \in 1..Len(albumResults)
    BY <1>t, <2>1, HeadTailProperties
  <2>4. /\ r.album \in SentAlbums /\ r.tracks = ShownTracks[r.album]
        /\ r.err => r.tracks = <<>>
    BY <2>3 DEF ShownInv, ChannelIsShown
  <2>5. r.album \in Album
    BY <2>4 DEF SentAlbums
  <2> HIDE DEF r, rest
  <2>6. /\ collected' \in Seq(Album) /\ Len(collected') = Len(collected) + 1 /\
             collected'[Len(collected) + 1] = r.album
        /\ \A i \in 1..Len(collected) : collected'[i] = collected[i]
    BY <1>t, <2>1, <2>5, AppendProperties
  <2>7. \A i \in 1..Len(collected') : i \in 1..Len(collected) \/ i = Len(collected) + 1
    BY <1>t, <2>6
  <2>8. FoundIsShown'
    BY <2>1, <2>2 DEF ShownInv, FoundIsShown
  <2>9. ChannelIsShown'
    <3>1. ASSUME NEW i \in 1..Len(rest), NEW j \in 1..Len(rest), rest[i].album = rest[j].album PROVE i = j
      <4>1. \A k, l \in 1..Len(albumResults) : albumResults[k].album = albumResults[l].album => k = l
        BY DEF ShownInv, ChannelIsShown
      <4>2. /\ rest[i] = albumResults[i + 1] /\ i + 1 \in 1..Len(albumResults)
            /\ rest[j] = albumResults[j + 1] /\ j + 1 \in 1..Len(albumResults)
        BY <2>3
      <4>3. i + 1 = j + 1
        BY <3>1, <4>1, <4>2
      <4>. QED BY <4>3
    <3>2. \A i \in 1..Len(rest) : /\ rest[i].album \in SentAlbums
                                  /\ rest[i].tracks = ShownTracks[rest[i].album]
                                  /\ rest[i].err => rest[i].tracks = <<>>
      <4>1. \A k \in 1..Len(albumResults) :
              /\ albumResults[k].album \in SentAlbums /\
                   albumResults[k].tracks = ShownTracks[albumResults[k].album]
              /\ albumResults[k].err => albumResults[k].tracks = <<>>
        BY DEF ShownInv, ChannelIsShown
      <4>. QED BY <2>3, <4>1
    <3>. QED BY <2>2, <3>1, <3>2 DEF ChannelIsShown, rest
  <2>10. CollectedOnce'
    <3>1. \A i \in 1..Len(collected) : collected[i] # r.album
      BY <2>3 DEF ShownInv, CollectedOnce, r
    <3>2. \A j \in 1..Len(rest) : rest[j].album # r.album
      <4> SUFFICES ASSUME NEW j \in 1..Len(rest), rest[j].album = r.album PROVE FALSE
        OBVIOUS
      <4>1. j + 1 = 1
        BY <2>3 DEF ShownInv, ChannelIsShown, r
      <4>. QED BY <4>1
    <3>3. \A i \in 1..Len(collected') : collected'[i] \in SentAlbums'
      BY <2>2, <2>4, <2>6, <2>7 DEF ShownInv, CollectedOnce
    <3>4. ASSUME NEW i \in 1..Len(collected'), NEW j \in 1..Len(collected'), collected'[i] = collected'[j]
          PROVE  i = j
      BY <2>6, <2>7, <3>1, <3>4 DEF ShownInv, CollectedOnce
    <3>5. ASSUME NEW i \in 1..Len(collected'), NEW j \in 1..Len(rest) PROVE collected'[i] # rest[j].album
      <4>1. \A k \in 1..Len(collected), l \in 1..Len(albumResults) : collected[k] # albumResults[l].album
        BY DEF ShownInv, CollectedOnce
      <4>2. rest[j] = albumResults[j + 1] /\ j + 1 \in 1..Len(albumResults)
        BY <2>3
      <4>3. CASE i \in 1..Len(collected)
        BY <2>6, <4>1, <4>2, <4>3
      <4>4. CASE i = Len(collected) + 1
        BY <2>6, <3>2, <4>4
      <4>. QED BY <2>7, <4>3, <4>4
    <3>6. ASSUME NEW b \in SentAlbums
          PROVE  (\E i \in 1..Len(collected') : collected'[i] = b) \/
                   (\E j \in 1..Len(rest) : rest[j].album = b)
      <4>1. CASE \E i \in 1..Len(collected) : collected[i] = b
        <5>1. \A i \in 1..Len(collected) : i \in 1..Len(collected')
          BY <1>t, <2>6
        <5>. QED BY <2>6, <4>1, <5>1
      <4>2. ASSUME NEW j \in 1..Len(albumResults), albumResults[j].album = b
            PROVE  (\E i \in 1..Len(collected') : collected'[i] = b) \/
                     (\E k \in 1..Len(rest) : rest[k].album = b)
        <5>1. CASE j = 1
          <6>1. Len(collected) + 1 \in 1..Len(collected')
            BY <1>t, <2>6
          <6>. QED BY <2>6, <4>2, <5>1, <6>1 DEF r
        <5>2. CASE j # 1
          <6>1. j - 1 \in 1..Len(rest) /\ (j - 1) + 1 = j
            BY <1>t, <2>3, <4>2, <5>2
          <6>2. rest[j - 1] = albumResults[(j - 1) + 1]
            BY <2>3, <6>1
          <6>3. rest[j - 1].album = b
            BY <4>2, <6>1, <6>2
          <6>. QED BY <6>1, <6>3
        <5>. QED BY <5>1, <5>2
      <4>. QED BY <3>6, <4>1, <4>2 DEF ShownInv, CollectedOnce
    <3>. QED BY <2>2, <3>3, <3>4, <3>5, <3>6 DEF CollectedOnce, rest
  <2>11. TracksAreShown'
    <3>1. Strung(Append(collected, r.album), ShownTracks) = Strung(collected,
            ShownTracks) \o ShownTracks[r.album]
      <4>1. ShownTracks \in Pieces(Album, AlbumTracks)
        BY ShownPieces
      <4>2. collected \in Seq(Album) /\ r.album \in Album
        BY <1>t, <2>5
      <4>3. ASSUME NEW x \in Album
            PROVE  Strung(Append(collected, x), ShownTracks) = Strung(collected,
                     ShownTracks) \o ShownTracks[x]
        BY <4>1, <4>2, StrungGoesOn
      <4>. QED BY <4>2, <4>3
    <3>2. albumTracks' = albumTracks \o r.tracks
      <4>1. Strung(collected, ShownTracks) \in Seq(AlbumTracks)
        BY <1>t, ShownPieces, StrungStrings
      <4>2. albumTracks \in Seq(AlbumTracks)
        BY <4>1 DEF ShownInv, TracksAreShown
      <4>3. albumTracks \o <<>> = albumTracks
        BY <4>2, ConcatEmptySeq
      <4>. QED BY <2>1, <2>4, <4>3
    <3>. QED BY <2>1, <2>2, <2>4, <2>6, <3>1, <3>2 DEF ShownInv, TracksAreShown
  <2>. QED BY <1>0, <2>8, <2>9, <2>10, <2>11 DEF ShownInv
<1>5. CASE TimeIsUp \/ UNCHANGED discVars
  <2>1. UNCHANGED <<albumTask, albumFound, albumResults, collected, albumTracks, streamed, collector>>
    BY <1>5 DEF TimeIsUp, discVars
  <2>2. ShownTracks' = ShownTracks /\ SentAlbums' = SentAlbums
    BY <2>1 DEF ShownTracks, SentAlbums
  <2>. QED
    BY <1>0, <2>1, <2>2 DEF ShownInv, FoundIsShown, ChannelIsShown, CollectedOnce, TracksAreShown
<1>. QED BY <1>1, <1>2, <1>3, <1>4, <1>5 DEF DiscNext

(* Nothing is shown, sent or collected at first. *)
LEMMA ShownFirst == DiscInit /\ DiscInv => ShownInv
<1> SUFFICES ASSUME DiscInit, DiscInv PROVE ShownInv
  OBVIOUS
<1>1. /\ \A a \in Album : albumTask[a] = "waiting"
      /\ albumResults = <<>> /\ collected = <<>> /\ streamed = {} /\ albumTracks = <<>> /\
           collector = "collecting"
  BY DEF DiscInit
<1>2. SentAlbums = {}
  BY <1>1 DEF SentAlbums
<1>3. collected \in Seq(Album) /\ Len(collected) = 0 /\ Len(albumResults) = 0
  BY <1>1
<1>4. FoundIsShown /\ ChannelIsShown /\ CollectedOnce
  BY <1>1, <1>2, <1>3 DEF FoundIsShown, ChannelIsShown, CollectedOnce
<1>5. Strung(collected, ShownTracks) = <<>>
  <2>0. \E strung \in [0..Len(collected) -> Seq(AlbumTracks)] :
           Strings(collected, ShownTracks, strung) /\
             Strung(collected, ShownTracks) = strung[Len(collected)]
    <3>1. collected \in Seq(Album) /\ ShownTracks \in Pieces(Album, AlbumTracks)
      BY <1>3, ShownPieces
    <3>. QED BY <3>1, StrungStrings
  <2>1. PICK strung \in [0..Len(collected) -> Seq(AlbumTracks)] :
           Strings(collected, ShownTracks, strung) /\
             Strung(collected, ShownTracks) = strung[Len(collected)]
    BY <2>0
  <2>. QED BY <1>3, <2>1 DEF Strings
<1>. QED BY <1>1, <1>3, <1>4, <1>5 DEF ShownInv, TracksAreShown

(* The inductive invariant of what is shown, found, sent and collected. *)
THEOREM ShownInvariant == DiscSpec => []ShownInv
<1>1. DiscInit /\ []DiscInv => ShownInv
  BY ShownFirst, PTL
<1>. QED BY <1>1, ShownStep, DiscInvariant, PTL DEF DiscSpec

(* A discography that is returned is the one that was shown while it came. *)
THEOREM DiscographyIsWhole == DiscSpec => []ReturnsWhatWasShown
<1>1. ShownInv => ReturnsWhatWasShown
  <2> SUFFICES ASSUME ShownInv, collector = "returned"
               PROVE  /\ IsInjective(collected) /\ Range(collected) = Album
                      /\ albumTracks = Strung(collected, ShownTracks)
    BY DEF ReturnsWhatWasShown
  <2>0. collected \in Seq(Album) /\ DOMAIN collected = 1..Len(collected) /\
          Len(collected) = Cardinality(Album)
        /\ Len(albumResults) \in Nat /\ Len(collected) \in Nat
    BY DEF ShownInv, TracksAreShown, DiscInv, ResultsAreCounted
  <2>1. IsInjective(collected)
    BY <2>0 DEF ShownInv, CollectedOnce, IsInjective
  <2>2. Len(albumResults) = 0 /\ Cardinality(SentAlbums) = Cardinality(Album)
    BY <2>0, Counted DEF ShownInv, DiscInv, ResultsAreCounted
  <2>3. SentAlbums = Album
    <3>1. SentAlbums \subseteq Album
      BY DEF SentAlbums
    <3>. QED BY <2>2, <3>1, FS_Subset, DiscographyAssumption
  <2>4. \A a \in Album : \E i \in 1..Len(collected) : collected[i] = a
    BY <2>2, <2>3 DEF ShownInv, CollectedOnce
  <2>5. \A i \in 1..Len(collected) : collected[i] \in Album
    BY <2>3 DEF ShownInv, CollectedOnce
  <2>6. Range(collected) = Album
    BY <2>0, <2>4, <2>5 DEF Range
  <2>. QED BY <2>1, <2>6 DEF ShownInv, TracksAreShown
<1>. QED BY <1>1, ShownInvariant, PTL

-----------------------------------------------------------------------------
(* A prefix has the items that the whole begins with. *)
LEMMA PrefixItems ==
    ASSUME NEW X, NEW s \in Seq(X), NEW t \in Seq(X)
    PROVE  IsPrefix(s, t) <=> Len(s) <= Len(t) /\ \A i \in 1..Len(s) : s[i] = t[i]
<1>1. Len(s) \in Nat /\ Len(t) \in Nat /\ SubSeq(s, 1, Len(s)) = s
  BY SubSeqFull
<1>2. ASSUME Len(s) <= Len(t)
      PROVE  /\ SubSeq(t, 1, Len(s)) \in Seq(X) /\ Len(SubSeq(t, 1, Len(s))) = Len(s)
             /\ \A i \in 1..Len(s) : SubSeq(t, 1, Len(s))[i] = t[i]
  <2>1. \A i \in 1..Len(s) : t[i] \in X
    BY <1>1, <1>2
  <2>2. Len(s) \in Int /\ 1 \in Int
    BY <1>1
  <2>3. /\ SubSeq(t, 1, Len(s)) \in Seq(X)
        /\ Len(SubSeq(t, 1, Len(s))) = IF 1 <= Len(s) THEN Len(s) - 1 + 1 ELSE 0
        /\ \A i \in 1..Len(s) - 1 + 1 : SubSeq(t, 1, Len(s))[i] = t[1 + i - 1]
    BY <2>1, <2>2, SubSeqProperties
  <2>. QED BY <1>1, <2>3
<1>3. ASSUME IsPrefix(s, t) PROVE Len(s) <= Len(t) /\ \A i \in 1..Len(s) : s[i] = t[i]
  BY <1>1, <1>2, <1>3 DEF IsPrefix
<1>4. ASSUME Len(s) <= Len(t), \A i \in 1..Len(s) : s[i] = t[i] PROVE IsPrefix(s, t)
  <2>1. s = SubSeq(t, 1, Len(s))
    BY <1>1, <1>2, <1>4, SeqEqual
  <2>. QED BY <1>1, <1>4, <2>1 DEF IsPrefix
<1>. QED BY <1>3, <1>4

(* The beginning of a sequence and what follows it. *)
LEMMA Begins ==
    ASSUME NEW X, NEW s \in Seq(X), NEW t \in Seq(X)
    PROVE  IsPrefix(s, s \o t)
<1>1. /\ s \o t \in Seq(X) /\ Len(s \o t) = Len(s) + Len(t)
      /\ \A i \in 1..Len(s) + Len(t) : (s \o t)[i] = IF i <= Len(s) THEN s[i] ELSE t[i - Len(s)]
  BY ConcatProperties
<1>2. Len(s) \in Nat /\ Len(t) \in Nat /\ Len(s) <= Len(s \o t)
  BY <1>1
<1>3. \A i \in 1..Len(s) : s[i] = (s \o t)[i]
  BY <1>1, <1>2
<1> DEFINE u == s \o t
<1>4. u \in Seq(X) /\ Len(s) <= Len(u) /\ \A i \in 1..Len(s) : s[i] = u[i]
  BY <1>1, <1>2, <1>3
<1> HIDE DEF u
<1>5. IsPrefix(s, u)
  BY <1>4, PrefixItems
<1>. QED BY <1>5 DEF u

(* A prefix is followed by something. *)
LEMMA PrefixGoesOn ==
    ASSUME NEW X, NEW s \in Seq(X), NEW t \in Seq(X), IsPrefix(s, t)
    PROVE  \E u \in Seq(X) : t = s \o u
<1> DEFINE u == SubSeq(t, Len(s) + 1, Len(t))
<1>1. Len(s) \in Nat /\ Len(t) \in Nat /\ Len(s) <= Len(t)
  BY DEF IsPrefix
<1>2. \A i \in 1..Len(s) : s[i] = t[i]
  BY PrefixItems
<1>3. /\ u \in Seq(X) /\ Len(u) = Len(t) - Len(s)
      /\ \A i \in 1..Len(t) - Len(s) : u[i] = t[Len(s) + i]
  <2>1. \A i \in Len(s) + 1..Len(t) : t[i] \in X
    BY <1>1
  <2>2. Len(s) + 1 \in Int /\ Len(t) \in Int
    BY <1>1
  <2>3. /\ u \in Seq(X)
        /\ Len(u) = IF Len(s) + 1 <= Len(t) THEN Len(t) - (Len(s) + 1) + 1 ELSE 0
        /\ \A i \in 1..Len(t) - (Len(s) + 1) + 1 : u[i] = t[Len(s) + 1 + i - 1]
    BY <2>1, <2>2, SubSeqProperties
  <2>4. Len(t) - (Len(s) + 1) + 1 = Len(t) - Len(s) /\
          \A i \in 1..Len(t) - Len(s) : Len(s) + 1 + i - 1 = Len(s) + i
    BY <1>1
  <2>. QED BY <1>1, <2>3, <2>4
<1> HIDE DEF u
<1>4. /\ s \o u \in Seq(X) /\ Len(s \o u) = Len(s) + Len(u)
      /\ \A i \in 1..Len(s) + Len(u) : (s \o u)[i] = IF i <= Len(s) THEN s[i] ELSE u[i - Len(s)]
  BY <1>3, ConcatProperties
<1>5. \A i \in 1..Len(t) : (s \o u)[i] = t[i]
  <2> SUFFICES ASSUME NEW i \in 1..Len(t) PROVE (s \o u)[i] = t[i]
    OBVIOUS
  <2>1. CASE i <= Len(s)
    BY <1>1, <1>2, <1>3, <1>4, <2>1
  <2>2. CASE i > Len(s)
    <3>1. i - Len(s) \in 1..Len(t) - Len(s) /\ Len(s) + (i - Len(s)) = i
      BY <1>1, <2>2
    <3>. QED BY <1>1, <1>3, <1>4, <2>2, <3>1
  <2>3. i <= Len(s) \/ i > Len(s)
    BY <1>1
  <2>. QED BY <2>1, <2>2, <2>3
<1>6. Len(t) = Len(s \o u)
  BY <1>1, <1>3, <1>4
<1>7. t = s \o u
  BY <1>4, <1>5, <1>6, SeqEqual
<1>. QED BY <1>3, <1>7

(* What begins the beginning begins the whole. *)
LEMMA PrefixOfMore ==
    ASSUME NEW X, NEW s \in Seq(X), NEW t \in Seq(X), NEW u \in Seq(X), IsPrefix(s, t)
    PROVE  IsPrefix(s, t \o u)
<1>1. PICK v \in Seq(X) : t = s \o v
  BY PrefixGoesOn
<1>2. t \o u = s \o (v \o u)
  BY <1>1, ConcatAssociative
<1>3. v \o u \in Seq(X)
  BY ConcatProperties
<1>. QED BY <1>2, <1>3, Begins
-----------------------------------------------------------------------------
PagesTyped ==
    /\ listing \in Listing /\ served \in 1..Limit /\ givesTotal \in BOOLEAN
    /\ listed \in Seq(Nat) /\ allItems \in Seq(Nat) /\ firstShown \in Seq(Nat)
    /\ offset \in Nat /\ pagesAsked \in Nat /\ totalCount \in Nat \cup {NoTotal}
    /\ pagesPc \in {"ask", "collect", "done", "failed"}
    /\ pageFailed \in BOOLEAN /\ listEdits \in Nat

(* While there is a page to ask for, all pages so far were full ones, and the
   first total has not been reached. *)
FullSoFar ==
    pagesPc = "ask" =>
        /\ offset = pagesAsked * Limit /\ Len(allItems) = offset
        /\ pagesAsked > 0 => totalCount # NoTotal /\ offset < totalCount

(* What is returned is what was collected. *)
Returned ==
    IF pagesPc = "done" THEN payload = [rows |-> RowsOf(allItems), count |-> CountOf(allItems)]
                        ELSE payload = EmptyPayload

(* What was shown first is how the rows begin. *)
ListedFirst ==
    /\ pagesAsked = 0 => allItems = <<>> /\ firstShown = <<>> /\ totalCount = NoTotal
    /\ IsPrefix(firstShown, RowsOf(allItems))

(* Of a list that nobody edits the items are the beginning, to the end if that
   can be told from the pages, and the total is its length. *)
QuietList ==
    listEdits = 0 =>
        /\ IsPrefix(allItems, listed)
        /\ givesTotal => totalCount \in {NoTotal, Len(listed)}
        /\ pagesPc \in {"collect", "done"} /\ ~pageFailed /\ served = Limit /\ givesTotal =>
             allItems = listed

PagesInv ==
    /\ PagesTyped /\ FullSoFar /\ Returned /\ ListedFirst /\ QuietList
    /\ Len(allItems) <= pagesAsked * served /\ PagingEnds

(* What a page is: what comes next, as much as the service sends of it. *)
LEMMA PageIs ==
    ASSUME PagesTyped
    PROVE  /\ Page \in Seq(Nat)
           /\ Len(Page) = IF offset >= Len(listed) THEN 0
                          ELSE IF offset + served < Len(listed) THEN served ELSE Len(listed) - offset
           /\ \A i \in 1..Len(Page) : Page[i] = listed[offset + i]
<1> DEFINE n == IF offset + served < Len(listed) THEN offset + served ELSE Len(listed)
<1>1. Page = SubSeq(listed, offset + 1, n)
  BY DEF Page
<1>2. offset \in Nat /\ served \in Nat \ {0} /\ Len(listed) \in Nat /\ Limit \in Nat \ {0}
  BY PagesAssumption DEF PagesTyped
<1>3. n \in Nat /\ n <= Len(listed) /\ offset + 1 \in Nat
  BY <1>2
<1>4. n - (offset + 1) + 1 = n - offset /\ \A i \in 1..n - offset : offset + 1 + i - 1 = offset + i
  BY <1>2
<1>5. n = IF offset + served < Len(listed) THEN offset + served ELSE Len(listed)
  OBVIOUS
<1> HIDE DEF n
<1>6. \A i \in offset + 1..n : listed[i] \in Nat
  BY <1>2, <1>3 DEF PagesTyped
<1>7. /\ Page \in Seq(Nat)
      /\ Len(Page) = IF offset + 1 <= n THEN n - (offset + 1) + 1 ELSE 0
      /\ \A i \in 1..n - (offset + 1) + 1 : Page[i] = listed[offset + 1 + i - 1]
  BY <1>1, <1>3, <1>6, SubSeqProperties
<1>8. Len(Page) = IF offset >= Len(listed) THEN 0
                  ELSE IF offset + served < Len(listed) THEN served ELSE Len(listed) - offset
  BY <1>2, <1>3, <1>4, <1>5, <1>7
<1>9. \A i \in 1..Len(Page) : Page[i] = listed[offset + i]
  <2>1. \A i \in 1..Len(Page) : i \in 1..n - offset
    BY <1>2, <1>3, <1>7, SMTT(30)
  <2>. QED BY <1>4, <1>7, <2>1
<1>. QED BY <1>7, <1>8, <1>9

(* One more of several. *)
LEMMA OneMore == \A m, n \in Nat : (m + 1) * n = m * n + n /\ m * n \in Nat /\ 0 * n = 0
OBVIOUS

(* The rows of items are rows, and those of more come behind. *)
LEMMA RowsAre ==
    ASSUME NEW s \in Seq(Nat), NEW t \in Seq(Nat)
    PROVE  RowsOf(s) \in Seq(Nat) /\ RowsOf(s \o t) = RowsOf(s) \o RowsOf(t)
<1>1. Sift(s, Listable) \in Seq(Nat)
  BY SiftEmbeds
<1>2. Sift(s \o t, Listable) = Sift(s, Listable) \o Sift(t, Listable)
  BY SiftConcat
<1>. QED BY <1>1, <1>2 DEF RowsOf

(* A page more is asked for. *)
LEMMA AskStep == ASSUME PagesInv, AskPage PROVE PagesInv'
<1> DEFINE page == Page
           n == Len(page)
<1>1. /\ page \in Seq(Nat)
      /\ n = IF offset >= Len(listed) THEN 0 ELSE IF offset + served < Len(listed) THEN served ELSE Len(listed) - offset
      /\ \A i \in 1..n : page[i] = listed[offset + i]
  BY PageIs DEF PagesInv
<1>2. /\ pagesPc = "ask" /\ pagesAsked' = pagesAsked + 1 /\ allItems' = allItems \o page
      /\ firstShown' = IF ShowsFirst THEN RowsOf(page) ELSE firstShown
      /\ totalCount' = IF page = <<>> THEN totalCount ELSE KnownTotal(page)
      /\ IF LastPage(page) THEN pagesPc' = "collect" /\ offset' = offset ELSE pagesPc' = "ask" /\
           offset' = offset + Limit
      /\ UNCHANGED <<payload, pageFailed, listing, listed, served, givesTotal, listEdits>>
  BY DEF AskPage, theService
<1> HIDE DEF page
<1>3. /\ offset \in Nat /\ Len(listed) \in Nat /\ served \in Nat \ {0} /\ served <= Limit /\
           Limit \in Nat \ {0}
      /\ pagesAsked \in Nat /\ n \in Nat /\ n <= served /\ listed \in Seq(Nat) /\ allItems \in Seq(Nat)
  BY <1>1, PagesAssumption, SMTT(30) DEF PagesInv, PagesTyped
<1>4. offset = pagesAsked * Limit /\ Len(allItems) = offset /\ Len(allItems) \in Nat
  BY <1>2, <1>3 DEF PagesInv, FullSoFar
<1>5. /\ allItems' \in Seq(Nat) /\ Len(allItems') = offset + n
      /\ \A i \in 1..offset + n : allItems'[i] = IF i <= offset THEN allItems[i] ELSE page[i - offset]
  <2>1. /\ allItems \o page \in Seq(Nat) /\ Len(allItems \o page) = Len(allItems) + Len(page)
        /\ \A i \in 1..Len(allItems) + Len(page) :
             (allItems \o page)[i] = IF i <= Len(allItems) THEN allItems[i] ELSE page[i - Len(allItems)]
    BY <1>1, <1>3, ConcatProperties
  <2>. QED BY <1>2, <1>4, <2>1
<1>6. KnownTotal(page) \in Nat /\ totalCount' \in Nat \cup {NoTotal}
      /\ (totalCount # NoTotal => KnownTotal(page) = totalCount)
  BY <1>2, <1>3 DEF KnownTotal, PagesInv, PagesTyped
<1>7. LastPage(page) <=> n = 0 \/ offset + n >= KnownTotal(page) \/ n < Limit
  BY <1>2, <1>5 DEF LastPage
<1>8. page = <<>> <=> n = 0
  BY <1>1
<1>9. pagesAsked' * Limit = offset + Limit /\ pagesAsked' * served = pagesAsked * served + served
      /\ pagesAsked * served \in Nat /\ pagesAsked' \in Nat
  BY <1>2, <1>3, <1>4, OneMore
<1>10. PagesTyped'
  <2>1. firstShown' \in Seq(Nat)
    BY <1>1, <1>2, RowsAre DEF PagesInv, PagesTyped
  <2>2. offset' \in Nat /\ pagesPc' \in {"ask", "collect", "done", "failed"}
    BY <1>2, <1>3
  <2>. QED BY <1>2, <1>5, <1>6, <1>9, <2>1, <2>2 DEF PagesInv, PagesTyped
<1>11. FullSoFar'
  <2> SUFFICES ASSUME pagesPc' = "ask"
               PROVE  offset' = pagesAsked' * Limit /\ Len(allItems') = offset' /\ totalCount' # NoTotal /\
                        offset' < totalCount'
    BY DEF FullSoFar
  <2>1. n # 0 /\ offset + n < KnownTotal(page) /\ n >= Limit /\ offset' = offset + Limit
    BY <1>2, <1>3, <1>6, <1>7
  <2>2. n = Limit /\ totalCount' = KnownTotal(page)
    BY <1>2, <1>3, <1>8, <2>1
  <2>3. totalCount' # NoTotal
    BY <1>6, <2>2 DEF NoTotal
  <2>4. offset' = offset + n /\ offset' = pagesAsked' * Limit
    BY <1>9, <2>1, <2>2
  <2>. QED BY <1>5, <2>1, <2>2, <2>3, <2>4
<1>12. Returned'
  BY <1>2 DEF PagesInv, Returned
<1>13. ListedFirst'
  <2>1. pagesAsked' # 0
    BY <1>2, <1>3
  <2>2. /\ RowsOf(allItems') = RowsOf(allItems) \o RowsOf(page)
        /\ RowsOf(allItems) \in Seq(Nat) /\ RowsOf(page) \in Seq(Nat)
    BY <1>1, <1>2, <1>3, RowsAre
  <2>3. IsPrefix(firstShown', RowsOf(allItems'))
    <3>1. CASE ShowsFirst
      <4>1. allItems = <<>>
        BY <3>1 DEF ShowsFirst, PagesInv, ListedFirst
      <4>2. allItems' = page
        BY <1>1, <1>2, <4>1, ConcatEmptySeq
      <4>3. RowsOf(page) \o <<>> = RowsOf(page)
        BY <2>2, ConcatEmptySeq
      <4>4. IsPrefix(RowsOf(page), RowsOf(page) \o <<>>)
        <5>1. <<>> \in Seq(Nat)
          OBVIOUS
        <5>. QED BY <2>2, <5>1, Begins
      <4>. QED BY <1>2, <3>1, <4>2, <4>3, <4>4
    <3>2. CASE ~ShowsFirst
      <4>1. firstShown' = firstShown /\ firstShown \in Seq(Nat) /\ IsPrefix(firstShown, RowsOf(allItems))
        BY <1>2, <3>2 DEF PagesInv, PagesTyped, ListedFirst
      <4>. QED BY <2>2, <4>1, PrefixOfMore
    <3>. QED BY <3>1, <3>2
  <2>4. RowsOf(allItems)' = RowsOf(allItems')
    BY <1>2 DEF RowsOf, Listable
  <2>. QED BY <2>1, <2>3, <2>4 DEF ListedFirst
<1>14. QuietList'
  <2> SUFFICES ASSUME listEdits = 0
               PROVE  /\ IsPrefix(allItems', listed)
                      /\ givesTotal => totalCount' \in {NoTotal, Len(listed)}
                      /\ pagesPc' \in {"collect", "done"} /\ ~pageFailed /\ served = Limit /\ givesTotal
                           => allItems' = listed
    BY <1>2 DEF QuietList
  <2>1. /\ offset <= Len(listed) /\ \A i \in 1..offset : allItems[i] = listed[i]
        /\ givesTotal => totalCount \in {NoTotal, Len(listed)}
    BY <1>3, <1>4, PrefixItems DEF PagesInv, QuietList
  <2>2. offset + n <= Len(listed)
    BY <1>1, <1>3, <2>1, SMTT(30)
  <2>3. ASSUME NEW i \in 1..offset + n PROVE allItems'[i] = listed[i]
    <3>1. CASE i <= offset
      <4>1. i \in 1..offset
        BY <1>3, <3>1
      <4>2. allItems'[i] = allItems[i]
        BY <1>5, <2>3, <3>1
      <4>. QED BY <2>1, <4>1, <4>2
    <3>2. CASE i > offset
      <4>1. i - offset \in 1..n /\ offset + (i - offset) = i
        BY <1>3, <3>2
      <4>. QED BY <1>1, <1>3, <1>5, <3>2, <4>1
    <3>3. i <= offset \/ i > offset
      BY <1>3
    <3>. QED BY <3>1, <3>2, <3>3
  <2>4. IsPrefix(allItems', listed)
    BY <1>3, <1>5, <2>2, <2>3, PrefixItems
  <2>5. givesTotal => totalCount' \in {NoTotal, Len(listed)} /\ KnownTotal(page) = Len(listed)
    BY <1>2, <2>1 DEF KnownTotal
  <2>6. ASSUME pagesPc' \in {"collect", "done"}, served = Limit, givesTotal PROVE allItems' = listed
    <3>1. LastPage(page)
      BY <1>2, <2>6
    <3>2. offset + n = Len(listed)
      BY <1>1, <1>3, <1>7, <2>1, <2>2, <2>5, <2>6, <3>1
    <3>. QED BY <1>3, <1>5, <2>3, <3>2, SeqEqual
  <2>. QED BY <2>4, <2>5, <2>6
<1>15. (Len(allItems) <= pagesAsked * served)'
  <2> DEFINE most == pagesAsked * served
  <2>1. Len(allItems) <= most /\ most \in Nat /\ pagesAsked' * served = most + served
    BY <1>9 DEF PagesInv
  <2> HIDE DEF most
  <2>2. Len(allItems') <= most + served
    BY <1>3, <1>4, <1>5, <2>1
  <2>. QED BY <1>2, <2>1, <2>2
<1>16. PagingEnds'
  <2> SUFFICES ASSUME totalCount' # NoTotal PROVE (pagesAsked' - 1) * Limit <= totalCount'
    BY DEF PagingEnds
  <2>1. pagesAsked' - 1 = pagesAsked /\ pagesAsked * Limit = offset
    BY <1>2, <1>3, <1>4
  <2>2. CASE pagesAsked = 0
    BY <1>3, <1>4, <1>6, <2>1, <2>2, OneMore DEF NoTotal
  <2>3. CASE pagesAsked > 0
    <3>1. totalCount # NoTotal /\ offset < totalCount
      BY <1>2, <2>3 DEF PagesInv, FullSoFar
    <3>2. totalCount' = totalCount
      BY <1>2, <1>6, <3>1
    <3>. QED BY <1>3, <1>6, <2>1, <3>1, <3>2 DEF NoTotal
  <2>. QED BY <1>3, <2>2, <2>3
<1>. QED BY <1>10, <1>11, <1>12, <1>13, <1>14, <1>15, <1>16 DEF PagesInv

(* So does every other step keep the invariant of the paging. *)
LEMMA PagesStep == PagesInv /\ [PagesNext]_pagesVars => PagesInv'
<1> SUFFICES ASSUME PagesInv, [PagesNext]_pagesVars PROVE PagesInv'
  OBVIOUS
<1>1. CASE AskPage
  BY <1>1, AskStep
<1>2. ASSUME UNCHANGED <<listing, listed, served, givesTotal, listEdits, allItems, offset, totalCount,
               firstShown, pagesAsked>>,
             \/ /\ pagesPc' = "collect" /\ pageFailed' = TRUE /\ payload' = payload /\ pagesPc # "done"
             \/ /\ pagesPc' = "failed" /\ pageFailed' \in BOOLEAN /\ payload' = payload /\ pagesPc # "done"
             \/ /\ pagesPc = "collect" /\ pagesPc' = "done" /\ pageFailed' = pageFailed
                /\ payload' = [rows |-> RowsOf(allItems), count |-> CountOf(allItems)]
             \/ UNCHANGED <<pagesPc, pageFailed, payload>>
      PROVE  PagesInv'
  <2>1. PagesTyped'
    BY <1>2 DEF PagesInv, PagesTyped
  <2>2. FullSoFar'
    BY <1>2 DEF PagesInv, FullSoFar
  <2>3. RowsOf(allItems)' = RowsOf(allItems) /\ CountOf(allItems)' = CountOf(allItems)
    BY <1>2 DEF RowsOf, Listable, CountOf
  <2>4. Returned'
    BY <1>2, <2>3 DEF PagesInv, Returned
  <2>5. ListedFirst'
    BY <1>2, <2>3 DEF PagesInv, ListedFirst
  <2>6. QuietList'
    BY <1>2 DEF PagesInv, QuietList
  <2>7. (Len(allItems) <= pagesAsked * served)' /\ PagingEnds'
    BY <1>2 DEF PagesInv, PagingEnds
  <2>. QED BY <2>1, <2>2, <2>4, <2>5, <2>6, <2>7 DEF PagesInv
<1>3. CASE PageError \/ CancelPages \/ CollectPages \/ UNCHANGED pagesVars
  <2>1. UNCHANGED <<listing, listed, served, givesTotal, listEdits, allItems, offset, totalCount,
          firstShown, pagesAsked>>
    BY <1>3 DEF PageError, CancelPages, CollectPages, pagesVars, theService
  <2>2. pageFailed \in BOOLEAN
    BY DEF PagesInv, PagesTyped
  <2>3. CASE PageError
    BY <1>2, <2>1, <2>3 DEF PageError
  <2>4. CASE CancelPages
    BY <1>2, <2>1, <2>2, <2>4 DEF CancelPages
  <2>5. CASE CollectPages
    BY <1>2, <2>1, <2>5 DEF CollectPages
  <2>6. CASE UNCHANGED pagesVars
    BY <1>2, <2>1, <2>6 DEF pagesVars
  <2>. QED BY <1>3, <2>3, <2>4, <2>5, <2>6
<1>4. CASE EditList
  <2>1. /\ UNCHANGED <<listing, served, givesTotal, allItems, offset, totalCount, pagesPc, firstShown,
             payload, pagesAsked, pageFailed>>
        /\ listEdits' = listEdits + 1
    BY <1>4 DEF EditList
  <2>2. listed' \in Seq(Nat)
    <3>1. listed \in Seq(Nat) /\ LongestList + listEdits + 1 \in Nat
      BY PagesAssumption DEF PagesInv, PagesTyped
    <3>2. <<LongestList + listEdits + 1>> \o listed \in Seq(Nat)
      BY <3>1
    <3>3. listed # <<>> => Tail(listed) \in Seq(Nat)
      BY <3>1
    <3>. QED BY <1>4, <3>2, <3>3 DEF EditList
  <2>3. PagesTyped'
    BY <2>1, <2>2 DEF PagesInv, PagesTyped
  <2>4. QuietList'
    BY <2>1 DEF PagesInv, PagesTyped, QuietList
  <2>5. RowsOf(allItems)' = RowsOf(allItems) /\ CountOf(allItems)' = CountOf(allItems)
    BY <2>1 DEF RowsOf, Listable, CountOf
  <2>6. FullSoFar' /\ Returned' /\ ListedFirst' /\ PagingEnds' /\ (Len(allItems) <= pagesAsked * served)'
    BY <2>1, <2>5 DEF PagesInv, FullSoFar, Returned, ListedFirst, PagingEnds
  <2>. QED BY <2>3, <2>4, <2>6 DEF PagesInv
<1>. QED BY <1>1, <1>3, <1>4 DEF PagesNext

(* Nothing has been asked for at first. *)
LEMMA PagesFirst == PagesInit => PagesInv
<1> SUFFICES ASSUME PagesInit PROVE PagesInv
  OBVIOUS
<1>1. PICK n \in 0..LongestList : listed = [i \in 1..n |-> i]
  BY DEF PagesInit
<1>2. listed \in Seq(Nat)
  BY <1>1, PagesAssumption
<1>3. /\ listing \in Listing /\ served \in 1..Limit /\ givesTotal \in BOOLEAN /\ allItems = <<>> /\
           offset = 0
      /\ totalCount = NoTotal /\ pagesPc = "ask" /\ firstShown = <<>> /\ payload = EmptyPayload
      /\ pagesAsked = 0 /\ pageFailed = FALSE /\ listEdits = 0
  BY DEF PagesInit
<1>4. <<>> \in Seq(Nat) /\ Len(<<>>) = 0 /\ NoTotal \in Int
  BY DEF NoTotal
<1>5. PagesTyped
  BY <1>2, <1>3, <1>4 DEF PagesTyped
<1>6. 0 * Limit = 0 /\ 0 * served = 0
  BY <1>3, PagesAssumption, OneMore
<1>7. FullSoFar /\ Returned /\ PagingEnds /\ Len(allItems) <= pagesAsked * served
  BY <1>3, <1>4, <1>6 DEF FullSoFar, Returned, PagingEnds
<1>8. IsPrefix(<<>>, listed) /\ IsPrefix(<<>>, RowsOf(allItems))
  <2>1. RowsOf(allItems) \in Seq(Nat)
    BY <1>3, <1>4, RowsAre
  <2>2. ASSUME NEW t \in Seq(Nat) PROVE IsPrefix(<<>>, t)
    <3>1. Len(<<>>) <= Len(t) /\ \A i \in 1..Len(<<>>) : <<>>[i] = t[i]
      BY <1>4
    <3>2. <<>> \in Seq(Nat)
      BY <1>4
    <3>. QED BY <3>1, <3>2, PrefixItems
  <2>. QED BY <1>2, <2>1, <2>2
<1>9. ListedFirst /\ QuietList
  BY <1>3, <1>8 DEF ListedFirst, QuietList
<1>. QED BY <1>5, <1>7, <1>9 DEF PagesInv

(* The inductive invariant of the paging. *)
THEOREM PagesInvariant == PagesSpec => []PagesInv
BY PagesFirst, PagesStep, PTL DEF PagesSpec

(* The pages are asked for in their order, and no more is kept than was sent. *)
THEOREM PagesTypeCorrect == PagesSpec => []PagesTypeOK
<1>1. PagesInv => PagesTypeOK
  <2> SUFFICES ASSUME PagesInv PROVE PagesTypeOK
    OBVIOUS
  <2>1. payload # EmptyPayload => pagesPc = "done"
    BY DEF PagesInv, Returned
  <2>. QED BY <2>1 DEF PagesInv, PagesTyped, FullSoFar, PagesTypeOK
<1>. QED BY <1>1, PagesInvariant, PTL

(* What is returned is the beginning of the list and begins as was shown. *)
THEOREM PagesHaveNoGaps == PagesSpec => []NoGaps
<1>1. PagesInv => NoGaps
  <2> SUFFICES ASSUME PagesInv, pagesPc = "done"
               PROVE  IsPrefix(firstShown, payload.rows) /\
                        (listEdits = 0 => IsPrefix(payload.rows, RowsOf(listed)))
    BY DEF NoGaps
  <2>1. payload.rows = RowsOf(allItems)
    BY DEF PagesInv, Returned
  <2>2. listed \in Seq(Nat) /\ allItems \in Seq(Nat)
    BY DEF PagesInv, PagesTyped
  <2>3. ASSUME listEdits = 0 PROVE IsPrefix(RowsOf(allItems), RowsOf(listed))
    <3>1. \E u \in Seq(Nat) : listed = allItems \o u
      BY <2>2, <2>3, PrefixGoesOn DEF PagesInv, QuietList
    <3>2. PICK u \in Seq(Nat) : listed = allItems \o u
      BY <3>1
    <3>3. RowsOf(allItems) \in Seq(Nat) /\ RowsOf(u) \in Seq(Nat) /\
            RowsOf(allItems \o u) = RowsOf(allItems) \o RowsOf(u)
      BY <2>2, RowsAre
    <3>4. IsPrefix(RowsOf(allItems), RowsOf(allItems) \o RowsOf(u))
      BY <3>3, Begins
    <3>. QED BY <3>2, <3>3, <3>4
  <2>. QED BY <2>1, <2>3 DEF PagesInv, ListedFirst
<1>. QED BY <1>1, PagesInvariant, PTL

(* It is all of it where the service lets one tell. *)
THEOREM ListsAreWhole == PagesSpec => []WholeListIsReturned
<1>1. PagesInv => WholeListIsReturned
  <2> SUFFICES ASSUME PagesInv, pagesPc = "done", listEdits = 0, ~pageFailed, served = Limit, givesTotal
               PROVE  payload.rows = RowsOf(listed) /\ payload.count = Len(payload.rows)
    BY DEF WholeListIsReturned
  <2>1. payload.rows = RowsOf(allItems) /\ payload.count = CountOf(allItems) /\ allItems = listed
    BY DEF PagesInv, Returned, QuietList
  <2>2. CASE listing = "discography"
    <3>1. listed \in Seq(Nat) /\ \A i \in 1..Len(listed) : listed[i] \in Nat
      BY DEF PagesInv, PagesTyped
    <3>2. Listable = Nat
      BY <2>2 DEF Listable
    <3>3. RowsOf(listed) = listed
      BY <3>1, <3>2, SiftKeepsAll DEF RowsOf
    <3>. QED BY <2>1, <2>2, <3>3 DEF CountOf
  <2>3. CASE listing # "discography"
    BY <2>1, <2>3 DEF CountOf
  <2>. QED BY <2>1, <2>2, <2>3
<1>. QED BY <1>1, PagesInvariant, PTL

(* The paging asks for no more than the first total takes. *)
THEOREM PagingComesToAnEnd == PagesSpec => []PagingEnds
<1>1. PagesInv => PagingEnds
  BY DEF PagesInv
<1>. QED BY <1>1, PagesInvariant, PTL

-----------------------------------------------------------------------------
(* Whoever may still send has attempts left; who leads waits for nobody; who
   is through, and whom it shared with, has an answer that stays. *)
AttemptsLeft ==
    \A a \in Asker : mbPc[a] \in {"look", "register", "slot", "sleep", "pause"} => mbTries[a] < Attempts

AnswersLast ==
    \A a \in Asker :
        /\ mbPc[a] \notin {"wait", "done"} => sharedWith[a] = a
        /\ mbPc[a] \in {"store", "close"} => mbAnswer[a] # "none"
        /\ mbPc[a] = "done" => mbPc[sharedWith[a]] = "done"

MbInv ==
    /\ MbTypeOK /\ AttemptsLeft
    /\ OneLookupEach
    /\ RequestsAreSpaced /\ PauseIsKept
    /\ SharedAlike /\ AnswersLast

(* The later of two times. *)
LEMMA LatestOf ==
    ASSUME NEW x \in Nat, NEW y \in Nat
    PROVE  /\ Latest(x, y) \in Nat /\ Latest(x, y) >= x /\ Latest(x, y) >= y
           /\ Latest(x, y) = x \/ Latest(x, y) = y
  BY DEF Latest

(* A slot comes after every slot that was given and after the pause.        *)
LEMMA SlotIsFree ==
    ASSUME MbTypeOK
    PROVE  ReadyAt \in Nat /\ ReadyAt >= nextRequest /\ ReadyAt >= blockedTill /\ ReadyAt >= mbNow
<1> DEFINE x == Latest(nextRequest, blockedTill)
<1>1. x \in Nat /\ x >= nextRequest /\ x >= blockedTill
  BY LatestOf DEF MbTypeOK
<1>2. nextRequest \in Nat /\ blockedTill \in Nat /\ mbNow \in Nat
  BY DEF MbTypeOK
<1>3. Latest(x, mbNow) \in Nat /\ Latest(x, mbNow) >= x /\ Latest(x, mbNow) >= mbNow
  <2> HIDE DEF x
  <2>. QED BY <1>1, <1>2, LatestOf
<1>. QED BY <1>1, <1>2, <1>3 DEF ReadyAt

(* A 503 moves both times forward, the next slot as far as the pause.       *)
LEMMA PushedForward ==
    ASSUME MbTypeOK
    PROVE  /\ BlockedUntil \in Nat /\ PushedBack \in Nat
           /\ PushedBack >= nextRequest /\ PushedBack >= BlockedUntil
<1>1. BlockedUntil \in Nat
  <2>1. mbNow + Cooldown \in Nat /\ blockedTill \in Nat
    BY MusicBrainzAssumption DEF MbTypeOK
  <2>. QED BY <2>1, LatestOf DEF BlockedUntil
<1>. QED BY <1>1, LatestOf DEF MbTypeOK, PushedBack
-----------------------------------------------------------------------------
(* Every variable keeps its type, and the attempts stay within their number. *)
LEMMA MbTypeStep == MbTypeOK /\ AttemptsLeft /\ [MbNext]_mbVars => (MbTypeOK /\ AttemptsLeft)'
<1> SUFFICES ASSUME MbTypeOK, AttemptsLeft, [MbNext]_mbVars PROVE (MbTypeOK /\ AttemptsLeft)'
  OBVIOUS
<1>1. ASSUME NEW a \in Asker, LookInCache(a) PROVE (MbTypeOK /\ AttemptsLeft)'
  BY <1>1 DEF LookInCache, AskerAt, AnswerIs, MbTypeOK, MbPcs, MbAnswers, mbSlots, AttemptsLeft
<1>2. ASSUME NEW a \in Asker, Register(a) PROVE (MbTypeOK /\ AttemptsLeft)'
  BY <1>2 DEF Register, AskerAt, LookupOf, MbTypeOK, MbPcs, mbSlots, AttemptsLeft
<1>3. ASSUME NEW a \in Asker, TakeSlot(a) PROVE (MbTypeOK /\ AttemptsLeft)'
  BY <1>3, SlotIsFree, MusicBrainzAssumption DEF TakeSlot, AskerAt, MbTypeOK, MbPcs, AttemptsLeft
<1>4. ASSUME NEW a \in Asker, SendRequest(a) PROVE (MbTypeOK /\ AttemptsLeft)'
  BY <1>4, MusicBrainzAssumption DEF SendRequest, AskerAt, MbTypeOK, MbPcs, mbSlots, AttemptsLeft
<1>5. ASSUME NEW a \in Asker, GotGenre(a) PROVE (MbTypeOK /\ AttemptsLeft)'
  BY <1>5 DEF GotGenre, AskerAt, AnswerIs, MbTypeOK, MbPcs, MbAnswers, mbSlots, AttemptsLeft
<1>6. ASSUME NEW a \in Asker, GotNothing(a) PROVE (MbTypeOK /\ AttemptsLeft)'
  BY <1>6 DEF GotNothing, AskerAt, AnswerIs, MbTypeOK, MbPcs, MbAnswers, mbSlots, AttemptsLeft
<1>7. ASSUME NEW a \in Asker, GotTrouble(a) PROVE (MbTypeOK /\ AttemptsLeft)'
  <2>1. mbNow + RetryWait \in Nat
    BY MusicBrainzAssumption DEF MbTypeOK
  <2>2. nextRequest' \in Nat /\ blockedTill' \in Nat
    BY <1>7, PushedForward DEF GotTrouble, MbTypeOK, mbSlots
  <2>3. /\ mbPc' \in [Asker -> MbPcs] /\ slotAt' \in [Asker -> Nat]
        /\ mbAnswer' \in [Asker -> MbAnswers \cup {"none"}]
    BY <1>7, <2>1 DEF GotTrouble, AskerAt, AnswerIs, MbTypeOK, MbPcs, MbAnswers
  <2>4. AttemptsLeft'
    BY <1>7 DEF GotTrouble, AskerAt, MbTypeOK, MayRetry, AttemptsLeft
  <2>. QED BY <1>7, <2>2, <2>3, <2>4 DEF GotTrouble, MbTypeOK
<1>8. ASSUME NEW a \in Asker, TryAgain(a) PROVE (MbTypeOK /\ AttemptsLeft)'
  BY <1>8 DEF TryAgain, AskerAt, AnswerIs, MbTypeOK, MbPcs, MbAnswers, mbSlots, AttemptsLeft
<1>9. ASSUME NEW a \in Asker, StoreGenre(a) PROVE (MbTypeOK /\ AttemptsLeft)'
  BY <1>9, MusicBrainzAssumption DEF StoreGenre, AskerAt, MbTypeOK, MbPcs, mbSlots, AttemptsLeft
<1>10. ASSUME NEW a \in Asker, CloseLookup(a) PROVE (MbTypeOK /\ AttemptsLeft)'
  BY <1>10 DEF CloseLookup, Waiting, MbTypeOK, MbPcs, MbAnswers, mbSlots, AttemptsLeft
<1>11. ASSUME NEW online \in BOOLEAN, CheckStatus(online) PROVE (MbTypeOK /\ AttemptsLeft)'
  BY <1>11 DEF CheckStatus, mbSlots, Never, MbTypeOK, AttemptsLeft
<1>12. CASE Tick
  BY <1>12 DEF Tick, mbSlots, Never, MbTypeOK, AttemptsLeft
<1>13. CASE UNCHANGED mbVars
  BY <1>13 DEF mbVars, mbSlots, mbSlots, Never, MbTypeOK, AttemptsLeft
<1>. QED
  BY <1>1, <1>2, <1>3, <1>4, <1>5, <1>6, <1>7, <1>8, <1>9, <1>10, <1>11, <1>12, <1>13 DEF MbNext

(* One lookup of a recording at a time: who finds none registered leads.    *)
LEMMA LookupStep == MbTypeOK /\ OneLookupEach /\ [MbNext]_mbVars => OneLookupEach'
<1> SUFFICES ASSUME MbTypeOK, OneLookupEach, [MbNext]_mbVars PROVE OneLookupEach'
  OBVIOUS
<1>1. ASSUME NEW a \in Asker, LookInCache(a) PROVE OneLookupEach'
  BY <1>1 DEF LookInCache, AskerAt, MbTypeOK, OneLookupEach, Leading
<1>2. ASSUME NEW a \in Asker, Register(a) PROVE OneLookupEach'
  BY <1>2 DEF Register, AskerAt, LookupOf, MbTypeOK, OneLookupEach, Leading
<1>3. ASSUME NEW a \in Asker, TakeSlot(a) PROVE OneLookupEach'
  BY <1>3 DEF TakeSlot, AskerAt, MbTypeOK, OneLookupEach, Leading
<1>4. ASSUME NEW a \in Asker, SendRequest(a) PROVE OneLookupEach'
  BY <1>4 DEF SendRequest, AskerAt, MbTypeOK, OneLookupEach, Leading
<1>5. ASSUME NEW a \in Asker, GotGenre(a) PROVE OneLookupEach'
  BY <1>5 DEF GotGenre, AskerAt, MbTypeOK, OneLookupEach, Leading
<1>6. ASSUME NEW a \in Asker, GotNothing(a) PROVE OneLookupEach'
  BY <1>6 DEF GotNothing, AskerAt, MbTypeOK, OneLookupEach, Leading
<1>7. ASSUME NEW a \in Asker, GotTrouble(a) PROVE OneLookupEach'
  BY <1>7 DEF GotTrouble, AskerAt, MbTypeOK, OneLookupEach, Leading
<1>8. ASSUME NEW a \in Asker, TryAgain(a) PROVE OneLookupEach'
  BY <1>8 DEF TryAgain, AskerAt, MbTypeOK, OneLookupEach, Leading
<1>9. ASSUME NEW a \in Asker, StoreGenre(a) PROVE OneLookupEach'
  BY <1>9 DEF StoreGenre, AskerAt, MbTypeOK, OneLookupEach, Leading
<1>10. ASSUME NEW a \in Asker, CloseLookup(a) PROVE OneLookupEach'
  BY <1>10 DEF CloseLookup, Waiting, MbTypeOK, OneLookupEach, Leading
<1>11. ASSUME NEW online \in BOOLEAN, CheckStatus(online) PROVE OneLookupEach'
  BY <1>11 DEF CheckStatus, OneLookupEach, Leading
<1>12. CASE Tick
  BY <1>12 DEF Tick, OneLookupEach, Leading
<1>13. CASE UNCHANGED mbVars
  BY <1>13 DEF mbVars, mbSlots, OneLookupEach, Leading
<1>. QED
  BY <1>1, <1>2, <1>3, <1>4, <1>5, <1>6, <1>7, <1>8, <1>9, <1>10, <1>11, <1>12, <1>13 DEF MbNext

(* Slots stay an interval apart, and behind the pause.                      *)
LEMMA SlotStep == MbTypeOK /\ RequestsAreSpaced /\ PauseIsKept /\ [MbNext]_mbVars =>
  (RequestsAreSpaced /\ PauseIsKept)'
<1> SUFFICES ASSUME MbTypeOK, RequestsAreSpaced, PauseIsKept, [MbNext]_mbVars
             PROVE  (RequestsAreSpaced /\ PauseIsKept)'
  OBVIOUS
<1>1. ASSUME NEW a \in Asker, LookInCache(a) PROVE (RequestsAreSpaced /\ PauseIsKept)'
  BY <1>1 DEF LookInCache, AskerAt, MbTypeOK, mbSlots, RequestsAreSpaced, PauseIsKept, Sleeping
<1>2. ASSUME NEW a \in Asker, Register(a) PROVE (RequestsAreSpaced /\ PauseIsKept)'
  BY <1>2 DEF Register, AskerAt, MbTypeOK, mbSlots, RequestsAreSpaced, PauseIsKept, Sleeping
<1>3. ASSUME NEW a \in Asker, TakeSlot(a) PROVE (RequestsAreSpaced /\ PauseIsKept)'
  <2> DEFINE t == ReadyAt
  <2>1. t \in Nat /\ t >= nextRequest /\ t >= blockedTill /\ Interval \in Nat
    BY SlotIsFree, MusicBrainzAssumption
  <2>2. /\ slotAt' = [slotAt EXCEPT ![a] = t] /\ nextRequest' = t + Interval
        /\ blockedTill' = blockedTill /\ Sleeping' = Sleeping \cup {a} /\ a \notin Sleeping
    BY <1>3 DEF TakeSlot, AskerAt, MbTypeOK, Sleeping
  <2>3. \A b \in Sleeping : b \in Asker /\ b # a /\ slotAt'[b] = slotAt[b] /\ slotAt[b] \in Nat
    BY <2>2 DEF Sleeping, MbTypeOK
  <2>4. slotAt'[a] = t
    BY <2>2 DEF MbTypeOK
  <2>5. \A b \in Sleeping : slotAt[b] + Interval <= t
    BY <2>1, <2>3 DEF RequestsAreSpaced, MbTypeOK
  <2>6. RequestsAreSpaced'
    <3> HIDE DEF t
    <3>1. \A b \in Sleeping' : slotAt'[b] + Interval <= nextRequest'
      BY <2>1, <2>2, <2>3, <2>4, <2>5
    <3>2. \A b, c \in Sleeping : b # c => \/ slotAt'[b] + Interval <= slotAt'[c]
                                         \/ slotAt'[c] + Interval <= slotAt'[b]
      BY <2>3 DEF RequestsAreSpaced
    <3>. QED BY <2>2, <2>3, <2>4, <2>5, <3>1, <3>2 DEF RequestsAreSpaced
  <2>7. PauseIsKept'
    BY <2>1, <2>2 DEF PauseIsKept, MbTypeOK
  <2>. QED BY <2>6, <2>7
<1>4. ASSUME NEW a \in Asker, SendRequest(a) PROVE (RequestsAreSpaced /\ PauseIsKept)'
  BY <1>4 DEF SendRequest, AskerAt, MbTypeOK, mbSlots, RequestsAreSpaced, PauseIsKept, Sleeping
<1>5. ASSUME NEW a \in Asker, GotGenre(a) PROVE (RequestsAreSpaced /\ PauseIsKept)'
  BY <1>5 DEF GotGenre, AskerAt, MbTypeOK, mbSlots, RequestsAreSpaced, PauseIsKept, Sleeping
<1>6. ASSUME NEW a \in Asker, GotNothing(a) PROVE (RequestsAreSpaced /\ PauseIsKept)'
  BY <1>6 DEF GotNothing, AskerAt, MbTypeOK, mbSlots, RequestsAreSpaced, PauseIsKept, Sleeping
<1>7. ASSUME NEW a \in Asker, GotTrouble(a) PROVE (RequestsAreSpaced /\ PauseIsKept)'
  <2>1. nextRequest' >= nextRequest /\ blockedTill' <= nextRequest'
    BY <1>7, PushedForward DEF GotTrouble, MbTypeOK, mbSlots, PauseIsKept
  <2>2. Sleeping' = Sleeping /\ \A b \in Sleeping : slotAt'[b] = slotAt[b] /\ slotAt[b] \in Nat
    BY <1>7 DEF GotTrouble, AskerAt, MbTypeOK, Sleeping
  <2>3. nextRequest \in Nat /\ nextRequest' \in Nat /\ Interval \in Nat
    BY <1>7, PushedForward, MusicBrainzAssumption DEF GotTrouble, MbTypeOK, mbSlots
  <2>. QED BY <2>1, <2>2, <2>3 DEF RequestsAreSpaced, PauseIsKept
<1>8. ASSUME NEW a \in Asker, TryAgain(a) PROVE (RequestsAreSpaced /\ PauseIsKept)'
  BY <1>8 DEF TryAgain, AskerAt, MbTypeOK, mbSlots, RequestsAreSpaced, PauseIsKept, Sleeping
<1>9. ASSUME NEW a \in Asker, StoreGenre(a) PROVE (RequestsAreSpaced /\ PauseIsKept)'
  BY <1>9 DEF StoreGenre, AskerAt, MbTypeOK, mbSlots, RequestsAreSpaced, PauseIsKept, Sleeping
<1>10. ASSUME NEW a \in Asker, CloseLookup(a) PROVE (RequestsAreSpaced /\ PauseIsKept)'
  BY <1>10 DEF CloseLookup, Waiting, MbTypeOK, mbSlots, RequestsAreSpaced, PauseIsKept, Sleeping
<1>11. ASSUME NEW online \in BOOLEAN, CheckStatus(online) PROVE (RequestsAreSpaced /\ PauseIsKept)'
  BY <1>11 DEF CheckStatus, mbSlots, RequestsAreSpaced, PauseIsKept, Sleeping
<1>12. CASE Tick
  BY <1>12 DEF Tick, mbSlots, RequestsAreSpaced, PauseIsKept, Sleeping
<1>13. CASE UNCHANGED mbVars
  BY <1>13 DEF mbVars, mbSlots, mbSlots, RequestsAreSpaced, PauseIsKept, Sleeping
<1>. QED
  BY <1>1, <1>2, <1>3, <1>4, <1>5, <1>6, <1>7, <1>8, <1>9, <1>10, <1>11, <1>12, <1>13 DEF MbNext

(* Who waits, waits for a lookup that runs, and ends with its answer.       *)
LEMMA ShareStep == MbInv /\ [MbNext]_mbVars => (SharedAlike /\ AnswersLast)'
<1> SUFFICES ASSUME MbInv, [MbNext]_mbVars PROVE (SharedAlike /\ AnswersLast)'
  OBVIOUS
<1>1. ASSUME NEW a \in Asker, LookInCache(a) PROVE (SharedAlike /\ AnswersLast)'
  BY <1>1 DEF LookInCache, AskerAt, AnswerIs, MbInv, MbTypeOK, SharedAlike, AnswersLast, Leading
<1>2. ASSUME NEW a \in Asker, Register(a) PROVE (SharedAlike /\ AnswersLast)'
  BY <1>2 DEF Register, AskerAt, LookupOf, MbInv, MbTypeOK, OneLookupEach, SharedAlike,
         AnswersLast, Leading
<1>3. ASSUME NEW a \in Asker, TakeSlot(a) PROVE (SharedAlike /\ AnswersLast)'
  BY <1>3 DEF TakeSlot, AskerAt, AnswerIs, MbInv, MbTypeOK, SharedAlike, AnswersLast, Leading
<1>4. ASSUME NEW a \in Asker, SendRequest(a) PROVE (SharedAlike /\ AnswersLast)'
  BY <1>4 DEF SendRequest, AskerAt, AnswerIs, MbInv, MbTypeOK, SharedAlike, AnswersLast, Leading
<1>5. ASSUME NEW a \in Asker, GotGenre(a) PROVE (SharedAlike /\ AnswersLast)'
  BY <1>5 DEF GotGenre, AskerAt, AnswerIs, MbInv, MbTypeOK, SharedAlike, AnswersLast, Leading
<1>6. ASSUME NEW a \in Asker, GotNothing(a) PROVE (SharedAlike /\ AnswersLast)'
  BY <1>6 DEF GotNothing, AskerAt, AnswerIs, MbInv, MbTypeOK, SharedAlike, AnswersLast, Leading
<1>7. ASSUME NEW a \in Asker, GotTrouble(a) PROVE (SharedAlike /\ AnswersLast)'
  BY <1>7 DEF GotTrouble, AskerAt, AnswerIs, MbInv, MbTypeOK, SharedAlike, AnswersLast, Leading
<1>8. ASSUME NEW a \in Asker, TryAgain(a) PROVE (SharedAlike /\ AnswersLast)'
  BY <1>8 DEF TryAgain, AskerAt, AnswerIs, MbInv, MbTypeOK, SharedAlike, AnswersLast, Leading
<1>9. ASSUME NEW a \in Asker, StoreGenre(a) PROVE (SharedAlike /\ AnswersLast)'
  BY <1>9 DEF StoreGenre, AskerAt, AnswerIs, MbInv, MbTypeOK, SharedAlike, AnswersLast, Leading
<1>10. ASSUME NEW a \in Asker, CloseLookup(a) PROVE (SharedAlike /\ AnswersLast)'
  <2>1. /\ mbPc[a] = "close" /\ UNCHANGED sharedWith
        /\ \A b \in Asker : /\ mbPc'[b] = IF b = a \/ b \in Waiting(a) THEN "done" ELSE mbPc[b]
                            /\ mbAnswer'[b] = IF b \in Waiting(a) THEN mbAnswer[a] ELSE mbAnswer[b]
    BY <1>10 DEF CloseLookup
  <2>2. /\ a \notin Waiting(a) /\ sharedWith[a] = a /\ mbAnswer[a] # "none"
        /\ \A b \in Waiting(a) : b \in Asker /\ mbPc[b] = "wait" /\ sharedWith[b] = a
    BY <2>1 DEF Waiting, MbInv, AnswersLast
  <2>3. \A b \in Asker : sharedWith[b] \in Asker
    BY DEF MbInv, MbTypeOK
  <2>4. AnswersLast'
    BY <2>1, <2>2, <2>3 DEF MbInv, AnswersLast
  <2>5. ASSUME NEW b \in Asker, mbPc'[b] = "wait" PROVE sharedWith[b] \in Leading'
    <3>1. mbPc[b] = "wait" /\ b \notin Waiting(a) /\ sharedWith[b] # a
      BY <2>1, <2>5 DEF Waiting
    <3>2. sharedWith[b] \in Leading
      BY <3>1 DEF MbInv, SharedAlike
    <3>. QED BY <2>1, <2>2, <2>3, <3>1, <3>2 DEF Leading
  <2>6. ASSUME NEW b \in Asker, mbPc'[b] = "done"
        PROVE  mbAnswer'[b] = mbAnswer'[sharedWith[b]] /\ mbAnswer'[b] # "none"
    <3>1. CASE b = a \/ b \in Waiting(a)
      BY <2>1, <2>2, <3>1
    <3>2. CASE b # a /\ b \notin Waiting(a)
      <4>1. mbPc[b] = "done" /\ mbPc[sharedWith[b]] = "done"
        BY <2>1, <2>6, <3>2 DEF MbInv, AnswersLast
      <4>2. sharedWith[b] \notin Waiting(a) /\ mbAnswer[b] = mbAnswer[sharedWith[b]] /\ mbAnswer[b] # "none"
        BY <2>2, <4>1 DEF MbInv, SharedAlike
      <4>. QED BY <2>1, <2>3, <3>2, <4>2
    <3>. QED BY <3>1, <3>2
  <2>. QED BY <2>1, <2>4, <2>5, <2>6 DEF SharedAlike
<1>11. ASSUME NEW online \in BOOLEAN, CheckStatus(online) PROVE (SharedAlike /\ AnswersLast)'
  BY <1>11 DEF CheckStatus, MbInv, SharedAlike, AnswersLast, Leading
<1>12. CASE Tick
  BY <1>12 DEF Tick, MbInv, SharedAlike, AnswersLast, Leading
<1>13. CASE UNCHANGED mbVars
  BY <1>13 DEF mbVars, mbSlots, MbInv, SharedAlike, AnswersLast, Leading
<1>. QED
  BY <1>1, <1>2, <1>3, <1>4, <1>5, <1>6, <1>7, <1>8, <1>9, <1>10, <1>11, <1>12, <1>13 DEF MbNext
-----------------------------------------------------------------------------
(* The inductive invariant of the lookups: types and attempts, who leads and
   who waits, the slots and the pause. *)
THEOREM MbInvariant == MbSpec => []MbInv
<1>1. MbInit => MbInv
  <2> SUFFICES ASSUME MbInit PROVE MbInv
    OBVIOUS
  <2>1. MbTypeOK /\ AttemptsLeft
    BY MusicBrainzAssumption DEF MbInit, MbTypeOK, MbPcs, Never, AttemptsLeft
  <2>2. OneLookupEach /\ RequestsAreSpaced /\ PauseIsKept
    BY DEF MbInit, OneLookupEach, RequestsAreSpaced, PauseIsKept, Leading, Sleeping
  <2>3. SharedAlike /\ AnswersLast
    BY DEF MbInit, SharedAlike, AnswersLast
  <2>. QED BY <2>1, <2>2, <2>3 DEF MbInv
<1>2. MbInv /\ [MbNext]_mbVars => MbInv'
  BY MbTypeStep, LookupStep, SlotStep, ShareStep DEF MbInv
<1>. QED BY <1>1, <1>2, PTL DEF MbSpec

(* Every variable of the lookups keeps its type (MusicBrainz's MbTypeOK).   *)
THEOREM MbTypeCorrect == MbSpec => []MbTypeOK
<1>1. MbInv => MbTypeOK
  BY DEF MbInv
<1>. QED BY <1>1, MbInvariant, PTL

(* FetchMusicBrainzMetadata asks for a recording once at a time, and what it
   has registered is what runs. *)
THEOREM LookedUpOneByOne == MbSpec => []OneLookupEach
<1>1. MbInv => OneLookupEach
  BY DEF MbInv
<1>. QED BY <1>1, MbInvariant, PTL

(* waitForMusicBrainzRequestSlot gives slots an interval apart, whoever asks
   and whatever pushed them back. *)
THEOREM SlotsApart == MbSpec => []RequestsAreSpaced
<1>1. MbInv => RequestsAreSpaced
  BY DEF MbInv
<1>. QED BY <1>1, MbInvariant, PTL

(* No slot is given within the pause a 503 asked for. *)
THEOREM PauseHeeded == MbSpec => []PauseIsKept
<1>1. MbInv => PauseIsKept
  BY DEF MbInv
<1>. QED BY <1>1, MbInvariant, PTL

(* Nobody waits for a lookup that is over, and all who shared it have its
   answer. *)
THEOREM AnswersShared == MbSpec => []SharedAlike
<1>1. MbInv => SharedAlike
  BY DEF MbInv
<1>. QED BY <1>1, MbInvariant, PTL

(* All of it together, the property the run checks of the shared, spaced
   lookups. *)
THEOREM LookupsCorrect == MbSpec => []LookupsAreShared
<1>1. MbInv => LookupsAreShared
  BY DEF MbInv, LookupsAreShared
<1>. QED BY <1>1, MbInvariant, PTL

-----------------------------------------------------------------------------
(* Tokens are numbered from 1; nobody holds or was refused one that was not
   made, and who is about to send one has a newer one than was refused. *)
TokensAreNumbered ==
    /\ tokenFile.token <= tokensMade /\ (tokenFile.state = "whole" => tokenFile.token > 0)
    /\ \A c \in Caller : /\ heldToken[c] <= tokensMade /\ refused[c] <= tokensMade
                         /\ idPc[c] \in {"save", "saving", "ask"} => heldToken[c] > refused[c]

(* What the cache has told is still with the caller and in the cache; without
   the metadata nobody knows an ISRC but from the cache; nothing is taken out
   of it. *)
CacheIsKept ==
    \A c \in Caller :
        /\ hadISRC[c] => isrcCache /\ (cacheFailed[c] \/ found[c].isrc)
        /\ found[c].isrc /\ idFor[c] = "track" => isrcCache

FaultsAreCounted == idFaults \in Nat /\ idCrashes \in Nat /\ isrcCache \in BOOLEAN /\
  hadISRC \in [Caller -> BOOLEAN]

IdInv ==
    /\ IdTypeOK /\ FaultsAreCounted
    /\ TokensAreNumbered
    /\ TornByFaultsOnly
    /\ CacheIsKept /\ KnownStaysKnown

(* Where a caller goes on after a request that failed.                      *)
LEMMA GivenUpIs ==
    ASSUME NEW c \in Caller
    PROVE  GivenUp(c) \in {"given", "failed"} /\ (GivenUp(c) = "failed" => ~found[c].isrc)
  BY DEF GivenUp
-----------------------------------------------------------------------------
(* Every variable keeps its type, and the mutex its owner.                  *)
LEMMA IdTypeStep == IdTypeOK /\ FaultsAreCounted /\ [IdNext]_idVars => (IdTypeOK /\ FaultsAreCounted)'
<1> SUFFICES ASSUME IdTypeOK, FaultsAreCounted, [IdNext]_idVars PROVE (IdTypeOK /\ FaultsAreCounted)'
  OBVIOUS
<1>1. ASSUME NEW c \in Caller, AskForIds(c) PROVE (IdTypeOK /\ FaultsAreCounted)'
  <2>1. found' \in [Caller -> [isrc : BOOLEAN, upc : BOOLEAN]]
    <3>1. \E known \in BOOLEAN : CacheRead(c, known)
      BY <1>1, Zenon DEF AskForIds, FaultsAreCounted
    <3>. QED BY <3>1 DEF CacheRead, IdTypeOK
  <2>2. cacheFailed' \in [Caller -> BOOLEAN]
    <3>1. \E failed \in BOOLEAN : CacheFails(c, failed)
      BY <1>1, Zenon DEF AskForIds
    <3>. QED BY <3>1 DEF CacheFails, IdTypeOK
  <2>5. idFaults' \in Nat
    <3>1. idFaults' = idFaults \/ idFaults' = idFaults + 1
      BY <1>1, Zenon DEF AskForIds, FaultyAnswer
    <3>. QED BY <3>1 DEF FaultsAreCounted
  <2>6. hadISRC' \in [Caller -> BOOLEAN]
    <3>1. hadISRC' = [hadISRC EXCEPT ![c] = isrcCache]
      BY <1>1, Zenon DEF AskForIds
    <3>. QED BY <3>1 DEF FaultsAreCounted
  <2>7. FaultsAreCounted'
    BY <1>1, <2>5, <2>6, Zenon DEF AskForIds, FaultsAreCounted
  <2>3. idPc' \in [Caller -> IdPcs] /\ \A d \in Caller : idPc'[d] \in {"request", "save", "saving"} <=> idLock' = d
    BY <1>1 DEF AskForIds, CallerAt, IdTypeOK, IdPcs
  <2>4. idFor' \in [Caller -> {"track", "album"}] /\ refused' \in [Caller -> 0..MaxTokens]
    BY <1>1, TrackIdsAssumption DEF AskForIds, IdTypeOK
  <2>. QED BY <1>1, <2>1, <2>2, <2>3, <2>4, <2>7 DEF AskForIds, IdTypeOK
<1>2. ASSUME NEW c \in Caller, LoadToken(c) PROVE (IdTypeOK /\ FaultsAreCounted)'
  BY <1>2, GivenUpIs, TrackIdsAssumption, SMTT(30)
      DEF LoadToken, CallerAt, FaultyAnswer, Untroubled,
         idBounds, IdTypeOK, FaultsAreCounted, IdPcs, FileStates, NoCaller
<1>3. ASSUME NEW c \in Caller, RequestToken(c) PROVE (IdTypeOK /\ FaultsAreCounted)'
  <2>1. GivenUp(c) \in {"given", "failed"}
    BY GivenUpIs
  <2>2. idPc' \in [Caller -> IdPcs] /\ FaultsAreCounted'
    BY <1>3, <2>1, SMTT(30)
      DEF RequestToken, CallerAt, FaultyAnswer, IdTypeOK, IdPcs, FaultsAreCounted
  <2>3. tokensMade' \in 0..MaxTokens /\ heldToken' \in [Caller -> 0..MaxTokens]
    BY <1>3, TrackIdsAssumption DEF RequestToken, IdTypeOK
  <2>4. \A d \in Caller : idPc'[d] \in {"request", "save", "saving"} <=> idLock' = d
    BY <1>3, <2>1, TrackIdsAssumption DEF RequestToken, CallerAt, IdTypeOK, NoCaller
  <2>. QED BY <1>3, <2>2, <2>3, <2>4 DEF RequestToken, IdTypeOK
<1>4. ASSUME NEW c \in Caller, OpenTokenFile(c) PROVE (IdTypeOK /\ FaultsAreCounted)'
  BY <1>4, GivenUpIs, TrackIdsAssumption DEF OpenTokenFile, CallerAt, FaultyAnswer, Untroubled,
         idBounds, IdTypeOK, FaultsAreCounted, IdPcs, FileStates, NoCaller
<1>5. ASSUME NEW c \in Caller, WriteTokenFile(c) PROVE (IdTypeOK /\ FaultsAreCounted)'
  <2>1. GivenUp(c) \in {"given", "failed"}
    BY GivenUpIs
  <2>2. idPc' \in [Caller -> IdPcs] /\ FaultsAreCounted'
    <3>1. \E x \in {"ask", "given", "failed"} : idPc' = [idPc EXCEPT ![c] = x]
      BY <1>5, <2>1 DEF WriteTokenFile, CallerAt
    <3>2. idPc' \in [Caller -> IdPcs]
      BY <3>1 DEF IdTypeOK, IdPcs
    <3>3. FaultsAreCounted'
      BY <1>5 DEF WriteTokenFile, FaultyAnswer, FaultsAreCounted
    <3>. QED BY <3>2, <3>3
  <2>3. tokenFile' \in [state : FileStates, token : 0..MaxTokens, expired : BOOLEAN]
    <3>1. [state |-> "whole", token |-> heldToken[c], expired |-> FALSE]
             \in [state : FileStates, token : 0..MaxTokens, expired : BOOLEAN]
      BY DEF IdTypeOK, FileStates
    <3>. QED BY <1>5, <3>1 DEF WriteTokenFile, IdTypeOK
  <2>4. \A d \in Caller : idPc'[d] \in {"request", "save", "saving"} <=> idLock' = d
    BY <1>5, <2>1, TrackIdsAssumption DEF WriteTokenFile, CallerAt, IdTypeOK, NoCaller
  <2>. QED BY <1>5, <2>2, <2>3, <2>4 DEF WriteTokenFile, IdTypeOK
<1>6. ASSUME NEW c \in Caller, AskSpotify(c) PROVE (IdTypeOK /\ FaultsAreCounted)'
  <2>1. GivenUp(c) \in {"given", "failed"}
    BY GivenUpIs
  <2>2. idPc' \in [Caller -> IdPcs] /\ FaultsAreCounted'
    <3>1. idPc' \in [Caller -> IdPcs]
      BY <1>6, <2>1 DEF AskSpotify, CallerAt, FaultyAnswer, IdTypeOK, IdPcs
    <3>2. FaultsAreCounted'
      BY <1>6 DEF AskSpotify, CallerAt, FaultyAnswer, FaultsAreCounted
    <3>. QED BY <3>1, <3>2
  <2>3. idFor' \in [Caller -> {"track", "album"}] /\ refused' \in [Caller -> 0..MaxTokens]
    BY <1>6, TrackIdsAssumption DEF AskSpotify, IdTypeOK
  <2>4. found' \in [Caller -> [isrc : BOOLEAN, upc : BOOLEAN]]
    <3> DEFINE both == found[c].isrc \/ TracksISRC
               known == found[c].isrc
    <3>1. both \in BOOLEAN /\ known \in BOOLEAN
      BY DEF IdTypeOK
    <3>2. \/ found' = found
          \/ found' = [found EXCEPT ![c] = [isrc |-> both, upc |-> FALSE]]
          \/ found' = [found EXCEPT ![c] = [isrc |-> known, upc |-> TRUE]]
      BY <1>6 DEF AskSpotify
    <3>3. found \in [Caller -> [isrc : BOOLEAN, upc : BOOLEAN]]
      BY DEF IdTypeOK
    <3> HIDE DEF both, known
    <3>4. /\ [isrc |-> both, upc |-> FALSE] \in [isrc : BOOLEAN, upc : BOOLEAN]
          /\ [isrc |-> known, upc |-> TRUE] \in [isrc : BOOLEAN, upc : BOOLEAN]
      BY <3>1
    <3>. QED BY <3>2, <3>3, <3>4
  <2>5. \A d \in Caller : idPc'[d] \in {"request", "save", "saving"} <=> idLock' = d
    BY <1>6, <2>1, TrackIdsAssumption DEF AskSpotify, CallerAt, IdTypeOK
  <2>. QED BY <1>6, <2>2, <2>3, <2>4, <2>5 DEF AskSpotify, IdTypeOK
<1>7. ASSUME NEW c \in Caller, GiveIds(c) PROVE (IdTypeOK /\ FaultsAreCounted)'
  <2>1. CallerAt(c, "done") \/ CallerAt(c, "failed")
    BY <1>7 DEF GiveIds
  <2>2. idPc' \in [Caller -> IdPcs] /\ \A d \in Caller : idPc'[d] \in {"request", "save", "saving"} <=> idLock' = d
    BY <1>7, <2>1 DEF GiveIds, CallerAt, IdTypeOK, IdPcs
  <2>3. cacheFailed' \in [Caller -> BOOLEAN]
    BY <1>7 DEF GiveIds, CacheFails, IdTypeOK
  <2>4. idFaults' \in Nat
    <3>1. idFaults' = idFaults \/ idFaults' = idFaults + 1
      BY <1>7, Zenon DEF GiveIds, FaultyAnswer
    <3>. QED BY <3>1 DEF FaultsAreCounted
  <2>5. isrcCache' \in BOOLEAN
    <3>1. isrcCache' = isrcCache \/ isrcCache' = (isrcCache \/ Caches(c))
      BY <1>7, Zenon DEF GiveIds
    <3>. QED BY <3>1 DEF FaultsAreCounted
  <2>6. FaultsAreCounted'
    BY <1>7, <2>4, <2>5, Zenon DEF GiveIds, FaultsAreCounted
  <2>. QED BY <1>7, <2>2, <2>3, <2>6 DEF GiveIds, IdTypeOK
<1>8. ASSUME NEW c \in Caller, AskAgain(c) PROVE (IdTypeOK /\ FaultsAreCounted)'
  BY <1>8, GivenUpIs, TrackIdsAssumption DEF AskAgain, CallerAt, FaultyAnswer, Untroubled,
         idBounds, IdTypeOK, FaultsAreCounted, IdPcs, FileStates, NoCaller
<1>9. CASE TokenExpires
  BY <1>9, TrackIdsAssumption DEF TokenExpires, idBounds, IdTypeOK, FaultsAreCounted, FileStates
<1>10. CASE Refuse
  BY <1>10, TrackIdsAssumption DEF Refuse, idBounds, IdTypeOK, FaultsAreCounted, FileStates
<1>11. CASE Restart
  BY <1>11, TrackIdsAssumption DEF Restart, Untroubled, NothingFound, IdTypeOK, FaultsAreCounted,
         IdPcs, NoCaller
<1>12. CASE UNCHANGED idVars
  BY <1>12, TrackIdsAssumption DEF idVars, idBounds, IdTypeOK, FaultsAreCounted, FileStates
<1>. QED BY <1>1, <1>2, <1>3, <1>4, <1>5, <1>6, <1>7, <1>8, <1>9, <1>10, <1>11, <1>12 DEF IdNext

(* A token that is sent is newer than the one that was refused.            *)
LEMMA TokenStep == IdTypeOK /\ TokensAreNumbered /\ [IdNext]_idVars => TokensAreNumbered'
<1> SUFFICES ASSUME IdTypeOK, TokensAreNumbered, [IdNext]_idVars PROVE TokensAreNumbered'
  OBVIOUS
<1>1. ASSUME NEW c \in Caller, AskForIds(c) PROVE TokensAreNumbered'
  BY <1>1, GivenUpIs, TrackIdsAssumption DEF AskForIds, CacheRead, CacheFails, CallerAt, FaultyAnswer, Untroubled,
         idBounds, IdTypeOK, TokensAreNumbered, TokenIsGood, Loads
<1>2. ASSUME NEW c \in Caller, LoadToken(c) PROVE TokensAreNumbered'
  BY <1>2, GivenUpIs, TrackIdsAssumption DEF LoadToken, CallerAt, FaultyAnswer, Untroubled,
         idBounds, IdTypeOK, TokensAreNumbered, TokenIsGood, Loads
<1>3. ASSUME NEW c \in Caller, RequestToken(c) PROVE TokensAreNumbered'
  BY <1>3, GivenUpIs, TrackIdsAssumption DEF RequestToken, CallerAt, FaultyAnswer, Untroubled,
         idBounds, IdTypeOK, TokensAreNumbered, TokenIsGood, Loads
<1>4. ASSUME NEW c \in Caller, OpenTokenFile(c) PROVE TokensAreNumbered'
  BY <1>4, GivenUpIs, TrackIdsAssumption DEF OpenTokenFile, CallerAt, FaultyAnswer, Untroubled,
         idBounds, IdTypeOK, TokensAreNumbered, TokenIsGood, Loads
<1>5. ASSUME NEW c \in Caller, WriteTokenFile(c) PROVE TokensAreNumbered'
  BY <1>5, GivenUpIs, TrackIdsAssumption DEF WriteTokenFile, CallerAt, FaultyAnswer, Untroubled,
         idBounds, IdTypeOK, TokensAreNumbered, TokenIsGood, Loads
<1>6. ASSUME NEW c \in Caller, AskSpotify(c) PROVE TokensAreNumbered'
  BY <1>6, GivenUpIs, TrackIdsAssumption DEF AskSpotify, CallerAt, FaultyAnswer, Untroubled,
         idBounds, IdTypeOK, TokensAreNumbered, TokenIsGood, Loads
<1>7. ASSUME NEW c \in Caller, GiveIds(c) PROVE TokensAreNumbered'
  BY <1>7, GivenUpIs, TrackIdsAssumption DEF GiveIds, CacheFails, CallerAt, FaultyAnswer, Untroubled, idBounds,
         IdTypeOK, TokensAreNumbered, TokenIsGood, Loads
<1>8. ASSUME NEW c \in Caller, AskAgain(c) PROVE TokensAreNumbered'
  BY <1>8, GivenUpIs, TrackIdsAssumption DEF AskAgain, CallerAt, FaultyAnswer, Untroubled,
         idBounds, IdTypeOK, TokensAreNumbered, TokenIsGood, Loads
<1>9. CASE TokenExpires
  BY <1>9 DEF TokenExpires, idBounds, IdTypeOK, TokensAreNumbered
<1>10. CASE Refuse
  BY <1>10 DEF Refuse, idBounds, IdTypeOK, TokensAreNumbered
<1>11. CASE Restart
  BY <1>11 DEF Restart, IdTypeOK, TokensAreNumbered
<1>12. CASE UNCHANGED idVars
  BY <1>12 DEF idVars, idBounds, IdTypeOK, TokensAreNumbered
<1>. QED BY <1>1, <1>2, <1>3, <1>4, <1>5, <1>6, <1>7, <1>8, <1>9, <1>10, <1>11, <1>12 DEF IdNext

(* Who has opened the file writes it, unless a fault or a restart comes in. *)
LEMMA TornStep == IdTypeOK /\ FaultsAreCounted /\ TornByFaultsOnly /\ [IdNext]_idVars => TornByFaultsOnly'
<1> SUFFICES ASSUME IdTypeOK, FaultsAreCounted, TornByFaultsOnly, [IdNext]_idVars PROVE TornByFaultsOnly'
  OBVIOUS
<1>1. ASSUME NEW c \in Caller, AskForIds(c) PROVE TornByFaultsOnly'
  BY <1>1, GivenUpIs DEF AskForIds, CacheRead, CacheFails, CallerAt, FaultyAnswer, Untroubled, idBounds, IdTypeOK,
         FaultsAreCounted, TornByFaultsOnly
<1>2. ASSUME NEW c \in Caller, LoadToken(c) PROVE TornByFaultsOnly'
  BY <1>2, GivenUpIs DEF LoadToken, CallerAt, FaultyAnswer, Untroubled, idBounds, IdTypeOK,
         FaultsAreCounted, TornByFaultsOnly
<1>3. ASSUME NEW c \in Caller, RequestToken(c) PROVE TornByFaultsOnly'
  BY <1>3, GivenUpIs DEF RequestToken, CallerAt, FaultyAnswer, Untroubled, idBounds, IdTypeOK,
         FaultsAreCounted, TornByFaultsOnly
<1>4. ASSUME NEW c \in Caller, OpenTokenFile(c) PROVE TornByFaultsOnly'
  BY <1>4, GivenUpIs DEF OpenTokenFile, CallerAt, FaultyAnswer, Untroubled, idBounds, IdTypeOK,
         FaultsAreCounted, TornByFaultsOnly
<1>5. ASSUME NEW c \in Caller, WriteTokenFile(c) PROVE TornByFaultsOnly'
  BY <1>5, GivenUpIs DEF WriteTokenFile, CallerAt, FaultyAnswer, Untroubled, idBounds, IdTypeOK,
         FaultsAreCounted, TornByFaultsOnly
<1>6. ASSUME NEW c \in Caller, AskSpotify(c) PROVE TornByFaultsOnly'
  BY <1>6, GivenUpIs DEF AskSpotify, CallerAt, FaultyAnswer, Untroubled, idBounds, IdTypeOK,
         FaultsAreCounted, TornByFaultsOnly
<1>7. ASSUME NEW c \in Caller, GiveIds(c) PROVE TornByFaultsOnly'
  BY <1>7, GivenUpIs DEF GiveIds, CacheFails, CallerAt, FaultyAnswer, Untroubled, idBounds, IdTypeOK,
         FaultsAreCounted, TornByFaultsOnly
<1>8. ASSUME NEW c \in Caller, AskAgain(c) PROVE TornByFaultsOnly'
  BY <1>8, GivenUpIs DEF AskAgain, CallerAt, FaultyAnswer, Untroubled, idBounds, IdTypeOK,
         FaultsAreCounted, TornByFaultsOnly
<1>9. CASE TokenExpires
  BY <1>9 DEF TokenExpires, idBounds, Untroubled, IdTypeOK, FaultsAreCounted, TornByFaultsOnly
<1>10. CASE Refuse
  BY <1>10 DEF Refuse, idBounds, Untroubled, IdTypeOK, FaultsAreCounted, TornByFaultsOnly
<1>11. CASE Restart
  BY <1>11 DEF Restart, idBounds, Untroubled, IdTypeOK, FaultsAreCounted, TornByFaultsOnly
<1>12. CASE UNCHANGED idVars
  BY <1>12 DEF idVars, idBounds, Untroubled, IdTypeOK, FaultsAreCounted, TornByFaultsOnly
<1>. QED BY <1>1, <1>2, <1>3, <1>4, <1>5, <1>6, <1>7, <1>8, <1>9, <1>10, <1>11, <1>12 DEF IdNext

(* What was known stays known.                                              *)
LEMMA KnownStep == IdTypeOK /\ FaultsAreCounted /\ CacheIsKept /\ KnownStaysKnown /\ [IdNext]_idVars =>
  (CacheIsKept /\ KnownStaysKnown)'
<1> SUFFICES ASSUME IdTypeOK, FaultsAreCounted, CacheIsKept, KnownStaysKnown, [IdNext]_idVars
             PROVE  (CacheIsKept /\ KnownStaysKnown)'
  OBVIOUS
<1>1. ASSUME NEW c \in Caller, AskForIds(c) PROVE (CacheIsKept /\ KnownStaysKnown)'
  BY <1>1, GivenUpIs DEF AskForIds, CacheRead, CacheFails, CallerAt, FaultyAnswer, Untroubled, idBounds, IdTypeOK,
         FaultsAreCounted, CacheIsKept, KnownStaysKnown
<1>2. ASSUME NEW c \in Caller, LoadToken(c) PROVE (CacheIsKept /\ KnownStaysKnown)'
  BY <1>2, GivenUpIs DEF LoadToken, CallerAt, FaultyAnswer, Untroubled, idBounds, IdTypeOK,
         FaultsAreCounted, CacheIsKept, KnownStaysKnown
<1>3. ASSUME NEW c \in Caller, RequestToken(c) PROVE (CacheIsKept /\ KnownStaysKnown)'
  BY <1>3, GivenUpIs DEF RequestToken, CallerAt, FaultyAnswer, Untroubled, idBounds, IdTypeOK,
         FaultsAreCounted, CacheIsKept, KnownStaysKnown
<1>4. ASSUME NEW c \in Caller, OpenTokenFile(c) PROVE (CacheIsKept /\ KnownStaysKnown)'
  BY <1>4, GivenUpIs DEF OpenTokenFile, CallerAt, FaultyAnswer, Untroubled, idBounds, IdTypeOK,
         FaultsAreCounted, CacheIsKept, KnownStaysKnown
<1>5. ASSUME NEW c \in Caller, WriteTokenFile(c) PROVE (CacheIsKept /\ KnownStaysKnown)'
  BY <1>5, GivenUpIs DEF WriteTokenFile, CallerAt, FaultyAnswer, Untroubled, idBounds, IdTypeOK,
         FaultsAreCounted, CacheIsKept, KnownStaysKnown
<1>6. ASSUME NEW c \in Caller, AskSpotify(c) PROVE (CacheIsKept /\ KnownStaysKnown)'
  <2>1. GivenUp(c) \in {"given", "failed"} /\ (GivenUp(c) = "failed" => ~found[c].isrc)
    BY GivenUpIs
  <2>2. \A d \in Caller \ {c} : found'[d] = found[d] /\ idFor'[d] = idFor[d] /\ idPc'[d] = idPc[d]
    BY <1>6 DEF AskSpotify, CallerAt, IdTypeOK
  <2>3. /\ found[c].isrc => found'[c].isrc
        /\ found'[c].isrc /\ idFor'[c] = "track" => found[c].isrc /\ idFor[c] = "track"
    BY <1>6, <2>2 DEF AskSpotify, IdTypeOK
  <2>4. idPc'[c] # "done" /\ (idPc'[c] = "failed" => ~found[c].isrc)
    BY <1>6, <2>1 DEF AskSpotify, CallerAt, IdTypeOK
  <2>5. isrcCache' = isrcCache /\ hadISRC' = hadISRC /\ cacheFailed' = cacheFailed
    BY <1>6 DEF AskSpotify
  <2>6. ASSUME NEW d \in Caller
        PROVE  /\ hadISRC'[d] => isrcCache' /\ (cacheFailed'[d] \/ found'[d].isrc)
               /\ found'[d].isrc /\ idFor'[d] = "track" => isrcCache'
    <3>1. /\ hadISRC[d] => isrcCache /\ (cacheFailed[d] \/ found[d].isrc)
          /\ found[d].isrc /\ idFor[d] = "track" => isrcCache
      BY DEF CacheIsKept
    <3>2. CASE d = c
      BY <2>3, <2>5, <3>1, <3>2
    <3>3. CASE d # c
      <4>1. found'[d] = found[d] /\ idFor'[d] = idFor[d]
        BY <2>2, <3>3
      <4>. QED BY <2>5, <3>1, <4>1
    <3>. QED BY <3>2, <3>3
  <2>7. ASSUME NEW d \in Caller, ~cacheFailed'[d]
        PROVE  /\ hadISRC'[d] /\ idPc'[d] \in {"done", "failed"} => found'[d].isrc /\ idPc'[d] = "done"
               /\ idPc'[d] = "done" /\ found'[d].isrc => isrcCache'
    <3>0. ~cacheFailed[d]
      BY <2>5, <2>7
    <3>1. /\ hadISRC[d] /\ idPc[d] \in {"done", "failed"} => found[d].isrc /\ idPc[d] = "done"
          /\ idPc[d] = "done" /\ found[d].isrc => isrcCache
      BY <3>0 DEF KnownStaysKnown
    <3>2. hadISRC[d] => found[d].isrc
      BY <3>0 DEF CacheIsKept
    <3>3. CASE d = c
      BY <2>4, <2>5, <3>2, <3>3
    <3>4. CASE d # c
      <4>1. found'[d] = found[d] /\ idPc'[d] = idPc[d]
        BY <2>2, <3>4
      <4>. QED BY <2>5, <3>1, <4>1
    <3>. QED BY <3>3, <3>4
  <2>8. CacheIsKept'
    BY <2>6 DEF CacheIsKept
  <2>9. KnownStaysKnown'
    BY <2>7 DEF KnownStaysKnown
  <2>. QED BY <2>8, <2>9
<1>7. ASSUME NEW c \in Caller, GiveIds(c) PROVE (CacheIsKept /\ KnownStaysKnown)'
  <2>0. isrcCache' = isrcCache \/ isrcCache' = (isrcCache \/ Caches(c))
    BY <1>7, Zenon DEF GiveIds
  <2>1. UNCHANGED <<hadISRC, found, idFor>> /\ (isrcCache => isrcCache')
    <3>1. isrcCache => isrcCache'
      BY <2>0, Zenon
    <3>. QED BY <1>7, <3>1 DEF GiveIds
  <2>2. \A d \in Caller : cacheFailed[d] => cacheFailed'[d]
    BY <1>7 DEF GiveIds, CacheFails, IdTypeOK
  <2>3. CacheIsKept'
    BY <2>1, <2>2 DEF CacheIsKept
  <2>4. idPc'[c] = IF found[c].isrc \/ found[c].upc THEN "done" ELSE "failed"
    BY <1>7 DEF GiveIds, CallerAt, IdTypeOK
  <2>5. \A d \in Caller \ {c} : idPc'[d] = idPc[d]
    BY <1>7 DEF GiveIds, CallerAt, IdTypeOK
  <2>6. found[c].isrc => isrcCache' \/ cacheFailed'[c]
    BY <1>7 DEF GiveIds, Caches, CacheFails, CacheIsKept, IdTypeOK
  <2>7. ASSUME NEW d \in Caller, ~cacheFailed'[d]
        PROVE  /\ hadISRC'[d] /\ idPc'[d] \in {"done", "failed"} => found'[d].isrc /\ idPc'[d] = "done"
               /\ idPc'[d] = "done" /\ found'[d].isrc => isrcCache'
    <3>1. CASE d = c
      BY <2>1, <2>2, <2>4, <2>6, <2>7, <3>1 DEF CacheIsKept
    <3>2. CASE d # c
      BY <2>1, <2>2, <2>5, <2>7, <3>2 DEF KnownStaysKnown
    <3>. QED BY <3>1, <3>2
  <2>8. KnownStaysKnown'
    BY <2>7 DEF KnownStaysKnown
  <2>. QED BY <2>3, <2>8
<1>8. ASSUME NEW c \in Caller, AskAgain(c) PROVE (CacheIsKept /\ KnownStaysKnown)'
  BY <1>8, GivenUpIs DEF AskAgain, CallerAt, FaultyAnswer, Untroubled, idBounds, IdTypeOK,
         FaultsAreCounted, CacheIsKept, KnownStaysKnown
<1>9. CASE TokenExpires
  BY <1>9 DEF TokenExpires, idBounds, CacheIsKept, KnownStaysKnown
<1>10. CASE Refuse
  BY <1>10 DEF Refuse, idBounds, CacheIsKept, KnownStaysKnown
<1>11. CASE Restart
  BY <1>11 DEF Restart, NothingFound, IdTypeOK, CacheIsKept, KnownStaysKnown
<1>12. CASE UNCHANGED idVars
  BY <1>12 DEF idVars, idBounds, CacheIsKept, KnownStaysKnown
<1>. QED BY <1>1, <1>2, <1>3, <1>4, <1>5, <1>6, <1>7, <1>8, <1>9, <1>10, <1>11, <1>12 DEF IdNext
-----------------------------------------------------------------------------
(* The inductive invariant of the lookups of identifiers: the mutex, the
   numbers of the tokens, the state of the file and what the cache has told. *)
THEOREM IdInvariant == IdSpec => []IdInv
<1>1. IdInit => IdInv
  <2> SUFFICES ASSUME IdInit PROVE IdInv
    OBVIOUS
  <2>1. IdTypeOK /\ FaultsAreCounted
    <3>1. FaultsAreCounted
      BY DEF IdInit, FaultsAreCounted
    <3>2. tokenFile \in [state : FileStates, token : 0..MaxTokens, expired : BOOLEAN]
      BY TrackIdsAssumption DEF IdInit, FileStates, NoFileYet
    <3>3. accepted \in 1..MaxTokens + 1 /\ tokensMade \in 0..MaxTokens /\ 0 \in 0..MaxTokens
      BY TrackIdsAssumption DEF IdInit
    <3>. QED
      BY <3>1, <3>2, <3>3, TrackIdsAssumption DEF IdInit, IdTypeOK, IdPcs, NothingFound, NoCaller
  <2>2. TokensAreNumbered /\ TornByFaultsOnly
    BY DEF IdInit, NoFileYet, TokensAreNumbered, TornByFaultsOnly
  <2>3. CacheIsKept /\ KnownStaysKnown
    BY DEF IdInit, NothingFound, CacheIsKept, KnownStaysKnown
  <2>. QED BY <2>1, <2>2, <2>3 DEF IdInv
<1>2. IdInv /\ [IdNext]_idVars => IdInv'
  BY IdTypeStep, TokenStep, TornStep, KnownStep DEF IdInv
<1>. QED BY <1>1, <1>2, PTL DEF IdSpec

(* Every variable keeps its type, and who asks for a token or saves it has the
   mutex (TrackIds' IdTypeOK). *)
THEOREM IdTypeCorrect == IdSpec => []IdTypeOK
<1>1. IdInv => IdTypeOK
  BY DEF IdInv
<1>. QED BY <1>1, IdInvariant, PTL

(* saveSpotifyCachedToken leaves a part of a token only where a write or the
   process was cut short. *)
THEOREM TornOnlyByFaults == IdSpec => []TornByFaultsOnly
<1>1. IdInv => TornByFaultsOnly
  BY DEF IdInv
<1>. QED BY <1>1, IdInvariant, PTL

(* fetchSpotifyRawMetadataByGID tries a refused request again with a newer
   token. *)
THEOREM NewerAfterRefusal == IdSpec => []RefusedIsRenewed
<1>1. IdInv => RefusedIsRenewed
  BY DEF IdInv, TokensAreNumbered, RefusedIsRenewed
<1>. QED BY <1>1, IdInvariant, PTL

(* No failure of a lookup loses an ISRC the cache had, and what is told of one
   the cache has. *)
THEOREM NothingForgotten == IdSpec => []KnownStaysKnown
<1>1. IdInv => KnownStaysKnown
  BY DEF IdInv
<1>. QED BY <1>1, IdInvariant, PTL

(* All of it together, the property the run checks of the token file and the
   ISRC cache. *)
THEOREM IdsCorrect == IdSpec => []IdsAreKept
<1>1. IdTypeOK /\ TornByFaultsOnly /\ RefusedIsRenewed /\ KnownStaysKnown => IdsAreKept
  BY DEF IdsAreKept
<1>. QED BY <1>1, IdTypeCorrect, TornOnlyByFaults, NewerAfterRefusal, NothingForgotten, PTL

-----------------------------------------------------------------------------
(* The records of a request and of a reconciliation.                       *)
RequestPc == {"free", "cancel", "look", "note", "fetch", "check", "enqueue", "forward", "file"}
RequestRecord == [pc : RequestPc, kind : Kind, track : Track, promise : Nat]
ReconPc == {"asleep", "next", "poll", "star", "file", "drop"}
ReconRecord == [pc : ReconPc, todo : SUBSET (Nat \ {0}), promise : Nat, late : BOOLEAN, lists : BOOLEAN]

FacadeTyped ==
    /\ promises \in Seq(Promised) /\ pending \in [Track -> Nat] /\ live \in [Track -> Nat]
    /\ fetched \subseteq Track /\ indexed \subseteq Track /\ landed \in BOOLEAN
    /\ request \in [Request -> RequestRecord] /\ recon \in [Reconciler -> ReconRecord]
    /\ madeTrue \subseteq Want /\ wanted \subseteq Want /\ excused \subseteq Want
    /\ asked \in 0..MaxRequests /\ faults \in 0..MaxFacadeFaults /\ tangled \subseteq Track

(* The promises that a reconciliation holds.                               *)
HeldBy(w) == recon[w].todo \cup ({recon[w].promise} \ {0})

(* Every number is that of a promise that was made, of the track it is kept for. *)
PromisesAreNamed ==
    /\ \A t \in Track : pending[t] # 0 => pending[t] <= Len(promises) /\ promises[pending[t]].track = t
    /\ \A r \in Request : /\ request[r].promise <= Len(promises)
                          /\ request[r].pc = "note" =>
                               request[r].promise # 0 /\
                                 promises[request[r].promise].track = request[r].track
                          /\ request[r].kind = "unstar" => request[r].pc \in {"free", "cancel"}
    /\ \A w \in Reconciler : /\ \A p \in HeldBy(w) : p <= Len(promises)
                             /\ recon[w].pc \in {"poll", "star", "file", "drop"} => recon[w].promise # 0

(* A request makes one promise and asks for one download at most.          *)
MayPromise == {r \in Request : request[r].pc \in {"look", "fetch"}}
MayEnqueue == {r \in Request : request[r].pc \in {"look", "fetch", "check", "enqueue"}}
RequestsAreCounted ==
    /\ IsFiniteSet(MayEnqueue)
    /\ Len(promises) + Cardinality(MayPromise) <= asked
    /\ \A t \in Track : live[t] + Cardinality(MayEnqueue) <= asked

(* What was asked for and is neither true nor excused.                     *)
Outstanding(t) == {k \in Wish : <<t, k>> \in wanted \ (madeTrue \cup excused)}

(* What a request of track t that is alone with it can rely on.            *)
Relies(r, t) ==
    /\ request[r].pc = "note" => request[r].promise = pending[t]
    /\ request[r].pc \in {"fetch", "check", "enqueue"} => Outstanding(t) = {}
    /\ request[r].pc \in {"check", "enqueue", "forward", "file"} => pending[t] # 0
    /\ request[r].pc \in {"check", "enqueue"} /\ Starring(r) => "star" \in promises[pending[t]].wishes
    /\ request[r].pc = "enqueue" => live[t] = 0 /\ t \notin fetched

(* What a reconciliation that is alone with track t has seen to.           *)
SeesTo(w, t) ==
    /\ recon[w].pc = "file" => /\ Outstanding(t) \subseteq {"list"}
                               /\ ~recon[w].lists => "list" \notin Current(w).wishes
    /\ recon[w].pc = "drop" => Outstanding(t) = {}

(* What holds of a track whose requests and reconciliations do not overlap. *)
InOrderFor(t) ==
    /\ \A r, q \in Serving(t) : r = q
    /\ \A r \in Serving(t) : Relies(r, t)
    /\ \A w \in Reconciler : \A p \in HeldBy(w) :
         promises[p].track = t => pending[t] \in {0, p} /\ Serving(t) = {}
    /\ \A w \in Reconciler : recon[w].promise # 0 /\ Current(w).track = t => SeesTo(w, t)
    /\ \A k \in Outstanding(t) : pending[t] # 0 /\ k \in promises[pending[t]].wishes
    /\ live[t] <= 1 /\ (t \in fetched => live[t] = 0)

FacadeInv == /\ FacadeTyped /\ PromisesAreNamed /\ RequestsAreCounted
             /\ \A t \in Track \ tangled : InOrderFor(t)
-----------------------------------------------------------------------------
(* The records that the steps put in place of others.                      *)
LEMMA FacadeRecords ==
  /\ Free \in RequestRecord /\ Asleep \in ReconRecord
  /\ \A x \in RequestPc, k \in Kind, t \in Track :
       [pc |-> x, kind |-> k, track |-> t, promise |-> 0] \in RequestRecord
  /\ \A q \in RequestRecord, x \in RequestPc : [q EXCEPT !.pc = x] \in RequestRecord
  /\ \A q \in RequestRecord, n \in Nat : [q EXCEPT !.promise = n] \in RequestRecord
  /\ \A v \in ReconRecord, x \in ReconPc : [v EXCEPT !.pc = x] \in ReconRecord
  /\ \A v \in ReconRecord, s \in SUBSET (Nat \ {0}) : [v EXCEPT !.todo = s] \in ReconRecord
  /\ \A v \in ReconRecord, n \in Nat : [v EXCEPT !.promise = n] \in ReconRecord
  /\ \A v \in ReconRecord, b \in BOOLEAN : [v EXCEPT !.late = b] \in ReconRecord
  /\ \A v \in ReconRecord, b \in BOOLEAN : [v EXCEPT !.lists = b] \in ReconRecord
  <1>1. Free \in RequestRecord BY FacadeAssumption DEF Free, RequestRecord, RequestPc, Kind
  <1>2. Asleep \in ReconRecord BY DEF Asleep, ReconRecord, ReconPc
  <1>3. \A x \in RequestPc, k \in Kind, t \in Track :
          [pc |-> x, kind |-> k, track |-> t, promise |-> 0] \in RequestRecord
    BY DEF RequestRecord
  <1>4. ASSUME NEW q \in RequestRecord
        PROVE  /\ \A x \in RequestPc : [q EXCEPT !.pc = x] \in RequestRecord
               /\ \A n \in Nat : [q EXCEPT !.promise = n] \in RequestRecord
    BY DEF RequestRecord
  <1>5. ASSUME NEW v \in ReconRecord
        PROVE  /\ \A x \in ReconPc : [v EXCEPT !.pc = x] \in ReconRecord
               /\ \A s \in SUBSET (Nat \ {0}) : [v EXCEPT !.todo = s] \in ReconRecord
               /\ \A n \in Nat : [v EXCEPT !.promise = n] \in ReconRecord
    BY DEF ReconRecord
  <1>6. ASSUME NEW v \in ReconRecord
        PROVE  /\ \A b \in BOOLEAN : [v EXCEPT !.late = b] \in ReconRecord
               /\ \A b \in BOOLEAN : [v EXCEPT !.lists = b] \in ReconRecord
    BY DEF ReconRecord
  <1> QED BY <1>1, <1>2, <1>3, <1>4, <1>5, <1>6

(* A promise stays one of its track, with the wishes it had and a new one. *)
LEMMA WishesAreNoted ==
  /\ \A p \in Promised : \A k \in Wish :
       LET n == [p EXCEPT !.wishes = @ \cup {k}]
       IN  n \in Promised /\ n.track = p.track /\ n.wishes = p.wishes \cup {k}
  /\ \A t \in Track : /\ NewPromise(t) \in Promised
                      /\ NewPromise(t).track = t /\ NewPromise(t).wishes = {}
  /\ \A r \in Request, p \in Promised :
       /\ Noted(r, p) \in Promised /\ Noted(r, p).track = p.track
       /\ p.wishes \subseteq Noted(r, p).wishes
       /\ Starring(r) => "star" \in Noted(r, p).wishes
  <1>1. ASSUME NEW p \in Promised, NEW k \in Wish, NEW n, n = [p EXCEPT !.wishes = @ \cup {k}]
        PROVE  n \in Promised /\ n.track = p.track /\ n.wishes = p.wishes \cup {k}
    BY <1>1 DEF Promised
  <1>2. \A t \in Track : /\ NewPromise(t) \in Promised
                         /\ NewPromise(t).track = t /\ NewPromise(t).wishes = {}
    BY DEF NewPromise, Promised
  <1>3. "star" \in Wish BY DEF Wish
  <1> QED BY <1>1, <1>2, <1>3 DEF Noted

(* What one step of a request does to the record of that request.          *)
LEMMA RequestTurns ==
  ASSUME FacadeTyped, NEW r \in Request
  PROVE  /\ request[r] \in RequestRecord /\ request[r].track \in Track
         /\ request[r].kind \in Kind /\ request[r].promise \in Nat /\ request[r].pc \in RequestPc
  BY DEF FacadeTyped, RequestRecord

LEMMA ReconTurns ==
  ASSUME FacadeTyped, NEW w \in Reconciler
  PROVE  /\ recon[w] \in ReconRecord /\ recon[w].todo \in SUBSET (Nat \ {0})
         /\ recon[w].promise \in Nat /\ recon[w].pc \in ReconPc
         /\ recon[w].late \in BOOLEAN /\ recon[w].lists \in BOOLEAN
  BY DEF FacadeTyped, ReconRecord
(* A request that is answered is gone, and only what it wanted is wanted anew. *)
LEMMA AnsweredIs ==
  ASSUME FacadeTyped, NEW r \in Request, NEW wants \in SUBSET Want, Answered(r, wants)
  PROVE  /\ request' \in [Request -> RequestRecord] /\ wanted' \subseteq Want /\ excused' \subseteq Want
         /\ request'[r] = Free /\ \A o \in Request \ {r} : request'[o] = request[o]
         /\ wanted' = wanted \cup wants /\ excused' = excused \ wants
  BY FacadeRecords DEF Answered, FacadeTyped

(* A request that has acquired goes on to Navidrome or wanted a star.      *)
LEMMA AcquiredIs ==
  ASSUME FacadeTyped, NEW r \in Request, Acquired(r)
  PROVE  /\ request' \in [Request -> RequestRecord] /\ wanted' \subseteq Want /\ excused' \subseteq Want
         /\ \A o \in Request \ {r} : request'[o] = request[o]
         /\ \/ /\ request[r].kind = "playlist" /\ request'[r] = [request[r] EXCEPT !.pc = "forward"]
               /\ UNCHANGED <<wanted, excused>>
            \/ /\ request[r].kind # "playlist" /\ request'[r] = Free
               /\ wanted' = wanted \cup {<<request[r].track, "star">>}
               /\ excused' = excused \ {<<request[r].track, "star">>}
  <1>1. CASE request[r].kind = "playlist"
    <2>1. request' = [request EXCEPT ![r] = [request[r] EXCEPT !.pc = "forward"]]
      BY <1>1 DEF Acquired, FacadeTyped
    <2>2. [request[r] EXCEPT !.pc = "forward"] \in RequestRecord
      BY RequestTurns, FacadeRecords DEF RequestPc
    <2> QED BY <1>1, <2>1, <2>2 DEF Acquired, FacadeTyped
  <1>2. CASE request[r].kind # "playlist"
    <2>1. {<<request[r].track, "star">>} \in SUBSET Want BY RequestTurns DEF Want, Wish
    <2>2. Answered(r, {<<request[r].track, "star">>}) BY <1>2 DEF Acquired
    <2> QED BY <1>2, <2>1, <2>2, AnsweredIs
  <1> QED BY <1>1, <1>2

(* A reconciliation that is done with a promise turns to the next one.     *)
LEMMA DroppedIs ==
  ASSUME FacadeTyped, NEW w \in Reconciler, Dropped(w)
  PROVE  /\ recon' \in [Reconciler -> ReconRecord]
         /\ pending' = [pending EXCEPT ![Current(w).track] = 0]
         /\ \A o \in Reconciler \ {w} : recon'[o] = recon[o]
         /\ recon'[w].promise = 0 /\ recon'[w].pc \in {"asleep", "next"} /\ recon'[w].todo = recon[w].todo
  <1>1. PICK x \in {"asleep", "next"} : x = IF recon[w].todo = {} THEN "asleep" ELSE "next" OBVIOUS
  <1>2. PICK b \in BOOLEAN : b = (recon[w].late /\ recon[w].todo # {}) OBVIOUS
  <1>3. PICK v : v = [[[[recon[w] EXCEPT !.promise = 0] EXCEPT !.lists = FALSE] EXCEPT !.pc = x]
                       EXCEPT !.late = b]
    OBVIOUS
  <1>4. recon' = [recon EXCEPT ![w] = v]
    <2>1. recon' = [recon EXCEPT ![w] = [recon[w] EXCEPT !.promise = 0, !.lists = FALSE, !.pc = x,
            !.late = b]]
      BY <1>1, <1>2 DEF Dropped, FacadeTyped, ReconRecord
    <2>2. [recon[w] EXCEPT !.promise = 0, !.lists = FALSE, !.pc = x, !.late = b] = v
      BY <1>3, ReconTurns DEF ReconRecord
    <2> QED BY <2>1, <2>2
  <1>5. v \in ReconRecord
    <2>1. x \in ReconPc BY DEF ReconPc
    <2> QED BY <1>3, <2>1, ReconTurns, FacadeRecords
  <1>6. v.promise = 0 /\ v.pc = x /\ v.todo = recon[w].todo BY <1>3, ReconTurns DEF ReconRecord
  <1>7. recon'[w] = v /\ \A o \in Reconciler \ {w} : recon'[o] = recon[o] BY <1>4 DEF FacadeTyped
  <1>8. recon' \in [Reconciler -> ReconRecord] BY <1>4, <1>5 DEF FacadeTyped
  <1>9. pending' = [pending EXCEPT ![Current(w).track] = 0] BY DEF Dropped
  <1> QED BY <1>6, <1>7, <1>8, <1>9

(* A call to Navidrome tells or excuses one want.                          *)
LEMMA ToldIs ==
  ASSUME FacadeTyped, NEW x \in Want, Told(x)
  PROVE  /\ madeTrue' \subseteq Want /\ excused' \subseteq Want /\ x \in madeTrue' \cup excused'
         /\ madeTrue \subseteq madeTrue' /\ excused \subseteq excused'
  BY DEF Told, FacadeTyped
(* Who notes a wish, or files a playlist, holds the number of a promise that was made. *)
LEMMA NumbersAreOfPromises ==
  ASSUME FacadeTyped, PromisesAreNamed
  PROVE  /\ \A r \in Request : request[r].pc = "note" => request[r].promise \in 1..Len(promises)
         /\ \A t \in Track : pending[t] # 0 => pending[t] \in 1..Len(promises)
         /\ \A w \in Reconciler : recon[w].promise # 0 => recon[w].promise \in 1..Len(promises)
         /\ \A w \in Reconciler : \A p \in HeldBy(w) : p \in 1..Len(promises)
         /\ \A p \in 1..Len(promises) : promises[p] \in Promised /\ promises[p].track \in Track
                                        /\ promises[p].wishes \subseteq Wish
         /\ Len(promises) \in Nat
  <1>1. /\ Len(promises) \in Nat
        /\ \A p \in 1..Len(promises) : promises[p] \in Promised
    BY DEF FacadeTyped
  <1>2. \A x \in Promised : x.track \in Track /\ x.wishes \subseteq Wish BY DEF Promised
  <1>3. \A r \in Request : request[r].pc = "note" => request[r].promise \in 1..Len(promises)
    BY <1>1, RequestTurns DEF PromisesAreNamed
  <1>4. \A t \in Track : pending[t] # 0 => pending[t] \in 1..Len(promises)
    BY <1>1 DEF PromisesAreNamed, FacadeTyped
  <1>5. \A w \in Reconciler : \A p \in HeldBy(w) : p \in 1..Len(promises)
    BY <1>1, ReconTurns DEF PromisesAreNamed, HeldBy
  <1>6. \A w \in Reconciler : recon[w].promise # 0 => recon[w].promise \in 1..Len(promises)
    BY <1>5, ReconTurns DEF HeldBy
  <1> QED BY <1>1, <1>2, <1>3, <1>4, <1>5, <1>6

LEMMA FacadeTypedStep ==
  ASSUME FacadeTyped, PromisesAreNamed, [FacadeNext]_facadeVars
  PROVE  FacadeTyped'
  <1>0. MaxRequests \in Nat /\ MaxFacadeFaults \in Nat BY FacadeAssumption
  <1>1. ASSUME NEW r \in Request, NEW k \in Kind, NEW t \in Track, Ask(r, k, t) PROVE FacadeTyped'
    <2>1. PICK x \in RequestPc : x = IF k = "unstar" THEN "cancel" ELSE "look" BY DEF RequestPc
    <2>2. request' = [request EXCEPT ![r] = [pc |-> x, kind |-> k, track |-> t, promise |-> 0]]
      BY <1>1, <2>1 DEF Ask
    <2>3. request' \in [Request -> RequestRecord] BY <2>2, FacadeRecords DEF FacadeTyped
    <2>4. asked' \in 0..MaxRequests /\ tangled' \subseteq Track BY <1>0, <1>1 DEF Ask, FacadeTyped
    <2> QED BY <1>1, <2>3, <2>4 DEF Ask, FacadeTyped
  <1>2. ASSUME NEW r \in Request, Unstar(r) \/ NoMetadata(r) \/ EnqueueFails(r) PROVE FacadeTyped'
    <2>1. request' \in [Request -> RequestRecord]
      BY <1>2, FacadeRecords DEF Unstar, NoMetadata, EnqueueFails, FacadeTyped
    <2>2. pending' \in [Track -> Nat] /\ wanted' \subseteq Want
      BY <1>2, RequestTurns DEF Unstar, NoMetadata, EnqueueFails, FacadeTyped
    <2> QED BY <1>2, <2>1, <2>2 DEF Unstar, NoMetadata, EnqueueFails, FacadeTyped
  <1>3. ASSUME NEW r \in Request, Look(r) PROVE FacadeTyped'
    <2>1. PICK p \in Nat : p = pending[request[r].track] BY RequestTurns DEF FacadeTyped
    <2>2. PICK x \in RequestPc : x = IF p = 0 THEN "fetch" ELSE "note" BY DEF RequestPc
    <2>3. request' = [request EXCEPT ![r] = [[request[r] EXCEPT !.promise = p] EXCEPT !.pc = x]]
      BY <1>3, <2>1, <2>2 DEF Look, FacadeTyped, RequestRecord
    <2>4. request' \in [Request -> RequestRecord]
      BY <2>3, RequestTurns, FacadeRecords DEF FacadeTyped
    <2> QED BY <1>3, <2>4 DEF Look, FacadeTyped
  <1>4. ASSUME NEW r \in Request, NoteExisting(r) PROVE FacadeTyped'
    <2>1. Acquired(r) BY <1>4 DEF NoteExisting
    <2>2. promises' \in Seq(Promised)
      <3>1. PICK i \in 1..Len(promises) : i = request[r].promise
        BY <1>4, NumbersAreOfPromises DEF NoteExisting
      <3>2. PICK x \in Promised : x = Noted(r, promises[i]) BY WishesAreNoted, NumbersAreOfPromises
      <3>3. promises' = [promises EXCEPT ![i] = x] BY <1>4, <3>1, <3>2 DEF NoteExisting
      <3> QED BY <3>3, ExceptSeq DEF FacadeTyped
    <2> QED BY <1>4, <2>1, <2>2, AcquiredIs DEF NoteExisting, FacadeTyped
  <1>5. ASSUME NEW r \in Request, Promise(r) PROVE FacadeTyped'
    <2>1. PICK x \in Promised : x = Noted(r, NewPromise(request[r].track))
      BY WishesAreNoted, RequestTurns
    <2>2. promises' \in Seq(Promised) /\ Len(promises') \in Nat
      BY <1>5, <2>1, AppendProperties DEF Promise, FacadeTyped
    <2>3. pending' \in [Track -> Nat] BY <1>5, <2>2, RequestTurns DEF Promise, FacadeTyped
    <2>4. request' = [request EXCEPT ![r] = [request[r] EXCEPT !.pc = "check"]]
      BY <1>5 DEF Promise, FacadeTyped
    <2>5. request' \in [Request -> RequestRecord]
      <3>1. "check" \in RequestPc BY DEF RequestPc
      <3> QED BY <2>4, <3>1, RequestTurns, FacadeRecords DEF FacadeTyped
    <2> QED BY <1>5, <2>2, <2>3, <2>5 DEF Promise, FacadeTyped
  <1>6. ASSUME NEW r \in Request, Check(r) \/ Forward(r) PROVE FacadeTyped'
    <2>1. /\ request' \in [Request -> RequestRecord] /\ wanted' \subseteq Want /\ excused' \subseteq Want
      <3>1. CASE Acquired(r) BY <3>1, AcquiredIs
      <3>2. ASSUME NEW x \in {"enqueue", "file"}, request' = [request EXCEPT ![r].pc = x]
            PROVE request' \in [Request -> RequestRecord]
        <4>1. request' = [request EXCEPT ![r] = [request[r] EXCEPT !.pc = x]]
          BY <3>2 DEF FacadeTyped
        <4>2. x \in RequestPc BY DEF RequestPc
        <4> QED BY <4>1, <4>2, RequestTurns, FacadeRecords DEF FacadeTyped
      <3> QED BY <1>6, <3>1, <3>2 DEF Check, Forward, FacadeTyped
    <2> QED BY <1>6, <2>1 DEF Check, Forward, FacadeTyped
  <1>7. ASSUME NEW r \in Request, Enqueue(r) PROVE FacadeTyped'
    <2>1. Acquired(r) BY <1>7 DEF Enqueue
    <2>2. live' \in [Track -> Nat] BY <1>7, RequestTurns DEF Enqueue, FacadeTyped
    <2> QED BY <1>7, <2>1, <2>2, AcquiredIs DEF Enqueue, FacadeTyped
  <1>8. ASSUME NEW r \in Request, NotForwarded(r) \/ FileUnder(r) PROVE FacadeTyped'
    <2>1. PICK wants \in SUBSET Want : Answered(r, wants)
      <3>1. {<<request[r].track, "list">>} \in SUBSET Want /\ {} \in SUBSET Want
        BY RequestTurns DEF Want, Wish
      <3> QED BY <1>8, <3>1 DEF NotForwarded, FileUnder
    <2>2. promises' \in Seq(Promised)
      <3>1. CASE promises' = promises BY <3>1 DEF FacadeTyped
      <3>2. CASE /\ pending[request[r].track] # 0
                 /\ promises' = [promises EXCEPT ![pending[request[r].track]].wishes = @ \cup {"list"}]
        <4>1. PICK i \in 1..Len(promises) : i = pending[request[r].track]
          BY <3>2, NumbersAreOfPromises, RequestTurns
        <4>2. PICK x : x = [promises[i] EXCEPT !.wishes = @ \cup {"list"}] OBVIOUS
        <4>3. "list" \in Wish BY DEF Wish
        <4>4. x \in Promised BY <4>2, <4>3, WishesAreNoted, NumbersAreOfPromises
        <4>5. promises' = [promises EXCEPT ![i] = x] BY <3>2, <4>1, <4>2 DEF FacadeTyped
        <4> QED BY <4>4, <4>5, ExceptSeq DEF FacadeTyped
      <3> QED BY <1>8, <3>1, <3>2 DEF NotForwarded, FileUnder
    <2> QED BY <1>8, <2>1, <2>2, AnsweredIs DEF NotForwarded, FileUnder, FacadeTyped
  <1>8n. ASSUME NEW r \in Request, NotNamed(r) PROVE FacadeTyped'
    <2>1. <<request[r].track, "list">> \in Want BY RequestTurns DEF Want, Wish
    <2>2. request' \in [Request -> RequestRecord] BY <1>8n, FacadeRecords DEF NotNamed, FacadeTyped
    <2>3. wanted' \subseteq Want /\ excused' \subseteq Want BY <1>8n, <2>1 DEF NotNamed, FacadeTyped
    <2> QED BY <1>8n, <2>2, <2>3 DEF NotNamed, FacadeTyped
  <1>9. ASSUME NEW t \in Track, Download(t) \/ NavidromeIndexes(t) PROVE FacadeTyped'
    <2>1. live' \in [Track -> Nat]
      <3>1. CASE live' = live BY <3>1 DEF FacadeTyped
      <3>2. CASE live[t] > 0 /\ live' = [live EXCEPT ![t] = @ - 1]
        <4>1. live[t] \in Nat /\ live[t] - 1 \in Nat BY <3>2 DEF FacadeTyped
        <4> QED BY <3>2, <4>1 DEF FacadeTyped
      <3> QED BY <1>9, <3>1, <3>2 DEF Download, NavidromeIndexes
    <2> QED BY <1>9, <2>1 DEF Download, NavidromeIndexes, FacadeTyped
  <1>10. ASSUME NEW w \in Reconciler, ReconStart(w) PROVE FacadeTyped'
    <2>1. PICK todo \in SUBSET (Nat \ {0}) : todo = {pending[t] : t \in Track} \ {0}
      BY DEF FacadeTyped
    <2>2. PICK x \in ReconPc : x = IF todo = {} THEN "asleep" ELSE "next" BY DEF ReconPc
    <2>3. recon' = [recon EXCEPT ![w] = [[Asleep EXCEPT !.todo = todo] EXCEPT !.pc = x]]
      BY <1>10, <2>1, <2>2 DEF ReconStart, Asleep
    <2>4. recon' \in [Reconciler -> ReconRecord] BY <2>3, FacadeRecords DEF FacadeTyped
    <2>5. faults' \in 0..MaxFacadeFaults BY <1>0, <1>10 DEF ReconStart, FacadeTyped
    <2>6. tangled' \subseteq Track
      <3>1. \A p \in todo : promises[p].track \in Track
        BY <2>1, NumbersAreOfPromises
      <3> QED BY <1>10, <2>1, <3>1 DEF ReconStart, FacadeTyped
    <2> QED BY <1>10, <2>4, <2>5, <2>6 DEF ReconStart, FacadeTyped
  <1>11. ASSUME NEW w \in Reconciler, ReconNext(w) PROVE FacadeTyped'
    <2>1. PICK p \in recon[w].todo :
            recon' = [recon EXCEPT ![w].todo = @ \ {p}, ![w].promise = p, ![w].pc = "poll"]
      BY <1>11 DEF ReconNext
    <2>2. PICK v : v = [[[recon[w] EXCEPT !.todo = recon[w].todo \ {p}] EXCEPT !.promise = p]
                         EXCEPT !.pc = "poll"]
      OBVIOUS
    <2>3. recon' = [recon EXCEPT ![w] = v]
      <3>1. recon' = [recon EXCEPT ![w] = [recon[w] EXCEPT !.todo = @ \ {p}, !.promise = p, !.pc = "poll"]]
        BY <2>1 DEF FacadeTyped, ReconRecord
      <3>2. [recon[w] EXCEPT !.todo = @ \ {p}, !.promise = p, !.pc = "poll"] = v
        BY <2>2, ReconTurns DEF ReconRecord
      <3> QED BY <3>1, <3>2
    <2>4. v \in ReconRecord
      <3>1. "poll" \in ReconPc /\ p \in Nat /\ recon[w].todo \ {p} \in SUBSET (Nat \ {0})
        BY <2>1, ReconTurns DEF ReconPc
      <3> QED BY <2>2, <3>1, ReconTurns, FacadeRecords
    <2>5. recon' \in [Reconciler -> ReconRecord] BY <2>3, <2>4 DEF FacadeTyped
    <2> QED BY <1>11, <2>5 DEF ReconNext, FacadeTyped
  <1>12. ASSUME NEW w \in Reconciler, ReconLate(w) \/ ReconFinds(w) PROVE FacadeTyped'
    <2>1. \/ recon' = [recon EXCEPT ![w] = [recon[w] EXCEPT !.late = TRUE]]
          \/ recon' = [recon EXCEPT ![w] = [recon[w] EXCEPT !.pc = "star"]]
      BY <1>12 DEF ReconLate, ReconFinds, FacadeTyped
    <2>2. "star" \in ReconPc /\ TRUE \in BOOLEAN BY DEF ReconPc
    <2>3. /\ [recon[w] EXCEPT !.late = TRUE] \in ReconRecord
          /\ [recon[w] EXCEPT !.pc = "star"] \in ReconRecord
      BY <2>2, ReconTurns, FacadeRecords
    <2>4. recon' \in [Reconciler -> ReconRecord] BY <2>1, <2>3 DEF FacadeTyped
    <2> QED BY <1>12, <2>4 DEF ReconLate, ReconFinds, FacadeTyped
  <1>13. ASSUME NEW w \in Reconciler, ReconGivesUp(w) \/ ReconDrops(w) PROVE FacadeTyped'
    <2>1. recon' \in [Reconciler -> ReconRecord] BY <1>13, DroppedIs DEF ReconGivesUp, ReconDrops
    <2>2. pending' \in [Track -> Nat]
      BY <1>13, DroppedIs DEF ReconGivesUp, ReconDrops, FacadeTyped
    <2>3. excused' \subseteq Want BY <1>13 DEF ReconGivesUp, ReconDrops, FacadeTyped
    <2> QED BY <1>13, <2>1, <2>2, <2>3 DEF ReconGivesUp, ReconDrops, FacadeTyped
  <1>14. ASSUME NEW w \in Reconciler, ReconStars(w) \/ ReconFiles(w) PROVE FacadeTyped'
    <2>1. PICK x \in ReconPc, b \in BOOLEAN :
            recon' = [recon EXCEPT ![w] = [[recon[w] EXCEPT !.pc = x] EXCEPT !.lists = b]]
      <3>1. CASE ReconStars(w)
        <4>0. ("list" \in Current(w).wishes) \in BOOLEAN OBVIOUS
        <4>1. PICK b \in BOOLEAN : b = ("list" \in Current(w).wishes) BY <4>0, Zenon
        <4>2. recon' = [recon EXCEPT ![w] = [recon[w] EXCEPT !.pc = "file", !.lists = b]]
          BY <3>1, <4>1 DEF ReconStars, FacadeTyped, ReconRecord
        <4>3. [recon[w] EXCEPT !.pc = "file",
                !.lists = b] = [[recon[w] EXCEPT !.pc = "file"] EXCEPT !.lists = b]
          BY ReconTurns DEF ReconRecord
        <4> QED BY <4>2, <4>3 DEF ReconPc
      <3>2. CASE ReconFiles(w)
        <4>1. recon' = [recon EXCEPT ![w] = [recon[w] EXCEPT !.pc = "drop"]]
          BY <3>2 DEF ReconFiles, FacadeTyped
        <4>2. [recon[w] EXCEPT !.pc = "drop"] = [[recon[w] EXCEPT !.pc = "drop"] EXCEPT !.lists = recon[w].lists]
          BY ReconTurns DEF ReconRecord
        <4> QED BY <4>1, <4>2, ReconTurns DEF ReconPc
      <3> QED BY <1>14, <3>1, <3>2
    <2>2. recon' \in [Reconciler -> ReconRecord] BY <2>1, ReconTurns, FacadeRecords DEF FacadeTyped
    <2>3. madeTrue' \subseteq Want /\ excused' \subseteq Want
      <3>1. Current(w).track \in Track
        BY <1>14, NumbersAreOfPromises DEF ReconStars, ReconFiles, PromisesAreNamed, Current
      <3>2. \A k \in Wish : <<Current(w).track, k>> \in Want BY <3>1 DEF Want
      <3>3. "star" \in Wish /\ "list" \in Wish BY DEF Wish
      <3> QED BY <1>14, <3>2, <3>3, ToldIs DEF ReconStars, ReconFiles, FacadeTyped
    <2> QED BY <1>14, <2>2, <2>3 DEF ReconStars, ReconFiles, FacadeTyped
  <1>15. ASSUME ScanFails \/ UNCHANGED facadeVars PROVE FacadeTyped'
    BY <1>15 DEF ScanFails, facadeVars, FacadeTyped
  <1>16. ASSUME FacadeRestart PROVE FacadeTyped'
    <2>1. request' \in [Request -> RequestRecord] /\ recon' \in [Reconciler -> ReconRecord]
      BY <1>16, FacadeRecords DEF FacadeRestart
    <2>2. promises' \in Seq(Promised) /\ pending' \in [Track -> Nat] BY <1>16 DEF FacadeRestart
    <2>3. faults' \in 0..MaxFacadeFaults BY <1>0, <1>16 DEF FacadeRestart, FacadeTyped
    <2>4. UNCHANGED <<live, fetched, indexed, madeTrue, asked, wanted, tangled>>
      BY <1>16 DEF FacadeRestart
    <2>5. excused' = Want /\ landed' = FALSE BY <1>16 DEF FacadeRestart
    <2> QED BY <2>1, <2>2, <2>3, <2>4, <2>5 DEF FacadeTyped
  <1> QED
    BY <1>1, <1>2, <1>3, <1>4, <1>5, <1>6, <1>7, <1>8, <1>8n, <1>9, <1>10, <1>11, <1>12, <1>13, <1>14,
       <1>15, <1>16 DEF FacadeNext
-----------------------------------------------------------------------------
(* What any step of request r leaves as it was, and what it may do to the rest. *)
Serves(r) ==
    /\ UNCHANGED <<recon, fetched, tangled, madeTrue, asked>> /\ request[r].pc # "free"
    /\ \A o \in Request \ {r} : request'[o] = request[o]
    /\ \/ request'[r] = Free
       \/ /\ request'[r].track = request[r].track /\ request'[r].kind = request[r].kind
          /\ request'[r].promise \in {request[r].promise, pending[request[r].track]}
          /\ request[r].kind = "unstar" => request[r].pc \notin {"cancel"}
          /\ request'[r].pc = "note" =>
               request[r].pc = "look" /\ request'[r].promise = pending[request[r].track]
               /\ pending[request[r].track] # 0
    /\ \A t \in Track \ {request[r].track} : /\ pending'[t] = pending[t] /\ live'[t] = live[t]
                                             /\ Outstanding(t)' = Outstanding(t)
    /\ \/ pending'[request[r].track] \in {0, pending[request[r].track]}
       \/ /\ pending'[request[r].track] = Len(promises') /\ Len(promises') # 0
          /\ promises'[Len(promises')].track = request[r].track
    /\ Len(promises) <= Len(promises')
    /\ \A p \in 1..Len(promises) :
         /\ promises'[p].track = promises[p].track /\ promises[p].wishes \subseteq promises'[p].wishes
         /\ promises[p].track # request[r].track => promises'[p] = promises[p]

(* A request that is gone is free.                                         *)
LEMMA FreeIs == Free.pc = "free" /\ Free.promise = 0 /\ Free.kind = "star" /\ Free.track \in Track
  BY FacadeAssumption DEF Free

(* What is outstanding of one track is not touched by the wants of another. *)
LEMMA OtherWants ==
  ASSUME NEW t \in Track, NEW u \in Track \ {t}, UNCHANGED madeTrue,
         \A x \in Want : x[1] # t => (x \in wanted' <=> x \in wanted) /\ (x \in excused' <=> x \in excused),
         FacadeTyped, FacadeTyped'
  PROVE  Outstanding(u)' = Outstanding(u)
  <1>1. ASSUME NEW k \in Wish
        PROVE  <<u, k>> \in wanted' \ (madeTrue' \cup excused') <=> <<u,
                 k>> \in wanted \ (madeTrue \cup excused)
    <2>1. <<u, k>> \in Want /\ <<u, k>>[1] # t BY DEF Want
    <2> QED BY <2>1
  <1> QED BY <1>1 DEF Outstanding

LEMMA AcquiredServes ==
  ASSUME FacadeTyped, FacadeTyped', NEW r \in Request, Acquired(r), UNCHANGED madeTrue,
         request[r].pc # "cancel"
  PROVE  /\ \A o \in Request \ {r} : request'[o] = request[o]
         /\ \/ request'[r] = Free
            \/ /\ request'[r].track = request[r].track /\ request'[r].kind = request[r].kind
               /\ request'[r].promise = request[r].promise /\ request'[r].pc = "forward"
         /\ \A u \in Track \ {request[r].track} : Outstanding(u)' = Outstanding(u)
  <1>1. \A x \in Want : x[1] # request[r].track =>
          (x \in wanted' <=> x \in wanted) /\ (x \in excused' <=> x \in excused)
    <2>0. <<request[r].track, "star">>[1] = request[r].track OBVIOUS
    <2>1. PICK y : y = <<request[r].track, "star">> OBVIOUS
    <2>2. \/ UNCHANGED <<wanted, excused>>
          \/ wanted' = wanted \cup {y} /\ excused' = excused \ {y}
      BY <2>1, AcquiredIs
    <2> QED BY <2>0, <2>1, <2>2
  <1>2. \A u \in Track \ {request[r].track} : Outstanding(u)' = Outstanding(u)
    BY <1>1, OtherWants, RequestTurns
  <1>3. [request[r] EXCEPT !.pc = "forward"].track = request[r].track
        /\ [request[r] EXCEPT !.pc = "forward"].kind = request[r].kind
        /\ [request[r] EXCEPT !.pc = "forward"].promise = request[r].promise
        /\ [request[r] EXCEPT !.pc = "forward"].pc = "forward"
    BY RequestTurns DEF RequestRecord
  <1> QED BY <1>2, <1>3, AcquiredIs

LEMMA RequestServes ==
  ASSUME FacadeTyped, FacadeTyped', PromisesAreNamed, NEW r \in Request,
         \/ Unstar(r) \/ Look(r) \/ NoteExisting(r) \/ Promise(r) \/ NoMetadata(r) \/ Check(r)
         \/ Enqueue(r) \/ EnqueueFails(r) \/ Forward(r) \/ NotForwarded(r) \/ FileUnder(r)
         \/ NotNamed(r)
  PROVE  Serves(r)
  <1> DEFINE t == request[r].track
  <1>0. /\ t \in Track /\ request[r] \in RequestRecord /\ request[r].promise \in Nat /\ pending[t] \in Nat
        /\ pending \in [Track -> Nat] /\ live \in [Track -> Nat] /\ request \in [Request -> RequestRecord]
        /\ promises \in Seq(Promised)
    BY RequestTurns DEF FacadeTyped
  <1>s. \A u \in Track : UNCHANGED <<wanted, madeTrue, excused>> => Outstanding(u)' = Outstanding(u)
    BY DEF Outstanding
  <1>n. Len(promises) <= Len(promises) /\ \A p \in 1..Len(promises) : promises[p] \in Promised
    BY NumbersAreOfPromises
  <1>1. CASE Unstar(r)
    <2>1. UNCHANGED <<promises, live, fetched, recon, madeTrue, tangled, asked>> /\ request'[r] = Free
          /\ request[r].pc = "cancel" /\ \A o \in Request \ {r} : request'[o] = request[o]
      BY <1>0, <1>1 DEF Unstar
    <2>2. pending'[t] = 0 /\ \A u \in Track \ {t} : pending'[u] = pending[u]
      BY <1>0, <1>1 DEF Unstar
    <2>3. \A x \in Want : x[1] # t =>
            (x \in wanted' <=> x \in wanted) /\ (x \in excused' <=> x \in excused)
      BY <1>1 DEF Unstar
    <2>4. \A u \in Track \ {t} : Outstanding(u)' = Outstanding(u) BY <1>0, <2>1, <2>3, OtherWants
    <2> QED BY <1>n, <2>1, <2>2, <2>4 DEF Serves
  <1>2. CASE Look(r)
    <2>1. UNCHANGED <<promises, pending, live, fetched, recon, madeTrue, wanted, excused, tangled, asked>>
          /\ request[r].pc = "look" /\ \A o \in Request \ {r} : request'[o] = request[o]
      BY <1>0, <1>2 DEF Look
    <2>2. /\ request'[r].track = t /\ request'[r].kind = request[r].kind /\ request'[r].promise = pending[t]
          /\ request'[r].pc = "note" => pending[t] # 0
      BY <1>0, <1>2 DEF Look, RequestRecord
    <2> QED BY <1>0, <1>s, <1>n, <2>1, <2>2 DEF Serves
  <1>3. CASE NoteExisting(r)
    <2>1. UNCHANGED <<pending, live, fetched, recon, madeTrue, tangled, asked>> /\ request[r].pc = "note"
          /\ Acquired(r)
      BY <1>3 DEF NoteExisting
    <2>2. request[r].promise \in 1..Len(promises) /\ promises[request[r].promise].track = t
          /\ promises[request[r].promise] \in Promised
      BY <2>1, NumbersAreOfPromises DEF PromisesAreNamed
    <2>3. promises' = [promises EXCEPT ![request[r].promise] = Noted(r, promises[request[r].promise])]
      BY <1>3 DEF NoteExisting
    <2>4. Len(promises') = Len(promises) /\ \A p \in 1..Len(promises) :
            promises'[p] = IF p = request[r].promise THEN Noted(r, promises[p]) ELSE promises[p]
      BY <1>0, <2>2, <2>3
    <2>5. \A p \in 1..Len(promises) :
            /\ promises'[p].track = promises[p].track /\ promises[p].wishes \subseteq promises'[p].wishes
            /\ promises[p].track # t => promises'[p] = promises[p]
      BY <2>2, <2>4, <1>n, WishesAreNoted
    <2> QED BY <1>0, <1>n, <2>1, <2>4, <2>5, AcquiredServes DEF Serves
  <1>4. CASE Promise(r)
    <2>1. UNCHANGED <<live, fetched, recon, madeTrue, wanted, excused, tangled, asked>>
          /\ request[r].pc = "fetch" /\ \A o \in Request \ {r} : request'[o] = request[o]
      BY <1>0, <1>4 DEF Promise
    <2>2. /\ request'[r].track = t /\ request'[r].kind = request[r].kind
          /\ request'[r].promise = request[r].promise /\ request'[r].pc = "check"
      BY <1>0, <1>4 DEF Promise, RequestRecord
    <2>n. NewPromise(t) \in Promised /\ NewPromise(t).track = t
      BY <1>0, WishesAreNoted
    <2>3. PICK x \in Promised : x = Noted(r, NewPromise(t)) /\ x.track = t
      BY <2>n, WishesAreNoted
    <2>4. promises' = Append(promises, x) /\ Len(promises') = Len(promises) + 1 /\ Len(promises) \in Nat
          /\ promises'[Len(promises')] = x /\ \A p \in 1..Len(promises) : promises'[p] = promises[p]
      BY <1>0, <1>4, <2>3, AppendProperties DEF Promise
    <2>5. pending'[t] = Len(promises') /\ \A u \in Track \ {t} : pending'[u] = pending[u]
      BY <1>0, <1>4 DEF Promise
    <2>6. Len(promises') # 0 /\ Len(promises) <= Len(promises') BY <2>4
    <2> QED BY <1>0, <1>s, <1>n, <2>1, <2>2, <2>3, <2>4, <2>5, <2>6 DEF Serves
  <1>5. CASE NoMetadata(r) \/ EnqueueFails(r)
    <2>1. UNCHANGED <<promises, live, fetched, recon, madeTrue, wanted, excused, tangled, asked>>
          /\ request[r].pc \in {"fetch", "enqueue"} /\ request'[r] = Free
          /\ \A o \in Request \ {r} : request'[o] = request[o]
      BY <1>0, <1>5 DEF NoMetadata, EnqueueFails
    <2>2. pending'[t] \in {0, pending[t]} /\ \A u \in Track \ {t} : pending'[u] = pending[u]
      BY <1>0, <1>5 DEF NoMetadata, EnqueueFails
    <2> QED BY <1>0, <1>s, <1>n, <2>1, <2>2 DEF Serves
  <1>6. CASE (Check(r) \/ Enqueue(r)) /\ Acquired(r)
    <2>1. UNCHANGED <<promises, pending, fetched, recon, madeTrue, tangled, asked>>
          /\ request[r].pc \in {"check", "enqueue"}
      BY <1>6 DEF Check, Enqueue
    <2>2. \A u \in Track \ {t} : live'[u] = live[u] BY <1>0, <1>6 DEF Check, Enqueue
    <2> QED BY <1>0, <1>6, <1>n, <2>1, <2>2, AcquiredServes DEF Serves
  <1>7. CASE (Check(r) /\ ~Acquired(r)) \/ Forward(r)
    <2>1. UNCHANGED <<promises, pending, live, fetched, recon, madeTrue, wanted, excused, tangled, asked>>
          /\ request[r].pc \in {"check", "forward"} /\ \A o \in Request \ {r} : request'[o] = request[o]
      BY <1>0, <1>7 DEF Check, Forward
    <2>2. /\ request'[r].track = t /\ request'[r].kind = request[r].kind
          /\ request'[r].promise = request[r].promise /\ request'[r].pc \in {"enqueue", "file"}
      BY <1>0, <1>7 DEF Check, Forward, RequestRecord
    <2> QED BY <1>0, <1>s, <1>n, <2>1, <2>2 DEF Serves
  <1>8. CASE NotForwarded(r) \/ FileUnder(r)
    <2>1. UNCHANGED <<pending, live, fetched, recon, madeTrue, tangled, asked>>
          /\ request[r].pc \in {"forward", "file"}
      BY <1>8 DEF NotForwarded, FileUnder
    <2>2. PICK wants \in SUBSET Want : Answered(r, wants) /\ wants \subseteq {<<t, "list">>}
      <3>1. {<<t, "list">>} \in SUBSET Want /\ {} \in SUBSET Want BY <1>0 DEF Want, Wish
      <3> QED BY <1>8, <3>1 DEF NotForwarded, FileUnder
    <2>3. \A x \in Want : x[1] # t =>
            (x \in wanted' <=> x \in wanted) /\ (x \in excused' <=> x \in excused)
      BY <2>2, AnsweredIs
    <2>4. \A u \in Track \ {t} : Outstanding(u)' = Outstanding(u) BY <1>0, <2>1, <2>3, OtherWants
    <2>5. /\ Len(promises') = Len(promises)
          /\ \A p \in 1..Len(promises) :
            /\ promises'[p].track = promises[p].track /\ promises[p].wishes \subseteq promises'[p].wishes
            /\ promises[p].track # t => promises'[p] = promises[p]
      <3>1. CASE promises' = promises BY <3>1
      <3>2. CASE pending[t] # 0 /\ promises' = [promises EXCEPT ![pending[t]].wishes = @ \cup {"list"}]
        <4>1. pending[t] \in 1..Len(promises) /\ promises[pending[t]].track = t
              /\ promises[pending[t]] \in Promised
          BY <1>0, <3>2, NumbersAreOfPromises DEF PromisesAreNamed
        <4>2. PICK x : x = [promises[pending[t]] EXCEPT !.wishes = @ \cup {"list"}] OBVIOUS
        <4>3. x.track = t /\ promises[pending[t]].wishes \subseteq x.wishes
          BY <4>1, <4>2 DEF Promised
        <4>4. promises' = [promises EXCEPT ![pending[t]] = x] BY <1>0, <3>2, <4>1, <4>2
        <4>5. Len(promises') = Len(promises) /\ \A p \in 1..Len(promises) :
                promises'[p] = IF p = pending[t] THEN x ELSE promises[p]
          BY <1>0, <4>1, <4>4
        <4> QED BY <4>1, <4>3, <4>5
      <3> QED BY <1>8, <3>1, <3>2 DEF NotForwarded, FileUnder
    <2>6. request'[r] = Free /\ \A o \in Request \ {r} : request'[o] = request[o]
      BY <2>2, AnsweredIs
    <2> QED BY <1>0, <1>n, <2>1, <2>4, <2>5, <2>6 DEF Serves
  <1>9. CASE NotNamed(r)
    <2>1. /\ UNCHANGED <<promises, pending, live, fetched, recon, madeTrue, tangled, asked>>
          /\ request[r].pc = "file" /\ request'[r] = Free
          /\ \A o \in Request \ {r} : request'[o] = request[o]
      BY <1>0, <1>9 DEF NotNamed
    <2>2. \A x \in Want : x[1] # t =>
            (x \in wanted' <=> x \in wanted) /\ (x \in excused' <=> x \in excused)
      <3>1. <<t, "list">>[1] = t OBVIOUS
      <3>2. PICK y : y = <<t, "list">> OBVIOUS
      <3>3. wanted' = wanted \cup {y} /\ excused' \in {excused, excused \cup {y}}
        BY <1>9, <3>2 DEF NotNamed
      <3> QED BY <3>1, <3>2, <3>3
    <2>3. \A u \in Track \ {t} : Outstanding(u)' = Outstanding(u) BY <1>0, <2>1, <2>2, OtherWants
    <2> QED BY <1>0, <1>n, <2>1, <2>3 DEF Serves
  <1> QED BY <1>1, <1>2, <1>3, <1>4, <1>5, <1>6, <1>7, <1>8, <1>9 DEF Enqueue

(* What any step of reconciliation w leaves as it was, and what it may do to the rest. *)
Works(w) ==
    /\ UNCHANGED <<request, promises, live, fetched, tangled, wanted, asked>>
    /\ \A o \in Reconciler \ {w} : recon'[o] = recon[o]
    /\ HeldBy(w)' \subseteq HeldBy(w)
    /\ recon'[w].pc \in {"poll", "star", "file", "drop"} => recon'[w].promise # 0
    /\ \A t \in Track : /\ Outstanding(t)' \subseteq Outstanding(t)
                        /\ pending'[t] \in {0, pending[t]}
    /\ \A t \in Track : pending'[t] # pending[t] => recon[w].promise # 0 /\ t = Current(w).track

LEMMA ReconWorks ==
  ASSUME FacadeTyped, FacadeTyped', PromisesAreNamed, NEW w \in Reconciler,
         \/ ReconNext(w) \/ ReconLate(w) \/ ReconFinds(w) \/ ReconGivesUp(w)
         \/ ReconStars(w) \/ ReconFiles(w) \/ ReconDrops(w)
  PROVE  Works(w)
  <1>0. /\ recon[w] \in ReconRecord /\ recon \in [Reconciler -> ReconRecord] /\ pending \in [Track -> Nat]
        /\ recon[w].promise \in Nat /\ recon[w].pc \in ReconPc
    BY ReconTurns DEF FacadeTyped
  <1>o. wanted' = wanted /\ madeTrue \subseteq madeTrue' /\ excused \subseteq excused' =>
          \A t \in Track : Outstanding(t)' \subseteq Outstanding(t)
    BY DEF Outstanding
  <1>1. CASE ReconNext(w)
    <2>1. PICK p \in recon[w].todo :
            recon' = [recon EXCEPT ![w].todo = @ \ {p}, ![w].promise = p, ![w].pc = "poll"]
      BY <1>1 DEF ReconNext
    <2>2. /\ recon'[w].todo = recon[w].todo \ {p} /\ recon'[w].promise = p
          /\ \A o \in Reconciler \ {w} : recon'[o] = recon[o]
      BY <1>0, <2>1 DEF ReconRecord
    <2>3. HeldBy(w)' \subseteq HeldBy(w) /\ recon'[w].promise # 0
      BY <2>1, <2>2, ReconTurns DEF HeldBy
    <2> QED BY <1>0, <1>1, <1>o, <2>2, <2>3 DEF ReconNext, Works
  <1>2. CASE ReconLate(w) \/ ReconFinds(w)
    <2>1. /\ recon'[w].todo = recon[w].todo /\ recon'[w].promise = recon[w].promise
          /\ \A o \in Reconciler \ {w} : recon'[o] = recon[o]
      BY <1>0, <1>2 DEF ReconLate, ReconFinds, ReconRecord
    <2>2. recon[w].pc = "poll" BY <1>2 DEF ReconLate, ReconFinds
    <2>3. HeldBy(w)' \subseteq HeldBy(w) /\ recon'[w].promise # 0
      BY <2>1, <2>2 DEF HeldBy, PromisesAreNamed
    <2> QED BY <1>0, <1>2, <1>o, <2>1, <2>3 DEF ReconLate, ReconFinds, Works
  <1>3. CASE ReconStars(w) \/ ReconFiles(w)
    <2>1. /\ recon'[w].todo = recon[w].todo /\ recon'[w].promise = recon[w].promise
          /\ \A o \in Reconciler \ {w} : recon'[o] = recon[o]
      BY <1>0, <1>3 DEF ReconStars, ReconFiles, ReconRecord
    <2>2. recon[w].pc \in {"star", "file"} BY <1>3 DEF ReconStars, ReconFiles
    <2>3. HeldBy(w)' \subseteq HeldBy(w) /\ recon'[w].promise # 0
      BY <2>1, <2>2 DEF HeldBy, PromisesAreNamed
    <2>4. madeTrue \subseteq madeTrue' /\ excused \subseteq excused'
      BY <1>3 DEF ReconStars, ReconFiles, Told
    <2> QED BY <1>0, <1>3, <1>o, <2>1, <2>3, <2>4 DEF ReconStars, ReconFiles, Works
  <1>4. CASE ReconGivesUp(w) \/ ReconDrops(w)
    <2>1. Dropped(w) BY <1>4 DEF ReconGivesUp, ReconDrops
    <2>2. recon[w].pc \in {"poll", "drop"} BY <1>4 DEF ReconGivesUp, ReconDrops
    <2>3. HeldBy(w)' \subseteq HeldBy(w) /\ recon[w].promise # 0
      BY <2>1, <2>2, DroppedIs DEF HeldBy, PromisesAreNamed
    <2>4. madeTrue \subseteq madeTrue' /\ excused \subseteq excused'
      BY <1>4 DEF ReconGivesUp, ReconDrops
    <2>5. \A t \in Track : /\ pending'[t] \in {0, pending[t]}
                           /\ pending'[t] # pending[t] => t = Current(w).track
      BY <1>0, <2>1, DroppedIs
    <2> QED
      BY <1>0, <1>4, <1>o, <2>1, <2>3, <2>4, <2>5, DroppedIs DEF ReconGivesUp, ReconDrops, Works
  <1> QED BY <1>1, <1>2, <1>3, <1>4

(* Numbers keep naming the promises they named.                            *)
LEMMA NamedStep ==
  ASSUME FacadeTyped, FacadeTyped', PromisesAreNamed, [FacadeNext]_facadeVars
  PROVE  PromisesAreNamed'
  <1>n. /\ \A t \in Track : pending[t] # 0 => pending[t] \in 1..Len(promises)
        /\ \A w \in Reconciler : \A p \in HeldBy(w) : p \in 1..Len(promises)
        /\ Len(promises) \in Nat /\ Len(promises') \in Nat
    BY NumbersAreOfPromises DEF FacadeTyped
  <1>1. ASSUME NEW r \in Request, Serves(r) PROVE PromisesAreNamed'
    <2> DEFINE t == request[r].track
    <2>0. t \in Track /\ request[r].promise <= Len(promises) /\ request[r].promise \in Nat
          /\ pending[t] \in Nat /\ Len(promises) <= Len(promises')
      BY <1>1, RequestTurns DEF Serves, PromisesAreNamed, FacadeTyped
    <2>1. ASSUME NEW u \in Track, pending'[u] # 0
          PROVE  pending'[u] <= Len(promises') /\ promises'[pending'[u]].track = u
      <3>1. CASE pending'[u] = pending[u]
        BY <1>n, <1>1, <2>0, <2>1, <3>1 DEF Serves, PromisesAreNamed
      <3>2. CASE pending'[u] # pending[u] BY <1>n, <1>1, <2>0, <2>1, <3>2 DEF Serves
      <3> QED BY <3>1, <3>2
    <2>2. ASSUME NEW o \in Request
          PROVE  /\ request'[o].promise <= Len(promises')
                 /\ request'[o].pc = "note" => request'[o].promise # 0
                                               /\ promises'[request'[o].promise].track = request'[o].track
                 /\ request'[o].kind = "unstar" => request'[o].pc \in {"free", "cancel"}
      <3>1. CASE o # r
        <4>1. request'[o] = request[o] BY <1>1, <3>1 DEF Serves
        <4>2. request[o].pc = "note" => request[o].promise \in 1..Len(promises)
          BY NumbersAreOfPromises
        <4>3. request[o].promise <= Len(promises) /\ request[o].promise \in Nat
          BY RequestTurns DEF PromisesAreNamed
        <4>4. \A p \in 1..Len(promises) : promises'[p].track = promises[p].track BY <1>1 DEF Serves
        <4> QED BY <1>n, <2>0, <4>1, <4>2, <4>3, <4>4 DEF PromisesAreNamed
      <3>2. CASE o = r /\ request'[r] = Free BY <1>n, <3>2, FreeIs
      <3>3. CASE o = r /\ request'[r] # Free
        <4>1. /\ request'[r].track = t /\ request'[r].kind = request[r].kind
              /\ request'[r].promise \in {request[r].promise, pending[t]}
              /\ request[r].kind = "unstar" => request[r].pc \notin {"cancel"}
              /\ request'[r].pc = "note" => request'[r].promise = pending[t] /\ pending[t] # 0
              /\ \A p \in 1..Len(promises) : promises'[p].track = promises[p].track
              /\ request[r].pc # "free"
          BY <1>1, <3>3 DEF Serves
        <4>2. request[r].kind # "unstar" BY <4>1 DEF PromisesAreNamed
        <4>3. request'[r].promise <= Len(promises') BY <1>n, <2>0, <4>1
        <4>4. pending[t] # 0 => promises'[pending[t]].track = t
          BY <1>n, <2>0, <4>1 DEF PromisesAreNamed
        <4> QED BY <3>3, <4>1, <4>2, <4>3, <4>4
      <3> QED BY <3>1, <3>2, <3>3
    <2>3. ASSUME NEW w \in Reconciler
          PROVE  /\ \A p \in HeldBy(w)' : p <= Len(promises')
                 /\ recon'[w].pc \in {"poll", "star", "file", "drop"} => recon'[w].promise # 0
      <3>1. recon' = recon BY <1>1 DEF Serves
      <3>2. HeldBy(w)' = HeldBy(w) BY <3>1 DEF HeldBy
      <3> QED BY <1>n, <2>0, <3>1, <3>2 DEF PromisesAreNamed
    <2> QED BY <2>1, <2>2, <2>3 DEF PromisesAreNamed
  <1>2. ASSUME NEW w \in Reconciler, Works(w) PROVE PromisesAreNamed'
    <2>1. UNCHANGED <<request, promises>> BY <1>2 DEF Works
    <2>2. \A t \in Track : pending'[t] \in {0, pending[t]} BY <1>2 DEF Works
    <2>3. \A o \in Reconciler : /\ HeldBy(o)' \subseteq HeldBy(o)
                                /\ recon'[o].pc \in {"poll", "star", "file", "drop"} =>
                                     recon'[o].promise # 0
      BY <1>2 DEF Works, HeldBy, PromisesAreNamed
    <2> QED BY <2>1, <2>2, <2>3 DEF PromisesAreNamed
  <1>3. ASSUME NEW r \in Request, NEW k \in Kind, NEW t \in Track, Ask(r, k, t) PROVE PromisesAreNamed'
    <2>1. UNCHANGED <<promises, pending, recon>> /\ \A o \in Request \ {r} : request'[o] = request[o]
      BY <1>3 DEF Ask, FacadeTyped
    <2>2. /\ request'[r].promise = 0 /\ request'[r].kind = k
          /\ request'[r].pc = IF k = "unstar" THEN "cancel" ELSE "look"
      BY <1>3 DEF Ask, FacadeTyped
    <2>4. \A w \in Reconciler : HeldBy(w)' = HeldBy(w) BY <2>1 DEF HeldBy
    <2> QED BY <1>n, <2>1, <2>2, <2>4 DEF PromisesAreNamed
  <1>4. ASSUME NEW w \in Reconciler, ReconStart(w) PROVE PromisesAreNamed'
    <2>1. UNCHANGED <<promises, pending, request>> /\ \A o \in Reconciler \ {w} : recon'[o] = recon[o]
      BY <1>4 DEF ReconStart, FacadeTyped
    <2>2. /\ recon'[w].todo = {pending[t] : t \in Track} \ {0} /\ recon'[w].promise = 0
          /\ recon'[w].pc \in {"asleep", "next"}
      BY <1>4 DEF ReconStart, FacadeTyped, Asleep
    <2>3. \A p \in HeldBy(w)' : p <= Len(promises)
      BY <1>n, <2>2 DEF HeldBy
    <2>4. \A o \in Reconciler \ {w} : HeldBy(o)' = HeldBy(o) BY <2>1 DEF HeldBy
    <2> QED BY <2>1, <2>2, <2>3, <2>4 DEF PromisesAreNamed
  <1>5. ASSUME \/ (\E t \in Track : Download(t) \/ NavidromeIndexes(t)) \/ ScanFails \/ UNCHANGED facadeVars
        PROVE PromisesAreNamed'
    <2>1. UNCHANGED <<promises, pending, request, recon>>
      BY <1>5 DEF Download, NavidromeIndexes, ScanFails, facadeVars
    <2> QED BY <2>1 DEF PromisesAreNamed, HeldBy
  <1>6. ASSUME FacadeRestart PROVE PromisesAreNamed'
    <2>1. /\ \A t \in Track : pending'[t] = 0
          /\ \A r \in Request : request'[r] = Free
          /\ \A w \in Reconciler : recon'[w] = Asleep
      BY <1>6 DEF FacadeRestart
    <2>2. \A w \in Reconciler : HeldBy(w)' = {} /\ recon'[w].pc = "asleep"
      BY <2>1 DEF HeldBy, Asleep
    <2> QED BY <1>n, <2>1, <2>2, FreeIs DEF PromisesAreNamed
  <1> QED BY <1>1, <1>2, <1>3, <1>4, <1>5, <1>6, RequestServes, ReconWorks DEF FacadeNext
(* What a request may still do, it may do once.                            *)
LEMMA CountsShrink ==
  ASSUME FacadeTyped, FacadeTyped', RequestsAreCounted, UNCHANGED asked,
         MayEnqueue' \subseteq MayEnqueue, MayPromise' \subseteq MayPromise,
         \/ Len(promises') <= Len(promises)
         \/ Len(promises') = Len(promises) + 1 /\ \E r \in MayPromise : r \notin MayPromise',
         \A t \in Track : \/ live'[t] <= live[t]
                          \/ live'[t] = live[t] + 1 /\ \E r \in MayEnqueue : r \notin MayEnqueue'
  PROVE  RequestsAreCounted'
  <1>1. ASSUME NEW S, NEW T \in SUBSET S, IsFiniteSet(S)
        PROVE  /\ IsFiniteSet(T) /\ Cardinality(T) \in Nat /\ Cardinality(S) \in Nat
               /\ Cardinality(T) <= Cardinality(S)
               /\ \A r \in S : r \notin T => Cardinality(T) + 1 <= Cardinality(S)
    <2>1. /\ IsFiniteSet(T) /\ Cardinality(T) \in Nat /\ Cardinality(S) \in Nat
          /\ Cardinality(T) <= Cardinality(S)
      BY <1>1, FS_Subset, FS_CardinalityType
    <2>2. ASSUME NEW r \in S, r \notin T PROVE Cardinality(T) + 1 <= Cardinality(S)
      <3>1. IsFiniteSet(S \ {r}) /\ Cardinality(S \ {r}) = Cardinality(S) - 1
        BY <1>1, FS_RemoveElement
      <3>2. T \subseteq S \ {r} BY <2>2
      <3>3. Cardinality(T) <= Cardinality(S \ {r}) BY <3>1, <3>2, FS_Subset
      <3> QED BY <2>1, <3>1, <3>3
    <2> QED BY <2>1, <2>2
  <1>2. MayPromise \subseteq MayEnqueue /\ IsFiniteSet(MayEnqueue)
    BY DEF MayPromise, MayEnqueue, RequestsAreCounted
  <1>3. IsFiniteSet(MayPromise) BY <1>1, <1>2
  <1>4. /\ IsFiniteSet(MayEnqueue') /\ Cardinality(MayEnqueue') \in Nat /\ Cardinality(MayEnqueue) \in Nat
        /\ Cardinality(MayEnqueue') <= Cardinality(MayEnqueue)
        /\ \A r \in MayEnqueue :
             r \notin MayEnqueue' => Cardinality(MayEnqueue') + 1 <= Cardinality(MayEnqueue)
    BY <1>1, <1>2
  <1>5. /\ Cardinality(MayPromise') \in Nat /\ Cardinality(MayPromise) \in Nat
        /\ Cardinality(MayPromise') <= Cardinality(MayPromise)
        /\ \A r \in MayPromise :
             r \notin MayPromise' => Cardinality(MayPromise') + 1 <= Cardinality(MayPromise)
    BY <1>1, <1>3
  <1>6. Len(promises) \in Nat /\ Len(promises') \in Nat /\ asked \in Nat
    BY FacadeAssumption DEF FacadeTyped
  <1>7. Len(promises') + Cardinality(MayPromise') <= asked'
    <2>1. Len(promises) + Cardinality(MayPromise) <= asked BY DEF RequestsAreCounted
    <2> QED BY <1>5, <1>6, <2>1
  <1>8. ASSUME NEW t \in Track PROVE live'[t] + Cardinality(MayEnqueue') <= asked'
    <2>1. live[t] + Cardinality(MayEnqueue) <= asked BY DEF RequestsAreCounted
    <2>2. live[t] \in Nat /\ live'[t] \in Nat BY DEF FacadeTyped
    <2> QED BY <1>4, <1>6, <2>1, <2>2, SMTT(30)
  <1> QED BY <1>4, <1>7, <1>8 DEF RequestsAreCounted

(* No more promises and downloads than requests.                           *)
LEMMA FacadeCountsStep ==
  ASSUME FacadeTyped, FacadeTyped', PromisesAreNamed, RequestsAreCounted, [FacadeNext]_facadeVars
  PROVE  RequestsAreCounted'
  <1>t. /\ Len(promises) \in Nat /\ asked \in Nat /\ request \in [Request -> RequestRecord]
        /\ live \in [Track -> Nat] /\ live' \in [Track -> Nat]
    BY FacadeAssumption DEF FacadeTyped
  <1>1. ASSUME NEW r \in Request, NEW k \in Kind, NEW t \in Track, Ask(r, k, t) PROVE RequestsAreCounted'
    <2>1. UNCHANGED <<promises, live>> /\ asked' = asked + 1 /\ request[r].pc = "free"
          /\ \A o \in Request \ {r} : request'[o] = request[o]
      BY <1>1, <1>t DEF Ask
    <2>2. /\ MayEnqueue \subseteq Request \ {r} /\ MayEnqueue' \subseteq MayEnqueue \cup {r}
          /\ MayPromise' \subseteq MayPromise \cup {r} /\ MayPromise \subseteq MayEnqueue
      BY <2>1 DEF MayEnqueue, MayPromise
    <2>3. ASSUME NEW S, IsFiniteSet(S), NEW T \in SUBSET (S \cup {r})
          PROVE  /\ IsFiniteSet(T) /\ Cardinality(T) \in Nat /\ Cardinality(S) \in Nat
                 /\ Cardinality(T) <= Cardinality(S) + 1
      <3>1. /\ IsFiniteSet(S \cup {r}) /\ Cardinality(S \cup {r}) \in Nat /\ Cardinality(S) \in Nat
            /\ Cardinality(S \cup {r}) <= Cardinality(S) + 1
        <4>1. IsFiniteSet(S \cup {r}) /\ Cardinality(S \cup {r}) \in {Cardinality(S), Cardinality(S) + 1}
          BY <2>3, FS_AddElement
        <4>2. Cardinality(S) \in Nat BY <2>3, FS_CardinalityType
        <4> QED BY <4>1, <4>2
      <3>2. IsFiniteSet(T) /\ Cardinality(T) \in Nat /\ Cardinality(T) <= Cardinality(S \cup {r})
        BY <3>1, FS_Subset, FS_CardinalityType
      <3> QED BY <3>1, <3>2
    <2>4. IsFiniteSet(MayEnqueue) /\ IsFiniteSet(MayPromise)
      BY <2>2, FS_Subset DEF RequestsAreCounted
    <2>5. /\ IsFiniteSet(MayEnqueue') /\ Cardinality(MayEnqueue') \in Nat
          /\ Cardinality(MayEnqueue) \in Nat /\ Cardinality(MayEnqueue') <= Cardinality(MayEnqueue) + 1
      BY <2>2, <2>3, <2>4
    <2>6. /\ Cardinality(MayPromise') \in Nat /\ Cardinality(MayPromise) \in Nat
          /\ Cardinality(MayPromise') <= Cardinality(MayPromise) + 1
      BY <2>2, <2>3, <2>4
    <2>7. Len(promises') + Cardinality(MayPromise') <= asked'
      <3>1. Len(promises) + Cardinality(MayPromise) <= asked BY DEF RequestsAreCounted
      <3> QED BY <1>t, <2>1, <2>6, <3>1
    <2>8. ASSUME NEW u \in Track PROVE live'[u] + Cardinality(MayEnqueue') <= asked'
      <3>1. live[u] + Cardinality(MayEnqueue) <= asked BY DEF RequestsAreCounted
      <3> QED BY <1>t, <2>1, <2>5, <3>1
    <2> QED BY <2>5, <2>7, <2>8 DEF RequestsAreCounted
  <1>2. ASSUME NEW r \in Request, Promise(r) PROVE RequestsAreCounted'
    <2>1. UNCHANGED <<live, asked>> /\ request[r].pc = "fetch" /\ request'[r].pc = "check"
          /\ \A o \in Request \ {r} : request'[o] = request[o]
      BY <1>2, <1>t DEF Promise, RequestRecord
    <2>2. Len(promises') = Len(promises) + 1
      <3>1. Noted(r, NewPromise(request[r].track)) \in Promised BY WishesAreNoted, RequestTurns
      <3> QED BY <1>2, <3>1, AppendProperties DEF Promise, FacadeTyped
    <2>3. /\ MayEnqueue' \subseteq MayEnqueue /\ MayPromise' \subseteq MayPromise
          /\ r \in MayPromise /\ r \notin MayPromise'
      BY <2>1 DEF MayEnqueue, MayPromise
    <2> QED BY <1>t, <2>1, <2>2, <2>3, CountsShrink
  <1>3. ASSUME NEW r \in Request, Enqueue(r) PROVE RequestsAreCounted'
    <2>1. UNCHANGED <<promises, asked, madeTrue>> /\ request[r].pc = "enqueue" /\ Acquired(r)
          /\ live' = [live EXCEPT ![request[r].track] = @ + 1]
      BY <1>3 DEF Enqueue
    <2>2. request'[r].pc \in {"free", "forward"} /\ \A o \in Request \ {r} : request'[o] = request[o]
      BY <2>1, AcquiredServes, FreeIs
    <2>3. /\ MayEnqueue' \subseteq MayEnqueue /\ MayPromise' \subseteq MayPromise
          /\ r \in MayEnqueue /\ r \notin MayEnqueue'
      BY <2>1, <2>2 DEF MayEnqueue, MayPromise
    <2>4. \A t \in Track : live'[t] <= live[t] \/ live'[t] = live[t] + 1 BY <1>t, <2>1
    <2> QED BY <1>t, <2>1, <2>3, <2>4, CountsShrink
  <1>4. ASSUME NEW r \in Request,
               \/ Unstar(r) \/ Look(r) \/ NoteExisting(r) \/ NoMetadata(r) \/ Check(r)
               \/ EnqueueFails(r) \/ Forward(r) \/ NotForwarded(r) \/ FileUnder(r)
               \/ NotNamed(r)
        PROVE  RequestsAreCounted'
    <2>1. UNCHANGED <<live, asked>>
      BY <1>4 DEF Unstar, Look, NoteExisting, NoMetadata, Check, EnqueueFails, Forward,
             NotForwarded, FileUnder, NotNamed
    <2>2. Len(promises') = Len(promises)
      <3>1. CASE promises' = promises BY <3>1
      <3>2. CASE \E i, x : promises' = [promises EXCEPT ![i] = x] BY <1>t, <3>2 DEF FacadeTyped
      <3>3. FileUnder(r) => promises' = promises \/
              promises' = [promises EXCEPT ![pending[request[r].track]] =
                             [promises[pending[request[r].track]] EXCEPT !.wishes = @ \cup {"list"}]]
        <4>1. ASSUME pending[request[r].track] # 0 PROVE pending[request[r].track] \in DOMAIN promises
          <5>1. request[r].track \in Track
            BY <1>t, RequestTurns
          <5>2. pending[request[r].track] \in 1..Len(promises)
            BY <1>t, <4>1, <5>1, NumbersAreOfPromises
          <5> QED BY <1>t, <5>2 DEF FacadeTyped
        <4> QED BY <4>1 DEF FileUnder, FacadeTyped
      <3>4. NoteExisting(r) => \E x : promises' = [promises EXCEPT ![request[r].promise] = x]
        BY DEF NoteExisting
      <3> QED BY <1>4, <3>1, <3>2, <3>3, <3>4
        DEF Unstar, Look, NoMetadata, Check, EnqueueFails, Forward, NotForwarded, NotNamed
    <2>3. /\ Serves(r) BY <1>4, RequestServes
    <2>4. \A o \in Request \ {r} : request'[o] = request[o] BY <2>3 DEF Serves
    <2>5. /\ request'[r].pc \in {"look", "fetch"} => request[r].pc \in {"look", "fetch"}
          /\ request'[r].pc \in {"look", "fetch", "check", "enqueue"} =>
               request[r].pc \in {"look", "fetch", "check", "enqueue"}
      <3>1. CASE Unstar(r) \/ NoMetadata(r) \/ EnqueueFails(r)
        BY <1>t, <3>1, FreeIs DEF Unstar, NoMetadata, EnqueueFails
      <3>2. CASE Look(r) BY <3>2 DEF Look
      <3>3. CASE NoteExisting(r) \/ (Check(r) /\ Acquired(r))
        <4>1. Acquired(r) /\ madeTrue' = madeTrue /\ request[r].pc # "cancel"
          BY <3>3 DEF NoteExisting, Check
        <4> QED BY <4>1, AcquiredServes, FreeIs
      <3>4. CASE (Check(r) /\ ~Acquired(r)) \/ Forward(r)
        BY <1>t, <3>4 DEF Check, Forward, RequestRecord
      <3>5. CASE NotForwarded(r) \/ FileUnder(r) \/ NotNamed(r)
        BY <1>t, <3>5, FreeIs DEF NotForwarded, FileUnder, NotNamed, Answered
      <3> QED BY <1>4, <3>1, <3>2, <3>3, <3>4, <3>5
    <2>6. MayEnqueue' \subseteq MayEnqueue /\ MayPromise' \subseteq MayPromise
      BY <2>4, <2>5 DEF MayEnqueue, MayPromise
    <2> QED BY <1>t, <2>1, <2>2, <2>6, CountsShrink
  <1>5. ASSUME \/ (\E w \in Reconciler : Works(w) \/ ReconStart(w)) \/ ScanFails \/ UNCHANGED facadeVars
               \/ (\E t \in Track : NavidromeIndexes(t) \/ Download(t))
        PROVE  RequestsAreCounted'
    <2>1. UNCHANGED <<promises, request, asked>>
      BY <1>5 DEF Works, ReconStart, ScanFails, facadeVars, NavidromeIndexes, Download
    <2>2. \A t \in Track : live'[t] <= live[t]
      <3>1. CASE live' = live BY <1>t, <3>1
      <3>2. ASSUME NEW t \in Track, Download(t) PROVE \A u \in Track : live'[u] <= live[u]
        BY <1>t, <3>2 DEF Download
      <3> QED BY <1>5, <3>1, <3>2 DEF Works, ReconStart, ScanFails, facadeVars, NavidromeIndexes
    <2>3. MayEnqueue' = MayEnqueue /\ MayPromise' = MayPromise BY <2>1 DEF MayEnqueue, MayPromise
    <2> QED BY <1>t, <2>1, <2>2, <2>3, CountsShrink
  <1>6. ASSUME FacadeRestart PROVE RequestsAreCounted'
    <2>1. Len(promises') = 0 /\ UNCHANGED <<live, asked>> /\ \A r \in Request : request'[r] = Free
      BY <1>6 DEF FacadeRestart
    <2>2. MayEnqueue' = {} /\ MayPromise' = {} BY <2>1, FreeIs DEF MayEnqueue, MayPromise
    <2> QED BY <1>t, <2>1, <2>2, CountsShrink
  <1> QED BY <1>1, <1>2, <1>3, <1>4, <1>5, <1>6, ReconWorks DEF FacadeNext
-----------------------------------------------------------------------------
(* A step that does nothing to track t, or only what is named here, leaves it in order. *)
LEMMA LeftInOrder ==
  ASSUME FacadeTyped, FacadeTyped', PromisesAreNamed, NEW t \in Track, InOrderFor(t),
         UNCHANGED <<recon, fetched>>,
         \A r \in Request : \/ request'[r] = request[r]
                            \/ r \notin Serving(t) /\ r \notin Serving(t)',
         pending'[t] = pending[t], live'[t] = live[t], Outstanding(t)' = Outstanding(t),
         Len(promises) <= Len(promises'),
         \A p \in 1..Len(promises) : /\ promises'[p].track = promises[p].track
                                     /\ promises[p].track = t => promises'[p] = promises[p]
  PROVE  InOrderFor(t)'
  <1>n. /\ pending[t] # 0 => pending[t] \in 1..Len(promises) /\ promises[pending[t]].track = t
        /\ \A w \in Reconciler : recon[w].promise # 0 => recon[w].promise \in 1..Len(promises)
        /\ \A w \in Reconciler : \A p \in HeldBy(w) : p \in 1..Len(promises)
    BY NumbersAreOfPromises DEF PromisesAreNamed
  <1>1. Serving(t)' = Serving(t) /\ \A r \in Serving(t) : request'[r] = request[r] BY DEF Serving
  <1>2. pending[t] # 0 => promises'[pending[t]] = promises[pending[t]] BY <1>n
  <1>3. \A w \in Reconciler : HeldBy(w)' = HeldBy(w) BY DEF HeldBy
  <1>4. \A r, q \in Serving(t)' : r = q BY <1>1 DEF InOrderFor
  <1>5. ASSUME NEW r \in Serving(t)' PROVE Relies(r, t)'
    <2>1. Relies(r, t) /\ request'[r] = request[r] BY <1>1, <1>5 DEF InOrderFor
    <2>2. request[r].pc = "enqueue" => t \notin fetched' BY <2>1 DEF Relies
    <2> QED BY <1>2, <2>1, <2>2 DEF Relies, Starring
  <1>6. ASSUME NEW w \in Reconciler, NEW p \in HeldBy(w)', promises'[p].track = t
        PROVE  pending'[t] \in {0, p} /\ Serving(t)' = {}
    BY <1>n, <1>1, <1>3, <1>6 DEF InOrderFor
  <1>7. ASSUME NEW w \in Reconciler, recon'[w].promise # 0, Current(w)'.track = t PROVE SeesTo(w, t)'
    <2>1. recon[w].promise \in 1..Len(promises) /\ Current(w).track = t /\ Current(w)' = Current(w)
      BY <1>n, <1>7 DEF Current
    <2>2. SeesTo(w, t) BY <1>7, <2>1 DEF InOrderFor
    <2> QED BY <2>1, <2>2 DEF SeesTo
  <1>8. \A k \in Outstanding(t)' : pending'[t] # 0 /\ k \in promises'[pending'[t]].wishes
    BY <1>2 DEF InOrderFor
  <1>9. live'[t] <= 1 /\ (t \in fetched' => live'[t] = 0) BY DEF InOrderFor
  <1> QED BY <1>4, <1>5, <1>6, <1>7, <1>8, <1>9 DEF InOrderFor

(* A request that has track t to itself answers for all that is kept of it. *)
LEMMA ServedInOrder ==
  ASSUME FacadeTyped, FacadeTyped', PromisesAreNamed, NEW r \in Request, Serves(r),
         NEW t \in Track, t = request[r].track, InOrderFor(t),
         r \in Serving(t)' => Relies(r, t)',
         \A k \in Outstanding(t)' :
           pending'[t] # 0 /\ k \in promises'[pending'[t]].wishes,
         live'[t] <= 1,
         t \in fetched' => live'[t] = 0
  PROVE  InOrderFor(t)'
  <1>0. r \in Serving(t) BY DEF Serves, Serving
  <1>1. \A q \in Serving(t) : q = r BY <1>0 DEF InOrderFor
  <1>2. \A q \in Serving(t)' : q = r BY <1>1 DEF Serves, Serving
  <1>3. \A w \in Reconciler : \A p \in HeldBy(w) : promises[p].track # t BY <1>0 DEF InOrderFor
  <1>4. \A w \in Reconciler : \A p \in HeldBy(w)' : promises'[p].track # t
    BY <1>3, NumbersAreOfPromises DEF Serves, HeldBy
  <1>5. \A w \in Reconciler : recon'[w].promise # 0 => Current(w)'.track # t
    BY <1>4 DEF HeldBy, Current
  <1>6. \A q \in Serving(t)' : Relies(q, t)' BY <1>2
  <1> QED BY <1>2, <1>4, <1>5, <1>6 DEF InOrderFor

(* A request that serves one track leaves the others in order.             *)
LEMMA OthersInOrder ==
  ASSUME FacadeTyped, FacadeTyped', PromisesAreNamed, NEW r \in Request, Serves(r),
         NEW t \in Track \ {request[r].track}, InOrderFor(t)
  PROVE  InOrderFor(t)'
  <1>1. \A o \in Request : \/ request'[o] = request[o]
                           \/ o \notin Serving(t) /\ o \notin Serving(t)'
    BY FreeIs DEF Serves, Serving
  <1>2. \A p \in 1..Len(promises) : /\ promises'[p].track = promises[p].track
                                    /\ promises[p].track = t => promises'[p] = promises[p]
    BY DEF Serves
  <1>3. /\ UNCHANGED <<recon, fetched>> /\ pending'[t] = pending[t] /\ live'[t] = live[t]
        /\ Outstanding(t)' = Outstanding(t) /\ Len(promises) <= Len(promises')
    BY DEF Serves
  <1> QED BY <1>1, <1>2, <1>3, LeftInOrder

(* A reconciliation keeps a track in order if it drops a promise only when nothing
   is outstanding and has seen to what it claims. *)
LEMMA WorkedInOrder ==
  ASSUME FacadeTyped, FacadeTyped', PromisesAreNamed, NEW w \in Reconciler, Works(w),
         NEW t \in Track, InOrderFor(t),
         pending'[t] # pending[t] => Outstanding(t)' = {},
         recon'[w].promise # 0 /\ Current(w)'.track = t => SeesTo(w, t)'
  PROVE  InOrderFor(t)'
  <1>0. /\ UNCHANGED <<request, promises, live, fetched>> /\ pending'[t] \in {0, pending[t]}
        /\ Outstanding(t)' \subseteq Outstanding(t)
    BY DEF Works
  <1>1. Serving(t)' = Serving(t) BY <1>0 DEF Serving
  <1>2. pending'[t] # pending[t] => Serving(t) = {}
    <2>1. ASSUME pending'[t] # pending[t]
          PROVE  recon[w].promise \in HeldBy(w) /\ promises[recon[w].promise].track = t
      BY <2>1 DEF Works, HeldBy, Current
    <2> QED BY <2>1 DEF InOrderFor
  <1>3. \A r, q \in Serving(t)' : r = q BY <1>1 DEF InOrderFor
  <1>4. ASSUME NEW r \in Serving(t)' PROVE Relies(r, t)'
    <2>1. Relies(r, t) BY <1>1, <1>4 DEF InOrderFor
    <2>2. pending'[t] = pending[t] BY <1>1, <1>2, <1>4
    <2> QED BY <1>0, <2>1, <2>2 DEF Relies, Starring
  <1>5. ASSUME NEW v \in Reconciler, NEW p \in HeldBy(v)', promises'[p].track = t
        PROVE  pending'[t] \in {0, p} /\ Serving(t)' = {}
    <2>1. p \in HeldBy(v) BY <1>5 DEF Works, HeldBy
    <2> QED BY <1>0, <1>1, <1>5, <2>1 DEF InOrderFor
  <1>6. ASSUME NEW v \in Reconciler, recon'[v].promise # 0, Current(v)'.track = t PROVE SeesTo(v, t)'
    <2>1. CASE v = w BY <1>6, <2>1
    <2>2. CASE v # w
      <3>1. recon'[v] = recon[v] /\ Current(v)' = Current(v) BY <1>0, <2>2 DEF Works, Current
      <3>2. SeesTo(v, t) BY <1>6, <3>1 DEF InOrderFor
      <3> QED BY <1>0, <3>1, <3>2 DEF SeesTo
    <2> QED BY <2>1, <2>2
  <1>7. ASSUME NEW k \in Outstanding(t)' PROVE pending'[t] # 0 /\ k \in promises'[pending'[t]].wishes
    <2>1. pending'[t] = pending[t] /\ k \in Outstanding(t) BY <1>0, <1>7
    <2> QED BY <1>0, <2>1 DEF InOrderFor
  <1>8. live'[t] <= 1 /\ (t \in fetched' => live'[t] = 0) BY <1>0 DEF InOrderFor
  <1> QED BY <1>3, <1>4, <1>5, <1>6, <1>7, <1>8 DEF InOrderFor

(* What is outstanding of the track at hand was wished for with the promise at hand. *)
LEMMA OutstandingIsCurrent ==
  ASSUME PromisesAreNamed, NEW w \in Reconciler, recon[w].promise # 0,
         NEW t \in Track, t = Current(w).track, InOrderFor(t)
  PROVE  Outstanding(t) \subseteq Current(w).wishes /\ SeesTo(w, t)
  <1>1. recon[w].promise \in HeldBy(w) /\ promises[recon[w].promise].track = t
    BY DEF HeldBy, Current
  <1>2. pending[t] \in {0, recon[w].promise} BY <1>1 DEF InOrderFor
  <1> QED BY <1>2 DEF InOrderFor, Current

(* Each step of a reconciliation keeps a track in order.                   *)
LEMMA ReconInOrder ==
  ASSUME FacadeTyped, FacadeTyped', PromisesAreNamed, NEW w \in Reconciler, NEW t \in Track, InOrderFor(t),
         \/ ReconNext(w) \/ ReconLate(w) \/ ReconFinds(w) \/ ReconGivesUp(w)
         \/ ReconStars(w) \/ ReconFiles(w) \/ ReconDrops(w)
  PROVE  InOrderFor(t)'
  <1>0. /\ recon[w] \in ReconRecord /\ recon \in [Reconciler -> ReconRecord] /\ pending \in [Track -> Nat]
        /\ Works(w)
    BY ReconTurns, ReconWorks DEF FacadeTyped
  <1>1. CASE ReconNext(w) \/ ReconLate(w) \/ ReconFinds(w)
    <2>1. pending' = pending BY <1>1 DEF ReconNext, ReconLate, ReconFinds
    <2>2. recon'[w].pc \in {"poll", "star"}
      <3>1. CASE ReconNext(w)
        <4>1. PICK p \in recon[w].todo :
                recon' = [recon EXCEPT ![w].todo = @ \ {p}, ![w].promise = p, ![w].pc = "poll"]
          BY <3>1 DEF ReconNext
        <4> QED BY <1>0, <4>1 DEF ReconRecord
      <3>2. CASE ReconLate(w) \/ ReconFinds(w) BY <1>0, <3>2 DEF ReconLate, ReconFinds, ReconRecord
      <3> QED BY <1>1, <3>1, <3>2
    <2>3. SeesTo(w, t)' BY <2>2 DEF SeesTo
    <2> QED BY <1>0, <2>1, <2>3, WorkedInOrder
  <1>2. CASE ReconGivesUp(w) \/ ReconDrops(w)
    <2>1. Dropped(w) /\ recon[w].pc \in {"poll", "drop"} BY <1>2 DEF ReconGivesUp, ReconDrops
    <2>2. recon'[w].promise = 0 BY <2>1, DroppedIs
    <2>3. ASSUME pending'[t] # pending[t] PROVE Outstanding(t)' = {}
      <3>1. t = Current(w).track /\ recon[w].promise # 0 BY <1>0, <2>3 DEF Works
      <3>2. CASE ReconGivesUp(w)
        <4>1. excused' = excused \cup {x \in Want : x[1] = t} BY <3>1, <3>2 DEF ReconGivesUp
        <4>2. \A k \in Wish : <<t, k>> \in Want /\ <<t, k>>[1] = t BY DEF Want
        <4> QED BY <4>1, <4>2 DEF Outstanding
      <3>3. CASE ReconDrops(w)
        <4>1. SeesTo(w, t) /\ recon[w].pc = "drop"
          BY <3>1, <3>3, OutstandingIsCurrent DEF ReconDrops
        <4> QED BY <1>0, <4>1 DEF SeesTo, Works
      <3> QED BY <1>2, <3>2, <3>3
    <2> QED BY <1>0, <2>2, <2>3, WorkedInOrder
  <1>3. CASE ReconStars(w) \/ ReconFiles(w)
    <2>1. pending' = pending /\ promises' = promises /\ recon[w].pc \in {"star", "file"}
          /\ wanted' = wanted
      BY <1>3 DEF ReconStars, ReconFiles
    <2>2. recon'[w].promise = recon[w].promise /\ recon[w].promise # 0
      BY <1>0, <1>3, <2>1 DEF ReconStars, ReconFiles, ReconRecord, PromisesAreNamed
    <2>3. Current(w)' = Current(w) BY <2>1, <2>2 DEF Current
    <2>4. ASSUME t = Current(w).track PROVE SeesTo(w, t)'
      <3>1. Outstanding(t) \subseteq Current(w).wishes /\ SeesTo(w, t)
        BY <2>2, <2>4, OutstandingIsCurrent
      <3>2. Outstanding(t)' \subseteq Outstanding(t) BY <1>0 DEF Works
      <3>3. ASSUME NEW k \in Wish, Told(<<t, k>>) PROVE k \notin Outstanding(t)'
        BY <3>3 DEF Told, Outstanding
      <3>4. \A k \in Outstanding(t) : k \in Wish BY DEF Outstanding
      <3>5. "star" \in Wish /\ "list" \in Wish /\ \A k \in Wish : k \in {"star", "list"} BY DEF Wish
      <3>6. CASE ReconStars(w)
        <4>1. recon'[w].pc = "file" /\ (~recon'[w].lists => "list" \notin Current(w).wishes)
          BY <1>0, <3>6 DEF ReconStars, ReconRecord
        <4>2. "star" \notin Outstanding(t)' BY <2>4, <3>1, <3>2, <3>3, <3>5, <3>6 DEF ReconStars
        <4> QED BY <2>3, <3>2, <3>4, <3>5, <4>1, <4>2 DEF SeesTo
      <3>7. CASE ReconFiles(w)
        <4>1. recon'[w].pc = "drop" /\ recon[w].pc = "file"
          BY <1>0, <3>7 DEF ReconFiles, ReconRecord
        <4>2. "list" \notin Outstanding(t)'
          BY <2>4, <3>1, <3>2, <3>3, <3>5, <3>7 DEF ReconFiles, SeesTo
        <4> QED BY <3>1, <3>2, <4>1, <4>2 DEF SeesTo
      <3> QED BY <1>3, <3>6, <3>7
    <2> QED BY <1>0, <2>1, <2>3, <2>4, WorkedInOrder
  <1> QED BY <1>1, <1>2, <1>3

(* A request that has acquired leaves its track in order.                  *)
LEMMA AcquiredInOrder ==
  ASSUME FacadeTyped, FacadeTyped', PromisesAreNamed, NEW r \in Request, Serves(r), Acquired(r),
         NEW t \in Track, t = request[r].track, InOrderFor(t),
         request[r].pc \in {"note", "check", "enqueue"}, pending'[t] = pending[t], pending[t] # 0,
         Starring(r) => "star" \in promises'[pending[t]].wishes,
         live'[t] <= 1, t \in fetched' => live'[t] = 0
  PROVE  InOrderFor(t)'
  <1>1. pending[t] \in 1..Len(promises) /\
          promises[pending[t]].wishes \subseteq promises'[pending[t]].wishes
    BY NumbersAreOfPromises DEF Serves
  <1>2. \A k \in Outstanding(t) : k \in promises'[pending[t]].wishes BY <1>1 DEF InOrderFor
  <1>3. madeTrue' = madeTrue BY DEF Serves
  <1>4. CASE request[r].kind = "playlist"
    <2>1. request'[r] = [request[r] EXCEPT !.pc = "forward"] /\ UNCHANGED <<wanted, excused>>
      BY <1>4, AcquiredIs
    <2>2. request'[r].pc = "forward" BY <2>1, RequestTurns DEF RequestRecord
    <2>3. Relies(r, t)' BY <2>2 DEF Relies
    <2>4. Outstanding(t)' = Outstanding(t) BY <1>3, <2>1 DEF Outstanding
    <2> QED BY <1>2, <2>3, <2>4, ServedInOrder
  <1>5. CASE request[r].kind # "playlist"
    <2>1. request'[r] = Free /\ wanted' = wanted \cup {<<t, "star">>} /\
            excused' = excused \ {<<t, "star">>}
      BY <1>5, AcquiredIs
    <2>2. r \notin Serving(t)' BY <2>1, FreeIs DEF Serving
    <2>3. Starring(r)
      <3>1. request[r].kind # "unstar" /\ request[r].kind \in Kind
        BY RequestTurns DEF PromisesAreNamed
      <3> QED BY <1>5, <3>1 DEF Starring, Kind
    <2>4. ASSUME NEW k \in Outstanding(t)' PROVE k \in promises'[pending[t]].wishes
      <3>1. CASE k = "star" BY <2>3, <3>1
      <3>2. CASE k # "star"
        <4>1. <<t, k>> # <<t, "star">> BY <3>2
        <4>2. k \in Outstanding(t) BY <1>3, <2>1, <4>1 DEF Outstanding
        <4> QED BY <1>2, <4>2
      <3> QED BY <3>1, <3>2
    <2> QED BY <2>2, <2>4, ServedInOrder
  <1> QED BY <1>4, <1>5

(* Each step of a request leaves its track in order.                       *)
LEMMA RequestInOrder ==
  ASSUME FacadeTyped, FacadeTyped', PromisesAreNamed, NEW r \in Request,
         NEW t \in Track, t = request[r].track, InOrderFor(t),
         \/ Unstar(r) \/ Look(r) \/ NoteExisting(r) \/ Promise(r) \/ NoMetadata(r) \/ Check(r)
         \/ Enqueue(r) \/ EnqueueFails(r) \/ Forward(r) \/ NotForwarded(r) \/ FileUnder(r)
         \/ NotNamed(r)
  PROVE  InOrderFor(t)'
  <1>0. Serves(r) /\ r \in Serving(t) /\ Relies(r, t)
    <2>1. Serves(r) BY RequestServes
    <2>2. r \in Serving(t) BY <2>1 DEF Serves, Serving
    <2> QED BY <2>1, <2>2 DEF InOrderFor
  <1>f. /\ pending \in [Track -> Nat] /\ live \in [Track -> Nat] /\ request \in [Request -> RequestRecord]
        /\ request[r] \in RequestRecord /\ promises \in Seq(Promised)
    BY RequestTurns DEF FacadeTyped
  <1>l. live[t] <= 1 /\ (t \in fetched => live[t] = 0) BY DEF InOrderFor
  <1>o. UNCHANGED <<wanted, madeTrue, excused>> => Outstanding(t)' = Outstanding(t)
    BY DEF Outstanding
  <1>k. \A k \in Outstanding(t) : pending[t] # 0 /\ k \in promises[pending[t]].wishes
    BY DEF InOrderFor
  <1>n. pending[t] # 0 => pending[t] \in 1..Len(promises) BY NumbersAreOfPromises
  <1>w. pending[t] # 0 => promises[pending[t]].wishes \subseteq promises'[pending[t]].wishes
    BY <1>0, <1>n DEF Serves
  <1>1. CASE Unstar(r)
    <2>1. UNCHANGED <<live, fetched>> /\ request'[r] = Free BY <1>1, <1>f DEF Unstar
    <2>2. Outstanding(t)' = {}
      <3>1. \A k \in Wish : <<t, k>>[1] = t OBVIOUS
      <3>2. \A k \in Wish : <<t, k>> \notin wanted' BY <1>1, <3>1 DEF Unstar
      <3> QED BY <3>2 DEF Outstanding
    <2>3. r \notin Serving(t)' BY <2>1, FreeIs DEF Serving
    <2> QED BY <1>0, <1>l, <2>1, <2>2, <2>3, ServedInOrder
  <1>2. CASE Look(r)
    <2>1. UNCHANGED <<promises, pending, live, fetched, wanted, madeTrue, excused>> BY <1>2 DEF Look
    <2>2. request'[r].promise = pending[t] /\ request'[r].pc = IF pending[t] = 0 THEN "fetch" ELSE "note"
      BY <1>2, <1>f DEF Look, RequestRecord
    <2>3. pending[t] = 0 => Outstanding(t)' = {} BY <1>k, <1>o, <2>1
    <2>4. Relies(r, t)' BY <2>1, <2>2, <2>3 DEF Relies
    <2> QED BY <1>0, <1>l, <1>k, <1>o, <2>1, <2>4, ServedInOrder
  <1>3. CASE NoteExisting(r)
    <2>1. /\ UNCHANGED <<pending, live, fetched>> /\ request[r].pc = "note" /\ Acquired(r)
          /\ promises' = [promises EXCEPT ![request[r].promise] = Noted(r, promises[request[r].promise])]
      BY <1>3 DEF NoteExisting
    <2>2. request[r].promise = pending[t] /\ pending[t] # 0
      BY <1>0, <2>1 DEF Relies, PromisesAreNamed
    <2>3. promises'[pending[t]] = Noted(r, promises[pending[t]]) /\ promises[pending[t]] \in Promised
      BY <1>f, <1>n, <2>1, <2>2
    <2>4. Starring(r) => "star" \in promises'[pending[t]].wishes BY <2>3, WishesAreNoted
    <2> QED BY <1>0, <1>l, <2>1, <2>2, <2>4, AcquiredInOrder
  <1>4. CASE Promise(r)
    <2>1. UNCHANGED <<live, fetched, wanted, madeTrue, excused>> /\ request[r].pc = "fetch"
      BY <1>4 DEF Promise
    <2>2. Outstanding(t)' = {} BY <1>0, <1>o, <2>1 DEF Relies
    <2>3. request'[r].pc = "check" /\ request'[r].kind = request[r].kind
      BY <1>4, <1>f DEF Promise, RequestRecord
    <2>4. PICK x \in Promised : x = Noted(r, NewPromise(t)) /\ (Starring(r) => "star" \in x.wishes)
      BY WishesAreNoted
    <2>5. promises' = Append(promises, x) /\ Len(promises') = Len(promises) + 1 /\ Len(promises) \in Nat
          /\ promises'[Len(promises')] = x
      BY <1>4, <1>f, <2>4, AppendProperties DEF Promise
    <2>6. pending'[t] = Len(promises') /\ pending'[t] # 0 BY <1>4, <1>f, <2>5 DEF Promise
    <2>7. Starring(r)' <=> Starring(r) BY <2>3 DEF Starring
    <2>8. Relies(r, t)' BY <2>2, <2>3, <2>4, <2>5, <2>6, <2>7 DEF Relies
    <2> QED BY <1>0, <1>l, <2>1, <2>2, <2>8, ServedInOrder
  <1>5. CASE NoMetadata(r) \/ EnqueueFails(r)
    <2>1. UNCHANGED <<promises, live, fetched, wanted, madeTrue, excused>> /\ request'[r] = Free
          /\ request[r].pc \in {"fetch", "enqueue"}
      BY <1>5, <1>f DEF NoMetadata, EnqueueFails
    <2>2. Outstanding(t)' = {} BY <1>0, <1>o, <2>1 DEF Relies
    <2>3. r \notin Serving(t)' BY <2>1, FreeIs DEF Serving
    <2> QED BY <1>0, <1>l, <2>1, <2>2, <2>3, ServedInOrder
  <1>6. CASE Check(r) /\ Acquired(r)
    <2>1. UNCHANGED <<promises, pending, live, fetched>> /\ request[r].pc = "check"
      BY <1>6 DEF Check
    <2>2. pending[t] # 0 /\ (Starring(r) => "star" \in promises[pending[t]].wishes)
      BY <1>0, <2>1 DEF Relies
    <2> QED BY <1>0, <1>6, <1>l, <2>1, <2>2, AcquiredInOrder
  <1>7. CASE Check(r) /\ ~Acquired(r)
    <2>1. UNCHANGED <<promises, pending, live, fetched, wanted, madeTrue, excused>>
          /\ request[r].pc = "check" /\ ~OnItsWay(t)
      BY <1>7 DEF Check
    <2>2. request'[r].pc = "enqueue" /\ request'[r].kind = request[r].kind
      BY <1>7, <1>f DEF Check, RequestRecord
    <2>3. live[t] = 0 /\ t \notin fetched BY <1>f, <2>1 DEF OnItsWay
    <2>4. Starring(r)' <=> Starring(r) BY <2>2 DEF Starring
    <2>5. Outstanding(t)' = {} /\ pending[t] # 0 /\ (Starring(r) => "star" \in promises[pending[t]].wishes)
      BY <1>0, <1>o, <2>1 DEF Relies
    <2>6. Relies(r, t)' BY <2>1, <2>2, <2>3, <2>4, <2>5 DEF Relies
    <2> QED BY <1>0, <1>l, <2>1, <2>5, <2>6, ServedInOrder
  <1>8. CASE Enqueue(r)
    <2>1. UNCHANGED <<promises, pending, fetched>> /\ request[r].pc = "enqueue" /\ Acquired(r)
      BY <1>8 DEF Enqueue
    <2>2. /\ pending[t] # 0 /\ (Starring(r) => "star" \in promises[pending[t]].wishes)
          /\ live[t] = 0 /\ t \notin fetched
      BY <1>0, <2>1 DEF Relies
    <2>3. live'[t] = 1 BY <1>8, <1>f, <2>2 DEF Enqueue
    <2> QED BY <1>0, <2>1, <2>2, <2>3, AcquiredInOrder
  <1>9. CASE Forward(r)
    <2>1. UNCHANGED <<promises, pending, live, fetched, wanted, madeTrue, excused>>
          /\ request[r].pc = "forward"
      BY <1>9 DEF Forward
    <2>2. request'[r].pc = "file" BY <1>9, <1>f DEF Forward, RequestRecord
    <2>3. Relies(r, t)' BY <1>0, <2>1, <2>2 DEF Relies
    <2> QED BY <1>0, <1>l, <1>k, <1>o, <2>1, <2>3, ServedInOrder
  <1>10. CASE NotForwarded(r)
    <2>1. /\ UNCHANGED <<promises, pending, live, fetched, madeTrue>> /\ request'[r] = Free
          /\ wanted' = wanted /\ excused' = excused
      BY <1>10, <1>f DEF NotForwarded, Answered
    <2>2. r \notin Serving(t)' BY <2>1, FreeIs DEF Serving
    <2> QED BY <1>0, <1>l, <1>k, <1>o, <2>1, <2>2, ServedInOrder
  <1>11. CASE FileUnder(r)
    <2>1. /\ UNCHANGED <<pending, live, fetched, madeTrue>> /\ request'[r] = Free /\ request[r].pc = "file"
          /\ wanted' = wanted \cup {<<t, "list">>} /\ excused' = excused \ {<<t, "list">>}
      BY <1>11, <1>f DEF FileUnder, Answered
    <2>2. r \notin Serving(t)' BY <2>1, FreeIs DEF Serving
    <2>3. pending[t] # 0 BY <1>0, <2>1 DEF Relies
    <2>4. PICK i \in 1..Len(promises) : i = pending[t] BY <1>n, <2>3
    <2>5. "list" \in promises'[i].wishes
      <3>1. PICK x : x = [promises[i] EXCEPT !.wishes = @ \cup {"list"}] OBVIOUS
      <3>2. promises[i] \in Promised BY <1>f
      <3>3. promises' = [promises EXCEPT ![i] = x] BY <1>11, <1>f, <2>3, <2>4, <3>1 DEF FileUnder
      <3>4. promises'[i] = x BY <1>f, <3>3
      <3> QED BY <3>1, <3>2, <3>4 DEF Promised
    <2>6. ASSUME NEW k \in Outstanding(t)' PROVE k \in promises'[pending[t]].wishes
      <3>1. CASE k = "list" BY <2>4, <2>5, <3>1
      <3>2. CASE k # "list"
        <4>1. <<t, k>> # <<t, "list">> BY <3>2
        <4>2. k \in Outstanding(t) BY <2>1, <4>1 DEF Outstanding
        <4> QED BY <1>k, <1>w, <4>2
      <3> QED BY <3>1, <3>2
    <2> QED BY <1>0, <1>l, <2>1, <2>2, <2>3, <2>6, ServedInOrder
  <1>12. CASE NotNamed(r)
    <2>1. /\ UNCHANGED <<promises, pending, live, fetched, madeTrue>> /\ request'[r] = Free
          /\ wanted' = wanted \cup {<<t, "list">>}
          /\ excused' = IF <<t, "list">> \in wanted THEN excused ELSE excused \cup {<<t, "list">>}
      BY <1>12, <1>f DEF NotNamed
    <2>2. r \notin Serving(t)' BY <2>1, FreeIs DEF Serving
    <2>3. Outstanding(t)' \subseteq Outstanding(t)
      <3>1. PICK y : y = <<t, "list">> OBVIOUS
      <3>2. wanted' \ (madeTrue' \cup excused') \subseteq wanted \ (madeTrue \cup excused)
        BY <2>1, <3>1
      <3> QED BY <3>2 DEF Outstanding
    <2> QED BY <1>0, <1>l, <1>k, <2>1, <2>2, <2>3, ServedInOrder
  <1> QED BY <1>1, <1>2, <1>3, <1>4, <1>5, <1>6, <1>7, <1>8, <1>9, <1>10, <1>11, <1>12

(* Whatever moves, a track without overlaps stays in order.                *)
LEMMA TrackOrderStep ==
  ASSUME FacadeInv, FacadeTyped', [FacadeNext]_facadeVars, NEW t \in Track \ tangled'
  PROVE  InOrderFor(t)'
  <1>0. FacadeTyped /\ PromisesAreNamed BY DEF FacadeInv
  <1>1. tangled \subseteq tangled'
    BY RequestServes, ReconWorks, <1>0
    DEF FacadeNext, facadeVars, Ask, Serves, Works, Download, NavidromeIndexes, ReconStart, ScanFails,
        FacadeRestart
  <1>2. t \in Track /\ InOrderFor(t) BY <1>1 DEF FacadeInv
  <1>3. ASSUME NEW r \in Request,
               \/ Unstar(r) \/ Look(r) \/ NoteExisting(r) \/ Promise(r) \/ NoMetadata(r) \/ Check(r)
               \/ Enqueue(r) \/ EnqueueFails(r) \/ Forward(r) \/ NotForwarded(r) \/ FileUnder(r)
               \/ NotNamed(r)
        PROVE  InOrderFor(t)'
    <2>1. CASE t = request[r].track BY <1>0, <1>2, <1>3, <2>1, RequestInOrder
    <2>2. CASE t # request[r].track
      <3>1. Serves(r) BY <1>0, <1>3, RequestServes
      <3> QED BY <1>0, <1>2, <2>2, <3>1, OthersInOrder
    <2> QED BY <2>1, <2>2
  <1>4. ASSUME NEW r \in Request, NEW k \in Kind, NEW u \in Track, Ask(r, k, u) PROVE InOrderFor(t)'
    <2>1. /\ UNCHANGED <<promises, pending, live, fetched, recon, wanted, madeTrue, excused>>
          /\ request[r].pc = "free" /\ \A o \in Request \ {r} : request'[o] = request[o]
          /\ request'[r].track = u /\ request'[r].pc \in {"cancel", "look"}
      BY <1>0, <1>4 DEF Ask, FacadeTyped
    <2>2. Outstanding(t)' = Outstanding(t) BY <2>1 DEF Outstanding
    <2>3. CASE u # t
      <3>1. r \notin Serving(t) /\ r \notin Serving(t)' BY <2>1, <2>3 DEF Serving
      <3> QED BY SMTT(60), <1>0, <1>2, <2>1, <2>2, <3>1, LeftInOrder DEF FacadeTyped
    <2>4. CASE u = t
      <3>1. Serving(t) = {} /\ \A w \in Reconciler : t \notin Holds(w) BY <1>4, <2>4 DEF Ask
      <3>2. Serving(t)' = {r} BY <2>1, <2>4, <3>1 DEF Serving
      <3>3. \A w \in Reconciler : \A p \in HeldBy(w)' : promises'[p].track # t
        BY <2>1, <3>1 DEF Holds, HeldBy
      <3>4. \A w \in Reconciler : recon'[w].promise # 0 => Current(w)'.track # t
        BY <3>3 DEF HeldBy, Current
      <3>5. Relies(r, t)' BY <2>1 DEF Relies
      <3>6. \A k2 \in Outstanding(t)' : pending'[t] # 0 /\ k2 \in promises'[pending'[t]].wishes
        BY <1>2, <2>1, <2>2 DEF InOrderFor
      <3>7. live'[t] <= 1 /\ (t \in fetched' => live'[t] = 0) BY <1>2, <2>1 DEF InOrderFor
      <3> QED BY <3>2, <3>3, <3>4, <3>5, <3>6, <3>7 DEF InOrderFor
    <2> QED BY <2>3, <2>4
  <1>5. ASSUME NEW u \in Track, Download(u) PROVE InOrderFor(t)'
    <2>1. /\ UNCHANGED <<promises, pending, recon, request, wanted, madeTrue, excused>>
          /\ live[u] > 0 /\ live' = [live EXCEPT ![u] = @ - 1] /\ fetched' \in {fetched, fetched \cup {u}}
      BY <1>5 DEF Download
    <2>2. live \in [Track -> Nat] /\ live[t] <= 1 /\ (t \in fetched => live[t] = 0)
      BY <1>0, <1>2 DEF FacadeTyped, InOrderFor
    <2>3. live'[t] <= 1 /\ (t \in fetched' => live'[t] = 0) BY <1>2, <2>1, <2>2
    <2>4. Outstanding(t)' = Outstanding(t) /\ Serving(t)' = Serving(t)
      BY <2>1 DEF Outstanding, Serving
    <2>5. ASSUME NEW r \in Serving(t) PROVE Relies(r, t)'
      <3>1. Relies(r, t) BY <1>2 DEF InOrderFor
      <3>2. request[r].pc = "enqueue" => u # t BY <2>1, <2>2, <3>1 DEF Relies
      <3>3. request[r].pc = "enqueue" => live'[t] = 0 /\ t \notin fetched'
        BY <1>2, <2>1, <2>2, <3>1, <3>2 DEF Relies
      <3> QED BY <2>1, <2>4, <3>1, <3>3 DEF Relies, Starring
    <2>6. \A w \in Reconciler : /\ HeldBy(w)' = HeldBy(w) /\ Current(w)' = Current(w)
                                /\ SeesTo(w, t)' <=> SeesTo(w, t)
      BY <2>1, <2>4 DEF HeldBy, Current, SeesTo
    <2> QED BY <1>2, <2>1, <2>3, <2>4, <2>5, <2>6 DEF InOrderFor
  <1>6. ASSUME \/ (\E u \in Track : NavidromeIndexes(u)) \/ ScanFails \/ UNCHANGED facadeVars
        PROVE  InOrderFor(t)'
    <2>1. UNCHANGED <<promises, pending, live, fetched, recon, request, wanted, madeTrue, excused>>
      BY <1>6 DEF NavidromeIndexes, ScanFails, facadeVars
    <2>2. Outstanding(t)' = Outstanding(t) BY <2>1 DEF Outstanding
    <2>3. Len(promises) <= Len(promises') BY <1>0, <2>1 DEF FacadeTyped
    <2> QED BY <1>0, <1>2, <2>1, <2>2, <2>3, LeftInOrder
  <1>7. ASSUME NEW w \in Reconciler, ReconStart(w) PROVE InOrderFor(t)'
    <2>1. /\ UNCHANGED <<promises, pending, live, fetched, request, wanted, madeTrue, excused>>
          /\ \A o \in Reconciler \ {w} : recon'[o] = recon[o]
      BY <1>0, <1>7 DEF ReconStart, FacadeTyped
    <2>2. /\ recon'[w].todo = {pending[u] : u \in Track} \ {0} /\ recon'[w].promise = 0
          /\ recon'[w].pc \in {"asleep", "next"}
      BY <1>0, <1>7 DEF ReconStart, FacadeTyped, Asleep
    <2>3. Outstanding(t)' = Outstanding(t) /\ Serving(t)' = Serving(t)
      BY <2>1 DEF Outstanding, Serving
    <2>4. ASSUME NEW r \in Serving(t) PROVE Relies(r, t)'
      <3>1. Relies(r, t) BY <1>2 DEF InOrderFor
      <3> QED BY <2>1, <2>3, <3>1 DEF Relies, Starring
    <2>5. ASSUME NEW v \in Reconciler, NEW p \in HeldBy(v)', promises'[p].track = t
          PROVE  pending'[t] \in {0, p} /\ Serving(t)' = {}
      <3>1. CASE v # w
        <4>1. p \in HeldBy(v) BY <2>1, <2>5, <3>1 DEF HeldBy
        <4> QED BY <1>2, <2>1, <2>3, <2>5, <4>1 DEF InOrderFor
      <3>2. CASE v = w
        <4>1. PICK u \in Track : p = pending[u] /\ p # 0 BY <2>2, <2>5, <3>2 DEF HeldBy
        <4>2. u = t BY <1>0, <2>1, <2>5, <4>1 DEF PromisesAreNamed
        <4>3. Serving(t) = {}
          <5>1. p \in {pending[x] : x \in Track} \ {0} BY <4>1
          <5>2. t \in {promises[q].track : q \in {pending[x] : x \in Track} \ {0}}
            BY <2>1, <2>5, <5>1
          <5> QED BY <1>2, <1>7, <5>2 DEF ReconStart
        <4> QED BY <2>1, <2>3, <4>1, <4>2, <4>3
      <3> QED BY <3>1, <3>2
    <2>6. ASSUME NEW v \in Reconciler, recon'[v].promise # 0, Current(v)'.track = t PROVE SeesTo(v, t)'
      <3>1. v # w /\ recon'[v] = recon[v] BY <2>1, <2>2, <2>6
      <3>2. Current(v)' = Current(v) BY <2>1, <3>1 DEF Current
      <3>3. SeesTo(v, t) BY <1>2, <2>6, <3>1, <3>2 DEF InOrderFor
      <3> QED BY <2>3, <3>1, <3>2, <3>3 DEF SeesTo
    <2> QED BY <1>2, <2>1, <2>3, <2>4, <2>5, <2>6 DEF InOrderFor
  <1>8. ASSUME FacadeRestart PROVE InOrderFor(t)'
    <2>1. /\ UNCHANGED <<live, fetched, wanted>> /\ excused' = Want
          /\ \A r \in Request : request'[r] = Free
          /\ \A w \in Reconciler : recon'[w] = Asleep
      BY <1>8 DEF FacadeRestart
    <2>2. Serving(t)' = {} BY <2>1, FreeIs DEF Serving
    <2>3. \A w \in Reconciler : HeldBy(w)' = {} /\ recon'[w].promise = 0 BY <2>1 DEF HeldBy, Asleep
    <2>4. Outstanding(t)' = {} BY <1>0, <2>1 DEF Outstanding, FacadeTyped
    <2>5. live'[t] <= 1 /\ (t \in fetched' => live'[t] = 0) BY <1>2, <2>1 DEF InOrderFor
    <2> QED BY <2>2, <2>3, <2>4, <2>5 DEF InOrderFor
  <1> QED BY <1>0, <1>2, <1>3, <1>4, <1>5, <1>6, <1>7, <1>8, ReconInOrder DEF FacadeNext

(* Whatever interleaves, numbers name promises, requests are counted, and the
   tracks whose requests do not overlap are in order. *)
THEOREM FacadeInvariant == FacadeSpec => []FacadeInv
  <1>1. FacadeInit => FacadeInv
    <2> SUFFICES ASSUME FacadeInit PROVE FacadeInv OBVIOUS
    <2>0. MaxRequests \in Nat /\ MaxFacadeFaults \in Nat BY FacadeAssumption
    <2>1. FacadeTyped
      <3>1. promises \in Seq(Promised) /\ pending \in [Track -> Nat] /\ live \in [Track -> Nat]
        BY DEF FacadeInit
      <3>2. request \in [Request -> RequestRecord] /\ recon \in [Reconciler -> ReconRecord]
        BY FacadeRecords DEF FacadeInit
      <3>3. asked \in 0..MaxRequests /\ faults \in 0..MaxFacadeFaults BY <2>0 DEF FacadeInit
      <3> QED BY <3>1, <3>2, <3>3 DEF FacadeInit, FacadeTyped
    <2>2. \A w \in Reconciler : HeldBy(w) = {} /\ recon[w].promise = 0 /\ recon[w].pc = "asleep"
      BY DEF FacadeInit, Asleep, HeldBy
    <2>3. \A r \in Request : request[r] = Free BY DEF FacadeInit
    <2>4. Len(promises) = 0 /\ \A t \in Track : pending[t] = 0 /\ live[t] = 0 BY DEF FacadeInit
    <2>5. PromisesAreNamed BY <2>2, <2>3, <2>4, FreeIs DEF PromisesAreNamed
    <2>6. MayPromise = {} /\ MayEnqueue = {} BY <2>3, FreeIs DEF MayPromise, MayEnqueue
    <2>7. RequestsAreCounted BY <2>4, <2>6, FS_EmptySet DEF RequestsAreCounted, FacadeInit
    <2>8. ASSUME NEW t \in Track PROVE InOrderFor(t)
      <3>1. Serving(t) = {} BY <2>3, FreeIs DEF Serving
      <3>2. Outstanding(t) = {} /\ t \notin fetched BY DEF Outstanding, FacadeInit
      <3> QED BY <2>2, <2>4, <3>1, <3>2 DEF InOrderFor
    <2> QED BY <2>1, <2>5, <2>7, <2>8 DEF FacadeInv
  <1>2. FacadeInv /\ [FacadeNext]_facadeVars => FacadeInv'
    <2> SUFFICES ASSUME FacadeInv, [FacadeNext]_facadeVars PROVE FacadeInv' OBVIOUS
    <2>0. FacadeTyped /\ PromisesAreNamed /\ RequestsAreCounted BY DEF FacadeInv
    <2>1. FacadeTyped' BY <2>0, FacadeTypedStep
    <2>2. PromisesAreNamed' BY <2>0, <2>1, NamedStep
    <2>3. RequestsAreCounted' BY <2>0, <2>1, FacadeCountsStep
    <2>4. \A t \in Track \ tangled' : InOrderFor(t)' BY <2>1, TrackOrderStep
    <2> QED BY <2>1, <2>2, <2>3, <2>4 DEF FacadeInv
  <1> QED BY <1>1, <1>2, PTL DEF FacadeSpec

(* Every variable of the facade keeps its type: no more promises than requests, no
   number of a promise that was not made, no more downloads than requests. *)
THEOREM FacadeTypeCorrect == FacadeSpec => []FacadeTypeOK
  <1>1. FacadeInv => FacadeTypeOK
    <2> SUFFICES ASSUME FacadeInv PROVE FacadeTypeOK OBVIOUS
    <2>0. FacadeTyped /\ PromisesAreNamed /\ RequestsAreCounted BY DEF FacadeInv
    <2>1. Len(promises) \in Nat /\ asked \in 0..MaxRequests /\ MaxRequests \in Nat
      BY <2>0, FacadeAssumption DEF FacadeTyped
    <2>2. Cardinality(MayEnqueue) \in Nat /\ Cardinality(MayPromise) \in Nat
      <3>1. MayPromise \subseteq MayEnqueue BY DEF MayPromise, MayEnqueue
      <3>2. IsFiniteSet(MayEnqueue) /\ IsFiniteSet(MayPromise)
        BY <2>0, <3>1, FS_Subset DEF RequestsAreCounted
      <3> QED BY <3>2, FS_CardinalityType
    <2>3. Len(promises) <= MaxRequests
      <3>1. Len(promises) + Cardinality(MayPromise) <= asked BY <2>0 DEF RequestsAreCounted
      <3> QED BY <2>1, <2>2, <3>1
    <2>4. live \in [Track -> 0..MaxRequests]
      <3>1. ASSUME NEW t \in Track PROVE live[t] \in 0..MaxRequests
        <4>1. live[t] + Cardinality(MayEnqueue) <= asked /\ live[t] \in Nat
          BY <2>0 DEF RequestsAreCounted, FacadeTyped
        <4> QED BY <2>1, <2>2, <4>1
      <3> QED BY <2>0, <3>1 DEF FacadeTyped
    <2>5. pending \in [Track -> Number]
      <3>1. \A t \in Track : pending[t] \in Number
        BY <2>0, <2>1, NumbersAreOfPromises DEF FacadeTyped, Number
      <3> QED BY <2>0, <3>1 DEF FacadeTyped
    <2>6. request \in [Request -> [pc : RequestPc, kind : Kind, track : Track, promise : Number]]
      <3>1. ASSUME NEW r \in Request
            PROVE  request[r] \in [pc : RequestPc, kind : Kind, track : Track, promise : Number]
        <4>1. request[r].promise \in Number
          BY <2>0, <2>1, RequestTurns DEF PromisesAreNamed, Number
        <4>2. request[r] \in RequestRecord BY <2>0, RequestTurns
        <4> QED BY <4>1, <4>2 DEF RequestRecord
      <3> QED BY <2>0, <3>1 DEF FacadeTyped
    <2>7. recon \in [Reconciler -> [pc : ReconPc, todo : SUBSET (Number \ {0}), promise : Number,
                                    late : BOOLEAN, lists : BOOLEAN]]
      <3>1. ASSUME NEW w \in Reconciler
            PROVE  recon[w] \in [pc : ReconPc, todo : SUBSET (Number \ {0}), promise : Number,
                                 late : BOOLEAN, lists : BOOLEAN]
        <4>1. recon[w].todo \in SUBSET (Number \ {0}) /\ recon[w].promise \in Number
          BY <2>0, <2>1, NumbersAreOfPromises, ReconTurns DEF HeldBy, Number
        <4>2. recon[w] \in ReconRecord BY <2>0, ReconTurns
        <4> QED BY <4>1, <4>2 DEF ReconRecord
      <3> QED BY <2>0, <3>1 DEF FacadeTyped
    <2> QED BY <2>0, <2>3, <2>4, <2>5, <2>6, <2>7 DEF FacadeTypeOK, FacadeTyped, RequestPc, ReconPc
  <1> QED BY <1>1, FacadeInvariant, PTL

(* "The user's action has to end up true of the real track": of a track whose requests
   and reconciliations do not overlap, no want is lost. *)
THEOREM PromisesComeTrue == FacadeSpec => []PromiseIsKept
  <1>1. FacadeInv => PromiseIsKept
    <2> SUFFICES ASSUME FacadeInv, NEW x \in wanted \ (madeTrue \cup excused), x[1] \notin tangled
                 PROVE  pending[x[1]] # 0 /\ x[2] \in promises[pending[x[1]]].wishes
      BY DEF PromiseIsKept
    <2>1. x \in Want BY DEF FacadeInv, FacadeTyped
    <2>2. x[1] \in Track /\ x[2] \in Wish /\ x = <<x[1], x[2]>> BY <2>1 DEF Want
    <2>3. x[2] \in Outstanding(x[1]) BY <2>2 DEF Outstanding
    <2>4. InOrderFor(x[1]) BY <2>2 DEF FacadeInv
    <2> QED BY <2>3, <2>4 DEF InOrderFor
  <1> QED BY <1>1, FacadeInvariant, PTL

(* "A second star for an id already queued only updates the promise": such a track
   has one download that waits, runs or is done. *)
THEOREM DownloadsAreSingle == FacadeSpec => []EnqueuedOnce
  <1>1. FacadeInv => EnqueuedOnce BY DEF FacadeInv, InOrderFor, EnqueuedOnce
  <1> QED BY <1>1, FacadeInvariant, PTL

-----------------------------------------------------------------------------
HitId == {h.id : h \in Hit}

(* A list of keys that names each once. *)
Once(order) == \A i, j \in 1..Len(order) : order[i] = order[j] => i = j

(* The entries past the limit go, and the rest stay in their order. *)
LEMMA KeptIs ==
    ASSUME NEW X, NEW o \in Seq(X), NEW cap \in Nat, Once(o)
    PROVE  /\ Kept(o, cap) \in Seq(X) /\ Once(Kept(o, cap)) /\ Len(Kept(o, cap)) <= cap
           /\ Range(Kept(o, cap)) = Range(o) \ Range(Evicted(o, cap))
<1>1. Len(o) \in Nat /\ DOMAIN o = 1..Len(o)
  OBVIOUS
<1>2. CASE Len(o) <= cap
  <2>1. Kept(o, cap) = o
    BY <1>1, <1>2 DEF Kept
  <2>2. Evicted(o, cap) = <<>>
    BY <1>1, <1>2, SubSeqEmpty DEF Evicted
  <2>3. Range(Evicted(o, cap)) = {}
    BY <2>2 DEF Range
  <2>. QED BY <1>2, <2>1, <2>3
<1>3. CASE Len(o) > cap
  <2> DEFINE d == Len(o) - cap
             kept == Kept(o, cap)
             gone == Evicted(o, cap)
  <2>1. d \in Nat /\ d <= Len(o) /\ d >= 1 /\ Len(o) = d + cap
    BY <1>1, <1>3
  <2>2. kept = SubSeq(o, d + 1, Len(o)) /\ gone = SubSeq(o, 1, d)
    BY <1>1, <1>3 DEF Kept, Evicted
  <2> HIDE DEF d, kept, gone
  <2>3. \A i \in 1..Len(o) : o[i] \in X
    OBVIOUS
  <2>4. /\ kept \in Seq(X)
        /\ Len(kept) = IF d + 1 <= Len(o) THEN Len(o) - (d + 1) + 1 ELSE 0
        /\ \A i \in 1..Len(o) - (d + 1) + 1 : kept[i] = o[d + 1 + i - 1]
    BY <1>1, <2>1, <2>2, <2>3, SubSeqProperties
  <2>5. /\ gone \in Seq(X)
        /\ Len(gone) = IF 1 <= d THEN d - 1 + 1 ELSE 0
        /\ \A i \in 1..d - 1 + 1 : gone[i] = o[1 + i - 1]
    BY <1>1, <2>1, <2>2, <2>3, SubSeqProperties
  <2>6. Len(o) - (d + 1) + 1 = cap /\ d - 1 + 1 = d
    BY <2>1
  <2>7. Len(kept) = cap /\ Len(gone) = d
    BY <1>1, <2>1, <2>4, <2>5
  <2>8. \A i \in 1..cap : d + 1 + i - 1 = d + i /\ d + i \in 1..Len(o)
    BY <2>1
  <2>9. \A i \in 1..d : 1 + i - 1 = i /\ i \in 1..Len(o)
    BY <1>1, <2>1
  <2>10. \A i \in 1..cap : kept[i] = o[d + i]
    BY <2>4, <2>6, <2>8
  <2>11. \A i \in 1..d : gone[i] = o[i]
    BY <2>5, <2>6, <2>9
  <2>12. Once(kept)
    <3> SUFFICES ASSUME NEW i \in 1..cap, NEW j \in 1..cap, kept[i] = kept[j] PROVE i = j
      BY <2>7 DEF Once
    <3>1. d + i = d + j
      BY <2>8, <2>10 DEF Once
    <3>. QED BY <2>1, <3>1
  <2>13. DOMAIN kept = 1..cap /\ DOMAIN gone = 1..d
    BY <2>4, <2>5, <2>7
  <2>14. ASSUME NEW x \in Range(kept) PROVE x \in Range(o) \ Range(gone)
    <3>1. PICK i \in 1..cap : x = o[d + i]
      BY <2>10, <2>13, <2>14 DEF Range
    <3>2. x \in Range(o)
      BY <1>1, <2>8, <3>1 DEF Range
    <3>3. ASSUME x \in Range(gone) PROVE FALSE
      <4>1. PICK j \in 1..d : x = o[j]
        BY <2>11, <2>13, <3>3 DEF Range
      <4>2. d + i = j
        BY <2>8, <2>9, <3>1, <4>1 DEF Once
      <4>. QED BY <2>1, <4>2
    <3>. QED BY <3>2, <3>3
  <2>15. ASSUME NEW x \in Range(o) \ Range(gone) PROVE x \in Range(kept)
    <3>1. PICK i \in 1..Len(o) : x = o[i]
      BY <1>1, <2>15 DEF Range
    <3>2. i \notin 1..d
      BY <2>11, <2>13, <2>15, <3>1 DEF Range
    <3>3. i - d \in 1..cap /\ d + (i - d) = i
      BY <1>1, <2>1, <3>2
    <3>. QED BY <2>10, <2>13, <3>1, <3>3 DEF Range
  <2>. QED BY <1>1, <2>4, <2>7, <2>12, <2>14, <2>15 DEF kept, gone
<1>. QED BY <1>1, <1>2, <1>3

(* A key more, if it is not there yet. *)
LEMMA OneKeyMore ==
    ASSUME NEW X, NEW o \in Seq(X), NEW x \in X, Once(o), x \notin Range(o)
    PROVE  /\ Append(o, x) \in Seq(X) /\ Once(Append(o, x)) /\ Range(Append(o, x)) = Range(o) \cup {x}
<1> DEFINE u == Append(o, x)
<1>1. /\ u \in Seq(X) /\ Len(u) = Len(o) + 1 /\ u[Len(o) + 1] = x
      /\ \A i \in 1..Len(o) : u[i] = o[i]
  BY AppendProperties
<1> HIDE DEF u
<1>2. Len(o) \in Nat /\ DOMAIN o = 1..Len(o) /\ DOMAIN u = 1..Len(o) + 1
  BY <1>1
<1>3. \A i \in 1..Len(o) : o[i] # x
  BY <1>2 DEF Range
<1>4. \A i \in 1..Len(o) + 1 : i \in 1..Len(o) \/ i = Len(o) + 1
  BY <1>2
<1>5. ASSUME NEW i \in 1..Len(u), NEW j \in 1..Len(u), u[i] = u[j] PROVE i = j
  BY <1>1, <1>3, <1>4, <1>5 DEF Once
<1>6. Range(u) = Range(o) \cup {x}
  <2>1. \A i \in 1..Len(o) : i \in 1..Len(o) + 1
    BY <1>2
  <2>2. Len(o) + 1 \in 1..Len(o) + 1
    BY <1>2
  <2>. QED BY <1>1, <1>2, <1>4, <2>1, <2>2 DEF Range
<1>. QED BY <1>1, <1>5, <1>6 DEF Once, u

(* Whatever rows are remembered, no track is twice in the list and the list is
   within its limit. *)
LEMMA RememberedIs ==
    ASSUME NEW order \in Seq(HitId), NEW rows \in Seq(Hit), Once(order), Len(order) <= SeenCap
    PROVE  /\ Remembered(order, rows) \in Seq(HitId)
           /\ Once(Remembered(order, rows)) /\ Len(Remembered(order, rows)) <= SeenCap
<1> DEFINE Good == {o \in Seq(HitId) : Once(o) /\ Len(o) <= SeenCap}
           g == [p \in (1..Len(rows)) \X Good |->
                   IF rows[p[1]].id \in Range(p[2]) THEN p[2] ELSE Kept(Append(p[2], rows[p[1]].id),
                     SeenCap)]
<1>1. SeenCap \in Nat /\ Len(rows) \in Nat
  BY SearchAssumption
<1>2. ASSUME NEW o \in Good, NEW n \in 1..Len(rows), rows[n].id \notin Range(o)
      PROVE  Kept(Append(o, rows[n].id), SeenCap) \in Good
  <2>1. rows[n].id \in HitId
    BY DEF HitId
  <2>2. Append(o, rows[n].id) \in Seq(HitId) /\ Once(Append(o, rows[n].id))
    BY <1>2, <2>1, OneKeyMore
  <2>. QED BY <1>1, <2>2, KeptIs
<1>3. g \in [(1..Len(rows)) \X Good -> Good]
  <2> SUFFICES ASSUME NEW p \in (1..Len(rows)) \X Good
               PROVE  (IF rows[p[1]].id \in Range(p[2]) THEN p[2] ELSE Kept(Append(p[2], rows[p[1]].id),
                        SeenCap)) \in Good
    OBVIOUS
  <2>1. p[1] \in 1..Len(rows) /\ p[2] \in Good
    OBVIOUS
  <2> HIDE DEF Good
  <2>. QED BY <1>2, <2>1
<1>4. order \in Good
  OBVIOUS
<1>5. PICK h \in [0..Len(rows) -> Good] : Runs(Len(rows), h, order, g)
  <2> HIDE DEF g, Good
  <2>. QED BY <1>1, <1>3, <1>4, LoopExists
<1> DEFINE After(k) == k = [n \in 0..Len(rows) |->
                              IF n = 0 THEN order
                              ELSE IF rows[n].id \in Range(k[n - 1]) THEN k[n - 1]
                              ELSE Kept(Append(k[n - 1], rows[n].id), SeenCap)]
<1>6. ASSUME NEW n \in 0..Len(rows), n # 0
      PROVE  h[n] = IF rows[n].id \in Range(h[n - 1]) THEN h[n - 1] ELSE Kept(Append(h[n - 1], rows[n].id),
               SeenCap)
  <2>0. n \in 1..Len(rows) /\ n - 1 \in 0..Len(rows)
    BY <1>1, <1>6
  <2>1. h[n - 1] \in Good
    BY <2>0
  <2>2. <<n, h[n - 1]>> \in (1..Len(rows)) \X Good
    BY <2>0, <2>1
  <2>3. h[n] = g[<<n, h[n - 1]>>]
    BY <1>5, <2>0 DEF Runs
  <2> HIDE DEF Good
  <2>. QED BY <2>2, <2>3
<1>7. After(h)
  <2>1. h[0] = order
    BY <1>5 DEF Runs
  <2> HIDE DEF Good, g
  <2>2. h = [n \in 0..Len(rows) |-> h[n]]
    BY <1>5
  <2>3. \A n \in 0..Len(rows) : h[n] = IF n = 0 THEN order
                              ELSE IF rows[n].id \in Range(h[n - 1]) THEN h[n - 1]
                              ELSE Kept(Append(h[n - 1], rows[n].id), SeenCap)
    BY <1>6, <2>1
  <2>. QED BY <2>2, <2>3
<1>8. \A k : After(k) => k = h
  <2> SUFFICES ASSUME NEW k, After(k) PROVE k = h
    OBVIOUS
  <2> DEFINE T == {n \in 0..Len(rows) : k[n] = h[n]}
  <2>0. k = [n \in 0..Len(rows) |-> k[n]]
    OBVIOUS
  <2>1. 0 \in T
    BY <1>1, <1>5 DEF Runs
  <2>2. ASSUME NEW n \in 0..Len(rows), n < Len(rows), n \in T PROVE n + 1 \in T
    <3>1. n + 1 \in 0..Len(rows) /\ n + 1 # 0 /\ (n + 1) - 1 = n
      BY <2>2, <1>1
    <3>2. k[n + 1] = IF rows[n + 1].id \in Range(k[n]) THEN k[n] ELSE Kept(Append(k[n], rows[n + 1].id),
            SeenCap)
      BY <3>1
    <3>3. h[n + 1] = IF rows[n + 1].id \in Range(h[n]) THEN h[n] ELSE Kept(Append(h[n], rows[n + 1].id),
            SeenCap)
      BY <3>1, <1>6
    <3>. QED BY <2>2, <3>1, <3>2, <3>3
  <2>3. 0..Len(rows) \subseteq T
    <3> HIDE DEF T
    <3>. QED BY <1>1, <2>1, <2>2, StepByStep
  <2> HIDE DEF Good, g
  <2>. QED BY <1>5, <2>0, <2>3
<1>9. (CHOOSE k : After(k)) = h
  <2> HIDE DEF After
  <2>. QED BY <1>7, <1>8
<1>10. Remembered(order, rows) = h[Len(rows)]
  BY <1>9 DEF Remembered
<1>11. Len(rows) \in 0..Len(rows)
  BY <1>1
<1>12. h[Len(rows)] \in Good
  BY <1>5, <1>11
<1>. QED BY <1>10, <1>12
-----------------------------------------------------------------------------
(* The hits that may be offered. *)
MayBeOffered(songs, library, obtained) ==
    {t \in Hit : /\ t.title # NoKey
                 /\ MatchType(library, CachedISRC, Item(t)) = "none"
                 /\ ~OwnedHas(songs, t.title, t.credit)
                 /\ t.id \notin obtained}

(* What Owned says of a search, for the answers that it got. *)
OwnedBy(songs, library, obtained, t) ==
    \/ t.isrc # NoKey /\ \E e \in library : e.isrc = t.isrc
    \/ \E e \in library \cup songs : e.title = t.title /\ CreditsMatch(e.credit, t.credit)
    \/ t.id \in obtained

(* A hit with a title may be offered unless it is owned: the facade asks with
   the id alone, and the cache knows the ISRC of the hit that has the id. *)
LEMMA OfferedIs ==
    ASSUME NEW songs, NEW library, NEW obtained, NEW t \in Hit
    PROVE  t \in MayBeOffered(songs, library, obtained) <=> t.title # NoKey /\
             ~OwnedBy(songs, library, obtained, t)
<1> DEFINE known == KnownISRC(CachedISRC, Item(t))
<1>1. known = t.isrc
  <2>1. Item(t).isrc = NoKey /\ Item(t).id = t.id
    BY DEF Item
  <2>2. known = IF t.id \in DOMAIN CachedISRC THEN CachedISRC[t.id] ELSE NoKey
    BY <2>1 DEF KnownISRC
  <2>3. DOMAIN CachedISRC = {h.id : h \in {g \in Hit : g.isrc # NoKey}}
    BY DEF CachedISRC
  <2>4. CASE t.isrc = NoKey
    <3>1. t.id \notin DOMAIN CachedISRC
      BY <2>3, <2>4, SearchAssumption
    <3>. QED BY <2>2, <2>4, <3>1
  <2>5. CASE t.isrc # NoKey
    <3>1. t.id \in DOMAIN CachedISRC
      BY <2>3, <2>5
    <3>2. (CHOOSE h \in Hit : h.id = t.id) = t
      BY SearchAssumption
    <3>3. CachedISRC[t.id] = t.isrc
      BY <2>3, <3>1, <3>2 DEF CachedISRC
    <3>. QED BY <2>2, <3>1, <3>3
  <2>. QED BY <2>4, <2>5
<1> HIDE DEF known
<1>2. Item(t).title = t.title /\ Item(t).credit = t.credit
  BY DEF Item
<1>3. MatchType(library, CachedISRC, Item(t)) = "none"
        <=> /\ ~(known # NoKey /\ \E e \in library : e.isrc = known)
            /\ ~(t.title # NoKey /\ \E e \in library : e.title = t.title /\
                 CreditsMatch(e.credit, t.credit))
  BY <1>2 DEF MatchType, known
<1>. QED BY <1>1, <1>3 DEF MayBeOffered, OwnedBy, OwnedHas

Closeness(q, t) == Relevance[q][t.title]

(* Three tiers, one behind the other: what is in them, and the closer first. *)
LEMMA RankedIs ==
    ASSUME NEW q \in SearchText, NEW tracks \in Seq(Hit)
    PROVE  /\ Ranked(q, tracks) \in Seq(Hit)
           /\ \A i \in 1..Len(Ranked(q, tracks)) : \E k \in 1..Len(tracks) :
                Ranked(q, tracks)[i] = tracks[k]
           /\ \A k \in 1..Len(tracks) : \E i \in 1..Len(Ranked(q, tracks)) :
                Ranked(q, tracks)[i] = tracks[k]
           /\ \A i, j \in 1..Len(Ranked(q, tracks)) :
                i < j => Closeness(q, Ranked(q, tracks)[i]) >= Closeness(q, Ranked(q, tracks)[j])
<1> DEFINE a == Tier(q, tracks, 2)
           b == Tier(q, tracks, 1)
           c == Tier(q, tracks, 0)
           ab == a \o b
           r == ab \o c
<1>1. ASSUME NEW n \in 0..2
      PROVE  /\ Tier(q, tracks, n) \in Seq(Hit)
             /\ \A k \in 1..Len(Tier(q, tracks, n)) : /\ Closeness(q, Tier(q, tracks, n)[k]) = n
                                                      /\ \E i \in 1..Len(tracks) :
                                                           Tier(q, tracks, n)[k] = tracks[i]
             /\ \A i \in 1..Len(tracks) : Closeness(q, tracks[i]) = n
                                            => \E k \in 1..Len(Tier(q, tracks, n)) :
                                              Tier(q, tracks, n)[k] = tracks[i]
  <2> DEFINE S == {t \in Hit : Relevance[q][t.title] = n}
             u == Sift(tracks, S)
  <2>1. u = Tier(q, tracks, n)
    BY DEF Tier
  <2>2. \A t \in Hit : t \in S <=> Closeness(q, t) = n
    BY DEF Closeness
  <2> HIDE DEF S
  <2>3. /\ u \in Seq(Hit)
        /\ \A k \in 1..Len(u) : u[k] \in S /\ \E i \in 1..Len(tracks) : u[k] = tracks[i]
        /\ \A i \in 1..Len(tracks) : tracks[i] \in S => \E k \in 1..Len(u) : u[k] = tracks[i]
    BY SiftHas
  <2> HIDE DEF u
  <2>4. \A i \in 1..Len(tracks) : tracks[i] \in Hit
    OBVIOUS
  <2>5. \A k \in 1..Len(u) : Closeness(q, u[k]) = n /\ \E i \in 1..Len(tracks) : u[k] = tracks[i]
    BY <2>2, <2>3, <2>4
  <2>6. \A i \in 1..Len(tracks) : Closeness(q, tracks[i]) = n => \E k \in 1..Len(u) : u[k] = tracks[i]
    BY <2>2, <2>3, <2>4
  <2>. QED BY <2>1, <2>3, <2>5, <2>6
<1>2. /\ a \in Seq(Hit) /\ \A k \in 1..Len(a) : Closeness(q, a[k]) = 2 /\
           \E i \in 1..Len(tracks) : a[k] = tracks[i]
      /\ \A i \in 1..Len(tracks) : Closeness(q, tracks[i]) = 2 => \E k \in 1..Len(a) : a[k] = tracks[i]
  BY <1>1
<1>3. /\ b \in Seq(Hit) /\ \A k \in 1..Len(b) : Closeness(q, b[k]) = 1 /\
           \E i \in 1..Len(tracks) : b[k] = tracks[i]
      /\ \A i \in 1..Len(tracks) : Closeness(q, tracks[i]) = 1 => \E k \in 1..Len(b) : b[k] = tracks[i]
  BY <1>1
<1>4. /\ c \in Seq(Hit) /\ \A k \in 1..Len(c) : Closeness(q, c[k]) = 0 /\
           \E i \in 1..Len(tracks) : c[k] = tracks[i]
      /\ \A i \in 1..Len(tracks) : Closeness(q, tracks[i]) = 0 => \E k \in 1..Len(c) : c[k] = tracks[i]
  BY <1>1
<1>5. r = Ranked(q, tracks)
  BY DEF Ranked
<1> HIDE DEF a, b, c
<1>6. /\ ab \in Seq(Hit) /\ Len(ab) = Len(a) + Len(b)
      /\ \A i \in 1..Len(a) + Len(b) : ab[i] = IF i <= Len(a) THEN a[i] ELSE b[i - Len(a)]
  BY <1>2, <1>3, ConcatProperties
<1> HIDE DEF ab
<1>7. /\ r \in Seq(Hit) /\ Len(r) = Len(ab) + Len(c)
      /\ \A i \in 1..Len(ab) + Len(c) : r[i] = IF i <= Len(ab) THEN ab[i] ELSE c[i - Len(ab)]
  <2>1. ab \in Seq(Hit) /\ c \in Seq(Hit)
    BY <1>4, <1>6
  <2>. QED BY <2>1, ConcatProperties
<1> HIDE DEF r
<1>8. Len(a) \in Nat /\ Len(b) \in Nat /\ Len(c) \in Nat
  BY <1>2, <1>3, <1>4
<1>9. \A i \in 1..Len(r) : \/ i \in 1..Len(a) /\ r[i] = a[i]
                           \/ i - Len(a) \in 1..Len(b) /\ i > Len(a) /\ i <= Len(a) + Len(b) /\
                                r[i] = b[i - Len(a)]
                           \/ i - Len(ab) \in 1..Len(c) /\ i > Len(a) + Len(b) /\ r[i] = c[i - Len(ab)]
  <2> SUFFICES ASSUME NEW i \in 1..Len(r)
               PROVE  \/ i \in 1..Len(a) /\ r[i] = a[i]
                      \/ i - Len(a) \in 1..Len(b) /\ i > Len(a) /\ i <= Len(a) + Len(b) /\
                           r[i] = b[i - Len(a)]
                      \/ i - Len(ab) \in 1..Len(c) /\ i > Len(a) + Len(b) /\ r[i] = c[i - Len(ab)]
    OBVIOUS
  <2>1. CASE i <= Len(a)
    BY <1>6, <1>7, <1>8, <2>1
  <2>2. CASE i > Len(a) /\ i <= Len(a) + Len(b)
    BY <1>6, <1>7, <1>8, <2>2
  <2>3. CASE i > Len(a) + Len(b)
    BY <1>6, <1>7, <1>8, <2>3
  <2>4. i <= Len(a) \/ (i > Len(a) /\ i <= Len(a) + Len(b)) \/ i > Len(a) + Len(b)
    BY <1>7, <1>8
  <2>. QED BY <2>1, <2>2, <2>3, <2>4
<1>10. \A i \in 1..Len(r) : \E k \in 1..Len(tracks) : r[i] = tracks[k]
  <2> SUFFICES ASSUME NEW i \in 1..Len(r) PROVE \E k \in 1..Len(tracks) : r[i] = tracks[k]
    OBVIOUS
  <2>1. CASE i \in 1..Len(a) /\ r[i] = a[i]
    BY <1>2, <2>1
  <2>2. CASE i - Len(a) \in 1..Len(b) /\ r[i] = b[i - Len(a)]
    <3>1. \A l \in 1..Len(b) : \E k \in 1..Len(tracks) : b[l] = tracks[k]
      BY <1>3
    <3>. QED BY <2>2, <3>1
  <2>3. CASE i - Len(ab) \in 1..Len(c) /\ r[i] = c[i - Len(ab)]
    <3>1. \A l \in 1..Len(c) : \E k \in 1..Len(tracks) : c[l] = tracks[k]
      BY <1>4
    <3>. QED BY <2>3, <3>1
  <2>. QED BY <1>9, <2>1, <2>2, <2>3
<1>11. ASSUME NEW k \in 1..Len(tracks) PROVE \E i \in 1..Len(r) : r[i] = tracks[k]
  <2>0. tracks[k] \in Hit
    OBVIOUS
  <2>1. Closeness(q, tracks[k]) \in {0, 1, 2}
    BY <2>0, SearchAssumption DEF Closeness
  <2>2. ASSUME NEW l \in 1..Len(a), a[l] = tracks[k] PROVE \E i \in 1..Len(r) : r[i] = tracks[k]
    <3>1. l \in 1..Len(r) /\ l <= Len(a) /\ l <= Len(ab) /\ l \in 1..Len(a) + Len(b) /\
            l \in 1..Len(ab) + Len(c)
      BY <1>6, <1>7, <1>8
    <3>2. r[l] = tracks[k]
      BY <1>6, <1>7, <2>2, <3>1
    <3>. QED BY <3>1, <3>2
  <2>3. ASSUME NEW l \in 1..Len(b), b[l] = tracks[k] PROVE \E i \in 1..Len(r) : r[i] = tracks[k]
    <3> DEFINE i == Len(a) + l
    <3>1. i \in 1..Len(r) /\ i > Len(a) /\ i <= Len(ab) /\ i - Len(a) = l /\ i \in 1..Len(a) + Len(b) /\
            i \in 1..Len(ab) + Len(c)
      BY <1>6, <1>7, <1>8
    <3> HIDE DEF i
    <3>2. r[i] = ab[i] /\ ~(i <= Len(a))
      BY <1>7, <1>8, <3>1
    <3>3. ab[i] = b[l]
      BY <1>6, <3>1, <3>2
    <3>. QED BY <2>3, <3>1, <3>2, <3>3
  <2>4. ASSUME NEW l \in 1..Len(c), c[l] = tracks[k] PROVE \E i \in 1..Len(r) : r[i] = tracks[k]
    <3> DEFINE i == Len(ab) + l
    <3>1. i \in 1..Len(r) /\ ~(i <= Len(ab)) /\ i - Len(ab) = l /\ i \in 1..Len(ab) + Len(c)
      BY <1>6, <1>7, <1>8
    <3> HIDE DEF i
    <3>2. r[i] = c[l]
      BY <1>7, <3>1
    <3>. QED BY <2>4, <3>1, <3>2
  <2>. QED BY <1>2, <1>3, <1>4, <2>1, <2>2, <2>3, <2>4
<1>12. ASSUME NEW i \in 1..Len(r), NEW j \in 1..Len(r), i < j PROVE Closeness(q, r[i]) >= Closeness(q, r[j])
  <2>1. \/ i <= Len(a) /\ Closeness(q, r[i]) = 2
        \/ i > Len(a) /\ i <= Len(a) + Len(b) /\ Closeness(q, r[i]) = 1
        \/ i > Len(a) + Len(b) /\ Closeness(q, r[i]) = 0
    BY <1>2, <1>3, <1>4, <1>8, <1>9
  <2>2. \/ j <= Len(a) /\ Closeness(q, r[j]) = 2
        \/ j > Len(a) /\ j <= Len(a) + Len(b) /\ Closeness(q, r[j]) = 1
        \/ j > Len(a) + Len(b) /\ Closeness(q, r[j]) = 0
    BY <1>2, <1>3, <1>4, <1>8, <1>9
  <2>3. Len(r) \in Nat /\ i \in Nat /\ j \in Nat
    BY <1>7
  <2>. QED BY <1>8, <1>12, <2>1, <2>2, <2>3
<1>. QED BY <1>5, <1>7, <1>10, <1>11, <1>12

(* The rows that are offered: none of them owned, the closer first, and what is
   left out of the catalog's answer is owned or was pushed out by closer ones. *)
LEMMA RowsAreRight ==
    ASSUME NEW q \in SearchText, NEW tracks \in Seq(Hit), NEW songs, NEW library, NEW obtained, NEW rows,
           rows = Rows(q, tracks, songs, library, obtained)
    PROVE  /\ rows \in Seq(Hit)
           /\ \A i \in 1..Len(rows) : ~OwnedBy(songs, library, obtained, rows[i])
           /\ \A i, j \in 1..Len(rows) : i < j => Closeness(q, rows[i]) >= Closeness(q, rows[j])
           /\ \A t \in Range(tracks) \ Range(rows) :
                \/ t.title = NoKey \/ OwnedBy(songs, library, obtained, t)
                \/ /\ Len(rows) = MaxInjected
                   /\ \A i \in 1..Len(rows) : Closeness(q, rows[i]) >= Closeness(q, t)
<1> DEFINE S == MayBeOffered(songs, library, obtained)
           el == Eligible(tracks, songs, library, obtained)
           r == Ranked(q, el)
           m == IF Len(r) < MaxInjected THEN Len(r) ELSE MaxInjected
<1>1. el = Sift(tracks, S)
  BY DEF Eligible, MayBeOffered
<1>2. rows = SubSeq(r, 1, m)
  BY DEF Rows
<1> HIDE DEF S
<1>3. /\ el \in Seq(Hit)
      /\ \A k \in 1..Len(el) : el[k] \in S /\ \E i \in 1..Len(tracks) : el[k] = tracks[i]
      /\ \A i \in 1..Len(tracks) : tracks[i] \in S => \E k \in 1..Len(el) : el[k] = tracks[i]
  <2> DEFINE u == Sift(tracks, S)
  <2>1. /\ u \in Seq(Hit)
        /\ \A k \in 1..Len(u) : u[k] \in S /\ \E i \in 1..Len(tracks) : u[k] = tracks[i]
        /\ \A i \in 1..Len(tracks) : tracks[i] \in S => \E k \in 1..Len(u) : u[k] = tracks[i]
    BY SiftHas
  <2>2. el = u
    BY <1>1
  <2> HIDE DEF u, el
  <2>. QED BY <2>1, <2>2
<1> HIDE DEF el
<1>4. /\ r \in Seq(Hit)
      /\ \A i \in 1..Len(r) : \E k \in 1..Len(el) : r[i] = el[k]
      /\ \A k \in 1..Len(el) : \E i \in 1..Len(r) : r[i] = el[k]
      /\ \A i, j \in 1..Len(r) : i < j => Closeness(q, r[i]) >= Closeness(q, r[j])
  BY <1>3, RankedIs
<1> HIDE DEF r
<1>5. MaxInjected \in Nat /\ Len(r) \in Nat
  BY <1>4, SearchAssumption
<1>6. m \in Nat /\ m <= Len(r) /\ (m < Len(r) => m = MaxInjected)
  BY <1>5
<1> HIDE DEF m
<1>7. rows \in Seq(Hit) /\ Len(rows) = m /\ \A i \in 1..m : rows[i] = r[i]
  <2>1. \A i \in 1..m : r[i] \in Hit
    BY <1>4, <1>5, <1>6
  <2>2. /\ SubSeq(r, 1, m) \in Seq(Hit)
        /\ Len(SubSeq(r, 1, m)) = IF 1 <= m THEN m - 1 + 1 ELSE 0
        /\ \A i \in 1..m - 1 + 1 : SubSeq(r, 1, m)[i] = r[1 + i - 1]
    BY <1>6, <2>1, SubSeqProperties
  <2>3. m - 1 + 1 = m /\ \A i \in 1..m : 1 + i - 1 = i
    BY <1>6
  <2>. QED BY <1>2, <1>6, <2>2, <2>3
<1>8. \A i \in 1..m : i \in 1..Len(r)
  BY <1>5, <1>6
<1>9. ASSUME NEW i \in 1..Len(rows) PROVE ~OwnedBy(songs, library, obtained, rows[i])
  <2>1. rows[i] = r[i] /\ i \in 1..Len(r)
    BY <1>7, <1>8
  <2>2. PICK k \in 1..Len(el) : r[i] = el[k]
    BY <1>4, <2>1
  <2>3. rows[i] \in S
    BY <1>3, <2>1, <2>2
  <2>4. rows[i] \in Hit
    BY <1>7
  <2>. QED BY <2>3, <2>4, OfferedIs DEF S
<1>10. ASSUME NEW i \in 1..Len(rows), NEW j \in 1..Len(rows), i < j
       PROVE  Closeness(q, rows[i]) >= Closeness(q, rows[j])
  BY <1>4, <1>7, <1>8, <1>10
<1>11. ASSUME NEW t \in Range(tracks) \ Range(rows), t.title # NoKey, ~OwnedBy(songs, library, obtained, t)
       PROVE  Len(rows) = MaxInjected /\ \A i \in 1..Len(rows) : Closeness(q, rows[i]) >= Closeness(q, t)
  <2>1. PICK i \in 1..Len(tracks) : t = tracks[i]
    BY <1>11 DEF Range
  <2>2. t \in Hit
    BY <2>1
  <2>3. tracks[i] \in S
    BY <1>11, <2>1, <2>2, OfferedIs DEF S
  <2>4. PICK k \in 1..Len(el) : el[k] = t
    BY <1>3, <2>1, <2>3
  <2>5. PICK p \in 1..Len(r) : r[p] = t
    BY <1>4, <2>4
  <2>6. p \notin 1..m
    <3> SUFFICES ASSUME p \in 1..m PROVE FALSE
      OBVIOUS
    <3>1. rows[p] = t /\ p \in DOMAIN rows
      BY <1>7, <2>5
    <3>. QED BY <1>11, <3>1 DEF Range
  <2>7. m < p /\ m < Len(r)
    BY <1>5, <1>6, <2>6
  <2>8. \A j \in 1..m : j < p
    BY <1>6, <2>7
  <2>. QED BY <1>4, <1>6, <1>7, <1>8, <2>5, <2>7, <2>8
<1>. QED BY <1>7, <1>9, <1>10, <1>11
-----------------------------------------------------------------------------
SearchRecord ==
    [pc : {"free", "forward", "wait", "done"}, query : SearchText,
     lookup : {"none", "cached", "asking", "answered", "failed"},
     tracks : Seq(Hit), rows : Seq(Hit), songs : SUBSET LibrarySong, library : SUBSET LibrarySong,
     fetched : {{}} \cup QueueHas, answer : {"none", "proxied", "raw", "injected"}]

(* What has been offered is made of the answers that the search still holds. *)
Offered(r) ==
    /\ r.tracks \in {<<>>, Catalog[r.query]}
    /\ r.answer = "injected" =>
         r.pc = "done" /\ r.rows = Rows(r.query, r.tracks, r.songs, r.library, r.fetched)

SearchesInv == search \in [Search -> SearchRecord] /\ \A s \in Search : Offered(search[s])

(* A cached answer is the catalog's, and the list of queries says which are. *)
CacheInv ==
    /\ searchOrder \in Seq(SearchText) /\ Once(searchOrder) /\ Len(searchOrder) <= SearchCap
    /\ DOMAIN searchCache = Range(searchOrder)
    /\ \A q \in DOMAIN searchCache : searchCache[q] \in [tracks : {Catalog[q]}, fresh : BOOLEAN]

SeenInv ==
    /\ seenOrder \in Seq(HitId) /\ Once(seenOrder) /\ Len(seenOrder) <= SeenCap
    /\ seen = Range(seenOrder)

SearchInv == SearchesInv /\ CacheInv /\ SeenInv /\ searches \in 0..MaxSearches

(* One search moves on. *)
LEMMA OneSearches ==
    ASSUME SearchesInv, NEW s \in Search, NEW r \in SearchRecord, Offered(r),
             search' = [search EXCEPT ![s] = r]
    PROVE  SearchesInv'
<1>1. search' \in [Search -> SearchRecord]
  BY DEF SearchesInv
<1>2. \A t \in Search : search'[t] = IF t = s THEN r ELSE search[t]
  BY DEF SearchesInv
<1>3. \A t \in Search : Offered(search'[t])
  BY <1>2 DEF SearchesInv
<1>4. \A t \in Search : Offered(search[t])'
  BY <1>3 DEF Offered, Rows, Ranked, Tier, Eligible, CachedISRC
<1>. QED BY <1>1, <1>4 DEF SearchesInv

(* No search. *)
LEMMA SearchFreeIs == Free0 \in SearchRecord /\ Offered(Free0)
<1>1. (CHOOSE q \in SearchText : TRUE) \in SearchText
  BY SearchAssumption
<1>2. <<>> \in Seq(Hit) /\ {} \in SUBSET LibrarySong
  OBVIOUS
<1>3. Free0 \in SearchRecord
  BY <1>1, <1>2 DEF Free0, SearchRecord, NoRows
<1>4. Offered(Free0)
  BY DEF Free0, Offered
<1>. QED BY <1>3, <1>4

(* A search begins with what the cache has for it. *)
LEMMA StartStep == ASSUME SearchInv, NEW s \in Search, NEW q \in SearchText, SearchStart(s, q)
                   PROVE  SearchesInv'
<1> DEFINE r == [Free0 EXCEPT !.pc = "forward", !.query = q,
                       !.tracks = IF Hits(q) THEN searchCache[q].tracks ELSE <<>>,
                       !.lookup = IF Hits(q) THEN "cached" ELSE "asking"]
<1>1. search' = [search EXCEPT ![s] = r]
  BY DEF SearchStart
<1>2. PICK tracks : tracks = IF Hits(q) THEN searchCache[q].tracks ELSE <<>>
  OBVIOUS
<1>3. tracks \in {<<>>, Catalog[q]} /\ tracks \in Seq(Hit)
  <2>1. Hits(q) => searchCache[q] \in [tracks : {Catalog[q]}, fresh : BOOLEAN]
    BY DEF SearchInv, CacheInv, Hits
  <2>2. Catalog[q] \in Seq(Hit) /\ <<>> \in Seq(Hit)
    BY SearchAssumption
  <2>. QED BY <1>2, <2>1, <2>2
<1>4. PICK lookup \in {"cached", "asking"} : lookup = IF Hits(q) THEN "cached" ELSE "asking"
  OBVIOUS
<1>5. r = [Free0 EXCEPT !.pc = "forward", !.query = q, !.tracks = tracks, !.lookup = lookup]
  BY <1>2, <1>4
<1> HIDE DEF r
<1>6. r \in SearchRecord
  BY <1>3, <1>5, SearchFreeIs DEF SearchRecord
<1>7. r.tracks = tracks /\ r.query = q /\ r.answer = "none"
  BY <1>5 DEF Free0
<1>8. Offered(r)
  BY <1>3, <1>7 DEF Offered
<1>. QED BY <1>1, <1>6, <1>8, OneSearches DEF SearchInv

(* Its lookup ends while it waits, or after it has gone without. *)
LEMMA SearchLookupStep == ASSUME SearchInv, NEW s \in Search, CatalogAnswers(s) \/ CatalogFails(s)
                          PROVE  SearchesInv'
<1> DEFINE old == search[s]
<1>1. old \in SearchRecord /\ Offered(old) /\ search \in [Search -> SearchRecord]
  BY DEF SearchInv, SearchesInv
<1>2. \E tracks, lookup :
        /\ search' = [search EXCEPT ![s] = [old EXCEPT !.lookup = lookup, !.tracks = tracks]]
        /\ lookup \in {"answered", "failed"}
        /\ tracks = old.tracks \/ (tracks = Catalog[old.query] /\ old.pc \in {"forward", "wait"})
  <2>1. CASE CatalogAnswers(s)
    <3> DEFINE tracks == IF old.pc \in {"forward", "wait"} THEN Catalog[old.query] ELSE old.tracks
    <3>1. search' = [search EXCEPT ![s] = [old EXCEPT !.lookup = "answered", !.tracks = tracks]]
      BY <1>1, <2>1 DEF CatalogAnswers, SearchRecord
    <3>2. tracks = old.tracks \/ (tracks = Catalog[old.query] /\ old.pc \in {"forward", "wait"})
      OBVIOUS
    <3> HIDE DEF tracks
    <3>. QED BY <3>1, <3>2
  <2>2. CASE CatalogFails(s)
    <3>1. search' = [search EXCEPT ![s] = [old EXCEPT !.lookup = "failed", !.tracks = old.tracks]]
      BY <1>1, <2>2 DEF CatalogFails, SearchRecord
    <3>. QED BY <3>1
  <2>. QED BY <2>1, <2>2
<1> HIDE DEF old
<1>3. PICK tracks, lookup :
        /\ search' = [search EXCEPT ![s] = [old EXCEPT !.lookup = lookup, !.tracks = tracks]]
        /\ lookup \in {"answered", "failed"}
        /\ tracks = old.tracks \/ (tracks = Catalog[old.query] /\ old.pc \in {"forward", "wait"})
  BY <1>2
<1> DEFINE r == [old EXCEPT !.lookup = lookup, !.tracks = tracks]
<1>4. tracks \in Seq(Hit)
  BY <1>1, <1>3, SearchAssumption DEF SearchRecord
<1>5. r \in SearchRecord
  BY <1>1, <1>3, <1>4 DEF SearchRecord
<1>6. /\ r.tracks = tracks /\ r.query = old.query /\ r.answer = old.answer /\ r.pc = old.pc /\
           r.rows = old.rows
      /\ r.songs = old.songs /\ r.library = old.library /\ r.fetched = old.fetched
  BY <1>1 DEF SearchRecord
<1> HIDE DEF r
<1>7. Offered(r)
  BY <1>1, <1>3, <1>6 DEF Offered
<1>. QED BY <1>3, <1>5, <1>7, OneSearches DEF SearchInv, r

(* Navidrome's answer, or none. *)
LEMMA ForwardStep == ASSUME SearchInv, NEW s \in Search, SearchProxied(s) \/ SearchForwarded(s)
                     PROVE  SearchesInv'
<1> DEFINE old == search[s]
<1>1. old \in SearchRecord /\ Offered(old) /\ search \in [Search -> SearchRecord]
  BY DEF SearchInv, SearchesInv
<1>2. \E pc, answer, songs :
        /\ search' = [search EXCEPT ![s] = [old EXCEPT !.pc = pc, !.answer = answer, !.songs = songs]]
        /\ pc \in {"wait", "done"} /\ songs \in SUBSET LibrarySong /\ answer \in {"none", "proxied", "raw"}
  <2>0. old.pc = "forward" /\ old.answer \in {"none", "proxied", "raw"} /\ old.songs \in SUBSET LibrarySong
    BY <1>1 DEF SearchProxied, SearchForwarded, Offered, SearchRecord
  <2>1. CASE SearchProxied(s)
    <3>1. search' = [search EXCEPT ![s] = [old EXCEPT !.pc = "done", !.answer = "proxied",
            !.songs = old.songs]]
      BY <1>1, <2>1 DEF SearchProxied, SearchRecord
    <3>. QED BY <2>0, <3>1
  <2>2. ASSUME NEW songs \in SUBSET LibrarySong,
                 search' = [search EXCEPT ![s].pc = "wait", ![s].songs = songs]
        PROVE  search' = [search EXCEPT ![s] = [old EXCEPT !.pc = "wait", !.answer = old.answer,
                 !.songs = songs]]
    BY <1>1, <2>2 DEF SearchRecord
  <2>3. ASSUME search' = [search EXCEPT ![s].pc = "done", ![s].answer = "raw"]
        PROVE  search' = [search EXCEPT ![s] = [old EXCEPT !.pc = "done", !.answer = "raw",
                 !.songs = old.songs]]
    BY <1>1, <2>3 DEF SearchRecord
  <2>4. CASE SearchForwarded(s)
    <3>1. PICK songs \in SUBSET LibrarySong :
             \/ search' = [search EXCEPT ![s].pc = "wait", ![s].songs = songs]
             \/ search' = [search EXCEPT ![s].pc = "done", ![s].answer = "raw"]
      BY <2>4 DEF SearchForwarded
    <3>. QED BY <2>0, <2>2, <2>3, <3>1
  <2>. QED BY <2>1, <2>4
<1> HIDE DEF old
<1>3. PICK pc, answer, songs :
        /\ search' = [search EXCEPT ![s] = [old EXCEPT !.pc = pc, !.answer = answer, !.songs = songs]]
        /\ pc \in {"wait", "done"} /\ songs \in SUBSET LibrarySong /\ answer \in {"none", "proxied", "raw"}
  BY <1>2
<1> DEFINE r == [old EXCEPT !.pc = pc, !.answer = answer, !.songs = songs]
<1>4. r \in SearchRecord
  BY <1>1, <1>3 DEF SearchRecord
<1>5. r.tracks = old.tracks /\ r.query = old.query /\ r.answer = answer
  BY <1>1 DEF SearchRecord
<1> HIDE DEF r
<1>6. Offered(r)
  BY <1>1, <1>3, <1>5 DEF Offered
<1>. QED BY <1>3, <1>4, <1>6, OneSearches DEF SearchInv, r

(* Rows are put in, or the answer goes out as it came; the rows are remembered. *)
LEMMA AnswerStep == ASSUME SearchInv, NEW s \in Search, SearchAnswers(s) PROVE SearchesInv' /\ SeenInv'
<1> DEFINE old == search[s]
<1>1. old \in SearchRecord /\ Offered(old) /\ search \in [Search -> SearchRecord]
  BY DEF SearchInv, SearchesInv
<1>2. PICK library \in SUBSET LibrarySong, obtained \in QueueHas, fits \in BOOLEAN :
        LET rows == Rows(old.query, old.tracks, old.songs, library, obtained)
        IN  /\ search' = [search EXCEPT
                 ![s] = IF fits /\ rows # NoRows
                        THEN [@ EXCEPT !.pc = "done", !.answer = "injected", !.rows = rows,
                                       !.library = library, !.fetched = obtained]
                        ELSE [@ EXCEPT !.pc = "done", !.answer = "raw"]]
            /\ seenOrder' = Remembered(seenOrder, rows)
            /\ seen' = Range(Remembered(seenOrder, rows))
  BY DEF SearchAnswers
<1> DEFINE rows == Rows(old.query, old.tracks, old.songs, library, obtained)
           in == [old EXCEPT !.pc = "done", !.answer = "injected", !.rows = rows, !.library = library,
             !.fetched = obtained]
           out == [old EXCEPT !.pc = "done", !.answer = "raw"]
<1>3. /\ search' = [search EXCEPT ![s] = IF fits /\ rows # NoRows THEN in ELSE out]
      /\ seenOrder' = Remembered(seenOrder, rows) /\ seen' = Range(Remembered(seenOrder, rows))
  BY <1>1, <1>2
<1>4. rows = Rows(old.query, old.tracks, old.songs, library, obtained)
  OBVIOUS
<1> HIDE DEF old, rows
<1>5. old.query \in SearchText /\ old.tracks \in Seq(Hit)
  BY <1>1 DEF SearchRecord
<1>6. rows \in Seq(Hit)
  BY <1>4, <1>5, RowsAreRight
<1>7. SeenInv'
  <2>1. seenOrder \in Seq(HitId) /\ Once(seenOrder) /\ Len(seenOrder) <= SeenCap
    BY DEF SearchInv, SeenInv
  <2>2. /\ Remembered(seenOrder, rows) \in Seq(HitId)
        /\ Once(Remembered(seenOrder, rows)) /\ Len(Remembered(seenOrder, rows)) <= SeenCap
    BY <1>6, <2>1, RememberedIs
  <2>. QED BY <1>3, <2>2 DEF SeenInv
<1>8. in \in SearchRecord /\ out \in SearchRecord
  BY <1>1, <1>6 DEF SearchRecord
<1>9. /\ in.tracks = old.tracks /\ in.query = old.query /\ in.pc = "done" /\ in.rows = rows
      /\ in.songs = old.songs /\ in.library = library /\ in.fetched = obtained
  BY <1>1 DEF SearchRecord
<1>10. out.tracks = old.tracks /\ out.query = old.query /\ out.answer = "raw"
  BY <1>1 DEF SearchRecord
<1> HIDE DEF in, out
<1>11. Offered(in) /\ Offered(out)
  BY <1>1, <1>4, <1>9, <1>10 DEF Offered
<1>12. PICK r : r = IF fits /\ rows # NoRows THEN in ELSE out
  OBVIOUS
<1>13. r \in SearchRecord /\ Offered(r) /\ search' = [search EXCEPT ![s] = r]
  BY <1>3, <1>8, <1>11, <1>12
<1>. QED BY <1>7, <1>13, OneSearches DEF SearchInv

(* An answer of the catalog goes to the end of the list, or stays where it is,
   and what is past the limit leaves both the list and the cache. *)
LEMMA CacheStep == ASSUME SearchInv, NEW s \in Search, CatalogAnswers(s) PROVE CacheInv'
<1> DEFINE q == search[s].query
           o == OrderWith(q)
<1>1. q \in SearchText
  BY DEF SearchInv, SearchesInv, SearchRecord
<1>2. /\ searchOrder' = Kept(o, SearchCap)
      /\ searchCache' = WithoutHead(CacheWith(q), Range(Evicted(o, SearchCap)))
  BY DEF CatalogAnswers
<1> HIDE DEF q
<1>3. /\ searchOrder \in Seq(SearchText) /\ Once(searchOrder) /\ DOMAIN searchCache = Range(searchOrder)
      /\ \A k \in DOMAIN searchCache : searchCache[k] \in [tracks : {Catalog[k]}, fresh : BOOLEAN]
  BY DEF SearchInv, CacheInv
<1>4. o \in Seq(SearchText) /\ Once(o) /\ Range(o) = Range(searchOrder) \cup {q}
  <2>1. CASE q \in DOMAIN searchCache
    BY <1>3, <2>1 DEF OrderWith
  <2>2. CASE q \notin DOMAIN searchCache
    <3>1. o = Append(searchOrder, q)
      BY <2>2 DEF OrderWith
    <3>. QED BY <1>1, <1>3, <2>2, <3>1, OneKeyMore
  <2>. QED BY <2>1, <2>2
<1> HIDE DEF o
<1>5. SearchCap \in Nat
  BY SearchAssumption
<1>6. /\ Kept(o, SearchCap) \in Seq(SearchText) /\ Once(Kept(o, SearchCap)) /\
           Len(Kept(o, SearchCap)) <= SearchCap
      /\ Range(Kept(o, SearchCap)) = Range(o) \ Range(Evicted(o, SearchCap))
  BY <1>4, <1>5, KeptIs
<1> DEFINE with == CacheWith(q)
           gone == Range(Evicted(o, SearchCap))
<1>7. DOMAIN with = DOMAIN searchCache \cup {q}
      /\ \A k \in DOMAIN with :
           with[k] = IF k = q THEN [tracks |-> Catalog[q], fresh |-> TRUE] ELSE searchCache[k]
  BY DEF CacheWith
<1>8. searchCache' = [k \in DOMAIN with \ gone |-> with[k]]
  BY <1>2 DEF WithoutHead
<1> HIDE DEF with, gone
<1>9. DOMAIN searchCache' = (Range(searchOrder) \cup {q}) \ gone
  BY <1>3, <1>7, <1>8
<1>10. ASSUME NEW k \in DOMAIN searchCache'
       PROVE  searchCache'[k] \in [tracks : {Catalog[k]}, fresh : BOOLEAN]
  <2>1. searchCache'[k] = with[k] /\ k \in DOMAIN with
    BY <1>8, <1>10
  <2>2. CASE k = q
    <3>1. with[k] = [tracks |-> Catalog[q], fresh |-> TRUE]
      BY <1>7, <2>1, <2>2
    <3>. QED BY <2>1, <2>2, <3>1
  <2>3. CASE k # q
    BY <1>3, <1>7, <2>1, <2>3
  <2>. QED BY <2>2, <2>3
<1>. QED BY <1>2, <1>4, <1>6, <1>9, <1>10 DEF CacheInv, gone

(* Each step keeps the caches and the searches. *)
LEMMA SearchStep == SearchInv /\ [SearchNext]_searchVars => SearchInv'
<1> SUFFICES ASSUME SearchInv, [SearchNext]_searchVars PROVE SearchInv'
  OBVIOUS
<1>0. SearchesInv /\ CacheInv /\ SeenInv /\ searches \in 0..MaxSearches /\ MaxSearches \in Nat
  BY SearchAssumption DEF SearchInv
<1>1. ASSUME UNCHANGED <<searchCache, searchOrder>> PROVE CacheInv'
  BY <1>0, <1>1 DEF CacheInv
<1>2. ASSUME UNCHANGED <<seen, seenOrder>> PROVE SeenInv'
  BY <1>0, <1>2 DEF SeenInv
<1>3. ASSUME UNCHANGED search PROVE SearchesInv'
  <2>1. \A s \in Search : Offered(search'[s])
    BY <1>0, <1>3 DEF SearchesInv
  <2>2. \A s \in Search : Offered(search[s])'
    BY <2>1 DEF Offered, Rows, Ranked, Tier, Eligible, CachedISRC
  <2>. QED BY <1>0, <1>3, <2>2 DEF SearchesInv
<1>4. ASSUME NEW s \in Search, NEW q \in SearchText, SearchStart(s, q) PROVE SearchInv'
  <2>1. searches' \in 0..MaxSearches
    BY <1>0, <1>4 DEF SearchStart
  <2>2. UNCHANGED <<searchCache, searchOrder, seen, seenOrder>>
    BY <1>4 DEF SearchStart
  <2>. QED BY <1>1, <1>2, <1>4, <2>1, <2>2, StartStep DEF SearchInv
<1>5. ASSUME NEW s \in Search, CatalogAnswers(s) PROVE SearchInv'
  <2>1. UNCHANGED <<seen, seenOrder, searches>>
    BY <1>5 DEF CatalogAnswers
  <2>. QED BY <1>0, <1>2, <1>5, <2>1, SearchLookupStep, CacheStep DEF SearchInv
<1>6. ASSUME NEW s \in Search, CatalogFails(s) \/ SearchProxied(s) \/ SearchForwarded(s) PROVE SearchInv'
  <2>1. UNCHANGED <<searchCache, searchOrder, seen, seenOrder, searches>>
    BY <1>6 DEF CatalogFails, SearchProxied, SearchForwarded
  <2>2. SearchesInv'
    BY <1>6, SearchLookupStep, ForwardStep
  <2>. QED BY <1>0, <1>1, <1>2, <2>1, <2>2 DEF SearchInv
<1>7. ASSUME NEW s \in Search, SearchAnswers(s) PROVE SearchInv'
  <2>1. UNCHANGED <<searchCache, searchOrder, searches>>
    BY <1>7 DEF SearchAnswers
  <2>. QED BY <1>0, <1>1, <1>7, <2>1, AnswerStep DEF SearchInv
<1>8. ASSUME NEW s \in Search, SearchEnds(s) PROVE SearchInv'
  <2>1. UNCHANGED <<searchCache, searchOrder, seen, seenOrder, searches>> /\
          search' = [search EXCEPT ![s] = Free0]
    BY <1>8 DEF SearchEnds
  <2>2. SearchesInv'
    BY <1>0, <2>1, SearchFreeIs, OneSearches
  <2>. QED BY <1>0, <1>1, <1>2, <2>1, <2>2 DEF SearchInv
<1>9. CASE CacheAges
  <2>1. /\ searchCache' = [q \in DOMAIN searchCache |-> [searchCache[q] EXCEPT !.fresh = FALSE]]
        /\ UNCHANGED <<searchOrder, seen, seenOrder, search, searches>>
    BY <1>9 DEF CacheAges
  <2>2. DOMAIN searchCache' = DOMAIN searchCache
    BY <2>1
  <2>3. ASSUME NEW q \in DOMAIN searchCache
        PROVE  searchCache'[q] \in [tracks : {Catalog[q]}, fresh : BOOLEAN]
    <3>1. searchCache'[q] = [searchCache[q] EXCEPT !.fresh = FALSE]
      BY <2>1
    <3>2. searchCache[q] \in [tracks : {Catalog[q]}, fresh : BOOLEAN]
      BY <1>0 DEF CacheInv
    <3>. QED BY <3>1, <3>2
  <2>4. CacheInv'
    BY <1>0, <2>1, <2>2, <2>3 DEF CacheInv
  <2>. QED BY <1>0, <1>2, <1>3, <2>1, <2>4 DEF SearchInv
<1>10. CASE UNCHANGED searchVars
  BY <1>0, <1>1, <1>2, <1>3, <1>10 DEF SearchInv, searchVars
<1>. QED BY <1>4, <1>5, <1>6, <1>7, <1>8, <1>9, <1>10 DEF SearchNext

(* Nobody searches and nothing is cached at first. *)
LEMMA SearchFirst == SearchInit => SearchInv
<1> SUFFICES ASSUME SearchInit PROVE SearchInv
  OBVIOUS
<1>1. /\ searchCache = <<>> /\ searchOrder = <<>> /\ seen = {} /\ seenOrder = <<>>
      /\ search = [s \in Search |-> Free0] /\ searches = 0
  BY DEF SearchInit
<1>2. DOMAIN searchCache = {} /\ Range(searchOrder) = {} /\ Range(seenOrder) = {}
  BY <1>1 DEF Range
<1>3. CacheInv /\ SeenInv
  <2>1. searchOrder \in Seq(SearchText) /\ Len(searchOrder) = 0 /\ seenOrder \in Seq(HitId) /\
          Len(seenOrder) = 0
    BY <1>1
  <2>2. Once(searchOrder) /\ Once(seenOrder) /\ SearchCap >= 0 /\ SeenCap >= 0
    BY <2>1, SearchAssumption DEF Once
  <2>. QED BY <1>1, <1>2, <2>1, <2>2, SearchAssumption DEF CacheInv, SeenInv
<1>4. SearchesInv
  BY <1>1, SearchFreeIs DEF SearchesInv
<1>. QED BY <1>1, <1>3, <1>4, SearchAssumption DEF SearchInv

(* The inductive invariant of the searches and their caches. *)
THEOREM SearchInvariant == SearchSpec => []SearchInv
BY SearchFirst, SearchStep, PTL DEF SearchSpec

(* Every variable of the searches keeps its type. *)
THEOREM SearchTypeCorrect == SearchSpec => []SearchTypeOK
<1>1. SearchInv => SearchTypeOK
  <2> SUFFICES ASSUME SearchInv PROVE SearchTypeOK
    OBVIOUS
  <2>1. DOMAIN searchCache \subseteq SearchText
    BY DEF SearchInv, CacheInv, Range
  <2>2. \A q \in DOMAIN searchCache : searchCache[q].tracks = Catalog[q] /\ searchCache[q].fresh \in BOOLEAN
    <3> SUFFICES ASSUME NEW q \in DOMAIN searchCache
                 PROVE  searchCache[q].tracks = Catalog[q] /\ searchCache[q].fresh \in BOOLEAN
      OBVIOUS
    <3>1. searchCache[q] \in [tracks : {Catalog[q]}, fresh : BOOLEAN]
      BY DEF SearchInv, CacheInv
    <3>. QED BY <3>1
  <2>3. searchOrder \in Seq(SearchText) /\ seenOrder \in Seq(HitId) /\ searches \in 0..MaxSearches
    BY DEF SearchInv, CacheInv, SeenInv
  <2>4. seen \subseteq HitId
    BY DEF SearchInv, SeenInv, Range
  <2>5. ASSUME NEW s \in Search
        PROVE  /\ search[s].pc \in {"free", "forward", "wait", "done"}
               /\ search[s].lookup \in {"none", "cached", "asking", "answered", "failed"}
               /\ search[s].query \in SearchText /\ search[s].tracks \in {<<>>, Catalog[search[s].query]}
               /\ search[s].rows \in Seq(Hit) /\ search[s].answer \in {"none", "proxied", "raw", "injected"}
    <3>1. search[s] \in SearchRecord /\ Offered(search[s])
      BY DEF SearchInv, SearchesInv
    <3>. QED BY <3>1 DEF SearchRecord, Offered
  <2>. QED BY <2>1, <2>2, <2>3, <2>4, <2>5 DEF SearchTypeOK, HitId
<1>. QED BY <1>1, SearchInvariant, PTL

(* A cache and the list that decides what leaves it next never part. *)
THEOREM CachesKeepInStep == SearchSpec => []CachesInStep
<1>1. SearchInv => CachesInStep
  <2> SUFFICES ASSUME SearchInv PROVE CachesInStep
    OBVIOUS
  <2>1. IsInjective(searchOrder) /\ IsInjective(seenOrder)
    BY DEF SearchInv, CacheInv, SeenInv, Once, IsInjective
  <2>. QED BY <2>1 DEF SearchInv, CacheInv, SeenInv, CachesInStep, InStep
<1>. QED BY <1>1, SearchInvariant, PTL

(* Who searches is offered what can be acquired and nothing else. *)
THEOREM OffersAreAcquirable == SearchSpec => []RowsAreAcquirable
<1>1. SearchInv => RowsAreAcquirable
  <2> SUFFICES ASSUME SearchInv, NEW s \in Search, search[s].answer = "injected"
               PROVE  LET rows == search[s].rows
                          closeness(t) == Relevance[search[s].query][t.title]
                      IN  /\ \A i \in DOMAIN rows : ~Owned(s, rows[i])
                          /\ \A i, j \in DOMAIN rows : i < j => closeness(rows[i]) >= closeness(rows[j])
                          /\ \A t \in Range(search[s].tracks) \ Range(rows) :
                                \/ t.title = NoKey \/ Owned(s, t)
                                \/ Len(rows) = MaxInjected /\
                                     \A i \in DOMAIN rows : closeness(rows[i]) >= closeness(t)
    BY DEF RowsAreAcquirable
  <2> DEFINE r == search[s]
  <2>1. r \in SearchRecord /\ Offered(r)
    BY DEF SearchInv, SearchesInv
  <2>2. r.query \in SearchText /\ r.tracks \in Seq(Hit) /\ r.rows \in Seq(Hit)
    BY <2>1 DEF SearchRecord
  <2>3. r.rows = Rows(r.query, r.tracks, r.songs, r.library, r.fetched)
    BY <2>1 DEF Offered
  <2>4. /\ \A i \in 1..Len(r.rows) : ~OwnedBy(r.songs, r.library, r.fetched, r.rows[i])
        /\ \A i, j \in 1..Len(r.rows) : i < j =>
             Closeness(r.query, r.rows[i]) >= Closeness(r.query, r.rows[j])
        /\ \A t \in Range(r.tracks) \ Range(r.rows) :
                \/ t.title = NoKey \/ OwnedBy(r.songs, r.library, r.fetched, t)
                \/ /\ Len(r.rows) = MaxInjected
                   /\ \A i \in 1..Len(r.rows) : Closeness(r.query, r.rows[i]) >= Closeness(r.query, t)
    BY <2>2, <2>3, RowsAreRight
  <2>5. \A t : Owned(s, t) <=> OwnedBy(r.songs, r.library, r.fetched, t)
    BY DEF Owned, OwnedBy
  <2>6. DOMAIN r.rows = 1..Len(r.rows)
    BY <2>2
  <2>. QED BY <2>4, <2>5, <2>6 DEF Closeness
<1>. QED BY <1>1, SearchInvariant, PTL
==============================================================================
