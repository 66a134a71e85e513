------------------------------- MODULE TrackIds -------------------------------
(***************************************************************************)
(* A track's ISRC and UPC (GetSpotifyTrackIdentifiersDirect in             *)
(* isrc_finder.go), by an anonymous token that is kept in a file between   *)
(* runs, and the bolt cache of ISRCs (isrc_cache.go).  Callers run at the  *)
(* same time; the token is read, asked for and saved under one mutex, and  *)
(* the file is written in place.                                           *)
(***************************************************************************)
EXTENDS Integers

CONSTANTS
    Caller,         \* who asks; all for the same track
    TracksISRC,     \* whether Spotify's metadata gives the track's ISRC
    MaxTokens,      \* bound: tokens the service hands out
    MaxIdTroubles   \* bound: requests and writes that fail, and restarts

ASSUME TrackIdsAssumption ==
    /\ TracksISRC \in BOOLEAN /\ "nobody" \notin Caller
    /\ MaxTokens \in Nat /\ MaxIdTroubles \in Nat

VARIABLES
    tokenFile,      \* .isrc-finder-token.json: [state, token, expired]
    accepted,       \* the oldest token the service still takes
    tokensMade,
    idLock,      \* spotifyAnonymousTokenMu: who holds it
    isrcCache,      \* whether the cache has the track's ISRC
    idPc, idFor,    \* where a caller is, and for which of "track", "album" it asks
    heldToken,      \* the token a caller has
    refused,        \* the newest token the service refused a caller, 0 if none
    found,          \* a caller's identifiers: [isrc, upc]
    hadISRC,        \* whether the cache had it when the caller asked
    cacheFailed,    \* history: a caller's read or write of that cache failed
    idFaults, idCrashes

idVars == <<tokenFile, accepted, tokensMade, idLock, isrcCache, idPc, idFor, heldToken,
            refused, found, hadISRC, cacheFailed, idFaults, idCrashes>>
idBounds == <<idFaults, idCrashes>>

NoCaller == "nobody"
FileStates == {"none", "part", "whole"}
NoFileYet == [state |-> "none", token |-> 0, expired |-> FALSE]
NothingFound == [isrc |-> FALSE, upc |-> FALSE]
IdPcs == {"idle", "load", "request", "save", "saving", "ask", "given", "done", "failed"}

IdInit ==
    /\ tokenFile = NoFileYet /\ accepted = 1 /\ tokensMade = 0 /\ idLock = NoCaller
    /\ isrcCache = FALSE
    /\ idPc = [c \in Caller |-> "idle"] /\ idFor = [c \in Caller |-> "track"]
    /\ heldToken = [c \in Caller |-> 0] /\ refused = [c \in Caller |-> 0]
    /\ found = [c \in Caller |-> NothingFound] /\ hadISRC = [c \in Caller |-> FALSE]
    /\ cacheFailed = [c \in Caller |-> FALSE]
    /\ idFaults = 0 /\ idCrashes = 0

CallerAt(c, pc) == idPc' = [idPc EXCEPT ![c] = pc]
Untroubled == idFaults + idCrashes < MaxIdTroubles
FaultyAnswer == Untroubled /\ idFaults' = idFaults + 1

(* A request that fails ends the album's lookup quietly, the track's with
   what the cache knew. *)
GivenUp(c) ==
    IF idFor[c] = "album" \/ found[c].isrc THEN "given" ELSE "failed"
-----------------------------------------------------------------------------
(* GetCachedISRC, which may fail: the caller goes on as if nothing was known.
   An ISRC that is known spares no request: the UPC is not cached. *)
CacheRead(c, isrc) == found' = [found EXCEPT ![c] = [isrc |-> isrc, upc |-> FALSE]]
CacheFails(c, failed) == cacheFailed' = [cacheFailed EXCEPT ![c] = failed]

AskForIds(c) ==
    /\ idPc[c] = "idle"
    /\ \/ CacheRead(c, isrcCache) /\ CacheFails(c, FALSE) /\ UNCHANGED idFaults
       \/ FaultyAnswer /\ CacheRead(c, FALSE) /\ CacheFails(c, TRUE)
    /\ hadISRC' = [hadISRC EXCEPT ![c] = isrcCache]
    /\ idFor' = [idFor EXCEPT ![c] = "track"] /\ refused' = [refused EXCEPT ![c] = 0]
    /\ CallerAt(c, "load")
    /\ UNCHANGED <<tokenFile, accepted, tokensMade, idLock, isrcCache, heldToken, idCrashes>>

\* mutant: the token that was refused is taken from the file again
LoadsAfterRefusal(c) == TRUE

(* forceRefresh: after a refusal the file is not looked at. *)
Loads(c) == refused[c] = 0

TokenIsGood == tokenFile.state = "whole" /\ ~tokenFile.expired

(* requestSpotifyAnonymousAccessToken, up to the request.  A file that cannot
   be read is an error; one that is not there is not. *)
LoadToken(c) ==
    /\ idPc[c] = "load" /\ idLock = NoCaller
    /\ \/ /\ Loads(c) /\ tokenFile.state = "part"
          /\ CallerAt(c, GivenUp(c)) /\ UNCHANGED <<idLock, heldToken>>
       \/ /\ Loads(c) /\ TokenIsGood
          /\ heldToken' = [heldToken EXCEPT ![c] = tokenFile.token]
          /\ CallerAt(c, "ask") /\ UNCHANGED idLock
       \/ /\ ~Loads(c) \/ (tokenFile.state # "part" /\ ~TokenIsGood)
          /\ idLock' = c /\ CallerAt(c, "request") /\ UNCHANGED heldToken
    /\ UNCHANGED <<tokenFile, accepted, tokensMade, isrcCache, idFor, refused, found, hadISRC, cacheFailed, idBounds>>

\* mutant: the mutex is kept when the request fails
RequestTokenLocked(c) ==
    /\ idPc[c] = "request"
    /\ \/ /\ tokensMade < MaxTokens /\ tokensMade' = tokensMade + 1
          /\ heldToken' = [heldToken EXCEPT ![c] = tokensMade + 1]
          /\ CallerAt(c, "save") /\ UNCHANGED idFaults
       \/ /\ FaultyAnswer
          /\ CallerAt(c, GivenUp(c)) /\ UNCHANGED <<tokensMade, heldToken>>
    /\ UNCHANGED <<idLock, tokenFile, accepted, isrcCache, idFor, refused, found, hadISRC, cacheFailed, idCrashes>>

RequestToken(c) ==
    /\ idPc[c] = "request"
    /\ \/ /\ tokensMade < MaxTokens /\ tokensMade' = tokensMade + 1
          /\ heldToken' = [heldToken EXCEPT ![c] = tokensMade + 1]
          /\ CallerAt(c, "save") /\ UNCHANGED <<idLock, idFaults>>
       \/ /\ FaultyAnswer /\ idLock' = NoCaller
          /\ CallerAt(c, GivenUp(c)) /\ UNCHANGED <<tokensMade, heldToken>>
    /\ UNCHANGED <<tokenFile, accepted, isrcCache, idFor, refused, found, hadISRC, cacheFailed, idCrashes>>

\* mutant: the file is made and filled later
OpenTokenFileOnly(c) ==
    /\ idPc[c] = "save" /\ idLock' = NoCaller
    /\ tokenFile' = [state |-> "part", token |-> heldToken[c], expired |-> FALSE]
    /\ CallerAt(c, "ask")
    /\ UNCHANGED <<accepted, tokensMade, isrcCache, idFor, heldToken, refused, found,
                   hadISRC, cacheFailed, idBounds>>

(* saveSpotifyCachedToken: os.WriteFile empties the file and fills it.      *)
OpenTokenFile(c) ==
    /\ idPc[c] = "save"
    /\ tokenFile' = [state |-> "part", token |-> heldToken[c], expired |-> FALSE]
    /\ CallerAt(c, "saving")
    /\ UNCHANGED <<accepted, tokensMade, idLock, isrcCache, idFor, heldToken, refused, found,
                   hadISRC, cacheFailed, idBounds>>

WriteTokenFile(c) ==
    /\ idPc[c] = "saving" /\ idLock' = NoCaller
    /\ \/ /\ tokenFile' = [state |-> "whole", token |-> heldToken[c], expired |-> FALSE]
          /\ CallerAt(c, "ask") /\ UNCHANGED idFaults
       \/ FaultyAnswer /\ CallerAt(c, GivenUp(c)) /\ UNCHANGED tokenFile
    /\ UNCHANGED <<accepted, tokensMade, isrcCache, idFor, heldToken, refused, found, hadISRC, cacheFailed, idCrashes>>

(* fetchSpotifyRawMetadataByGID: a first refusal gets a new token, a second
   is an error as any other. *)
AskSpotify(c) ==
    /\ idPc[c] = "ask"
    /\ \/ /\ heldToken[c] < accepted
          /\ IF refused[c] = 0
             THEN refused' = [refused EXCEPT ![c] = heldToken[c]] /\ CallerAt(c, "load")
             ELSE CallerAt(c, GivenUp(c)) /\ UNCHANGED refused
          /\ UNCHANGED <<found, idFaults, idFor>>
       \/ /\ heldToken[c] >= accepted /\ idFor[c] = "track"
          /\ found' = [found EXCEPT ![c] = [isrc |-> found[c].isrc \/ TracksISRC, upc |-> FALSE]]
          /\ idFor' = [idFor EXCEPT ![c] = "album"] /\ refused' = [refused EXCEPT ![c] = 0]
          /\ CallerAt(c, "load") /\ UNCHANGED idFaults
       \/ /\ heldToken[c] >= accepted /\ idFor[c] = "album"
          /\ found' = [found EXCEPT ![c] = [isrc |-> found[c].isrc, upc |-> TRUE]]
          /\ CallerAt(c, "given") /\ UNCHANGED <<refused, idFaults, idFor>>
       \/ /\ FaultyAnswer
          /\ CallerAt(c, GivenUp(c)) /\ UNCHANGED <<refused, found, idFor>>
    /\ UNCHANGED <<tokenFile, accepted, tokensMade, idLock, isrcCache, heldToken, hadISRC, cacheFailed, idCrashes>>

\* mutant: the ISRC is kept only together with the UPC
CachesBoth(c) == found[c].isrc /\ found[c].upc

(* cacheResolvedSpotifyTrackISRC, when the metadata came; if it fails the
   caller is told the ISRC all the same.  Nothing found at all is an error. *)
Caches(c) == found[c].isrc /\ idFor[c] = "album"

GiveIds(c) ==
    /\ idPc[c] = "given"
    /\ \/ isrcCache' = (isrcCache \/ Caches(c)) /\ UNCHANGED <<cacheFailed, idFaults>>
       \/ Caches(c) /\ FaultyAnswer /\ CacheFails(c, TRUE) /\ UNCHANGED isrcCache
    /\ CallerAt(c, IF found[c].isrc \/ found[c].upc THEN "done" ELSE "failed")
    /\ UNCHANGED <<tokenFile, accepted, tokensMade, idLock, idFor, heldToken, refused, found,
                   hadISRC, idCrashes>>

AskAgain(c) ==
    /\ idPc[c] \in {"done", "failed"} /\ CallerAt(c, "idle")
    /\ UNCHANGED <<tokenFile, accepted, tokensMade, idLock, isrcCache, idFor, heldToken, refused,
                   found, hadISRC, cacheFailed, idBounds>>

(* The token runs out by its own date, or the service stops taking it.     *)
TokenExpires ==
    /\ tokenFile.state = "whole" /\ ~tokenFile.expired
    /\ tokenFile' = [tokenFile EXCEPT !.expired = TRUE]
    /\ UNCHANGED <<accepted, tokensMade, idLock, isrcCache, idPc, idFor, heldToken, refused,
                   found, hadISRC, cacheFailed, idBounds>>

Refuse ==
    /\ accepted <= tokensMade /\ accepted' = tokensMade + 1
    /\ UNCHANGED <<tokenFile, tokensMade, idLock, isrcCache, idPc, idFor, heldToken, refused,
                   found, hadISRC, cacheFailed, idBounds>>

Restart ==
    /\ Untroubled /\ idCrashes' = idCrashes + 1
    /\ idLock' = NoCaller
    /\ idPc' = [c \in Caller |-> "idle"] /\ idFor' = [c \in Caller |-> "track"]
    /\ heldToken' = [c \in Caller |-> 0] /\ refused' = [c \in Caller |-> 0]
    /\ found' = [c \in Caller |-> NothingFound] /\ hadISRC' = [c \in Caller |-> FALSE]
    /\ cacheFailed' = [c \in Caller |-> FALSE]
    /\ UNCHANGED <<tokenFile, accepted, tokensMade, isrcCache, idFaults>>

IdNext ==
    \/ \E c \in Caller : \/ AskForIds(c) \/ LoadToken(c) \/ RequestToken(c) \/ OpenTokenFile(c)
                         \/ WriteTokenFile(c) \/ AskSpotify(c) \/ GiveIds(c) \/ AskAgain(c)
    \/ TokenExpires \/ Refuse \/ Restart

IdSpec == IdInit /\ [][IdNext]_idVars
-----------------------------------------------------------------------------
(* Types, and the mutex is held by whoever asks for a token or saves it.   *)
IdTypeOK ==
    /\ tokenFile \in [state : FileStates, token : 0..MaxTokens, expired : BOOLEAN]
    /\ accepted \in 1..MaxTokens + 1 /\ tokensMade \in 0..MaxTokens
    /\ idPc \in [Caller -> IdPcs] /\ idFor \in [Caller -> {"track", "album"}]
    /\ heldToken \in [Caller -> 0..MaxTokens] /\ refused \in [Caller -> 0..MaxTokens]
    /\ found \in [Caller -> [isrc : BOOLEAN, upc : BOOLEAN]]
    /\ cacheFailed \in [Caller -> BOOLEAN]
    /\ \A c \in Caller : idPc[c] \in {"request", "save", "saving"} <=> idLock = c

(* The file is a part of a token only while somebody writes it, or after a
   write that a restart or an error cut short.  Nothing mends such a file: it
   is an error to read, and only a request that was refused asks for a token
   without reading it. *)
TornByFaultsOnly ==
    tokenFile.state = "part" /\ idCrashes = 0 /\ idFaults = 0 => \E c \in Caller : idPc[c] = "saving"

(* After a refusal the next request carries a newer token.                 *)
RefusedIsRenewed ==
    \A c \in Caller : idPc[c] = "ask" => heldToken[c] > refused[c]

(* Unless the cache fails the caller: an ISRC that was known is not lost by a
   lookup that fails, and one that is told to it is in the cache for the next. *)
KnownStaysKnown ==
    \A c \in Caller : ~cacheFailed[c] =>
        /\ hadISRC[c] /\ idPc[c] \in {"done", "failed"} => found[c].isrc /\ idPc[c] = "done"
        /\ idPc[c] = "done" /\ found[c].isrc => isrcCache

(* The token and the ISRCs survive what fails (isrc_finder.go): the token file
   is torn by faults only, a refused token is not used again, and what was
   known of a track stays known unless its cache fails. *)
IdsAreKept == IdTypeOK /\ TornByFaultsOnly /\ RefusedIsRenewed /\ KnownStaysKnown
==============================================================================
