------------------------------ MODULE MusicBrainz ------------------------------
(***************************************************************************)
(* Genres from MusicBrainz (FetchMusicBrainzMetadata in musicbrainz.go):   *)
(* a cache, one lookup at a time for each recording, shared by all who     *)
(* want it, and requests spaced by slots that are handed out under a lock. *)
(* A 503 pushes the slots back.  Time is counted in ticks.                 *)
(***************************************************************************)
EXTENDS Integers, FiniteSets

CONSTANTS
    Asker, MbRecording,
    WantedOf,       \* what each asker wants: musicBrainzCacheKey
    Interval,       \* between two requests: 1100 ms
    Cooldown,       \* after a 503: 5 s
    RetryWait,      \* before another attempt: 3 s
    SkipWindow,     \* a check that found it offline is believed: 5 min
    Attempts,       \* musicBrainzRequestRetries
    MaxTicks        \* bound: ticks

ASSUME MusicBrainzAssumption ==
    /\ WantedOf \in [Asker -> MbRecording]
    /\ Interval \in Nat \ {0} /\ Attempts \in Nat \ {0}
    /\ Cooldown \in Nat /\ RetryWait \in Nat /\ SkipWindow \in Nat /\ MaxTicks \in Nat

VARIABLES
    mbNow,          \* the clock
    mbCache,        \* recordings whose genre is known
    inFlight,       \* askers whose lookup is registered
    nextRequest, blockedTill,
    foundOffline,   \* when SetMusicBrainzStatusCheckResult was last told so, or never
    mbPc, mbTries,
    slotAt,         \* when an asker may send
    sharedWith,     \* whose lookup an asker waits for
    mbAnswer

mbVars == <<mbNow, mbCache, inFlight, nextRequest, blockedTill, foundOffline, mbPc, mbTries,
            slotAt, sharedWith, mbAnswer>>
mbSlots == <<nextRequest, blockedTill>>

MbAnswers == {"genre", "failed", "skipped"}
MbPcs == {"look", "register", "wait", "slot", "sleep", "sent", "pause", "store", "close", "done"}
Never == -1
Latest(x, y) == IF x > y THEN x ELSE y

MbInit ==
    /\ mbNow = 0 /\ mbCache = {} /\ inFlight = {}
    /\ nextRequest = 0 /\ blockedTill = 0
    /\ foundOffline = Never
    /\ mbPc = [a \in Asker |-> "look"] /\ mbTries = [a \in Asker |-> 0]
    /\ slotAt = [a \in Asker |-> 0] /\ sharedWith = [a \in Asker |-> a]
    /\ mbAnswer = [a \in Asker |-> "none"]

AskerAt(a, pc) == mbPc' = [mbPc EXCEPT ![a] = pc]
AnswerIs(a, what) == mbAnswer' = [mbAnswer EXCEPT ![a] = what]
-----------------------------------------------------------------------------
BelievedOffline == foundOffline # Never /\ mbNow - foundOffline <= SkipWindow

(* The cache, and the last status check, are read before the lookups are
   locked. *)
LookInCache(a) ==
    /\ mbPc[a] = "look"
    /\ \/ WantedOf[a] \in mbCache /\ AskerAt(a, "done") /\ AnswerIs(a, "genre")
       \/ WantedOf[a] \notin mbCache /\ BelievedOffline
          /\ AskerAt(a, "done") /\ AnswerIs(a, "skipped")
       \/ WantedOf[a] \notin mbCache /\ ~BelievedOffline
          /\ AskerAt(a, "register") /\ UNCHANGED mbAnswer
    /\ UNCHANGED <<mbNow, mbCache, inFlight, mbSlots, foundOffline, mbTries, slotAt, sharedWith>>

\* mutant: everyone looks for himself
LookupOfNobody(a) == {b \in inFlight : b = a}

LookupOf(a) == {b \in inFlight : WantedOf[b] = WantedOf[a]}

Register(a) ==
    /\ mbPc[a] = "register"
    /\ \/ \E b \in LookupOf(a) :
            /\ sharedWith' = [sharedWith EXCEPT ![a] = b]
            /\ AskerAt(a, "wait") /\ UNCHANGED inFlight
       \/ /\ LookupOf(a) = {}
          /\ inFlight' = inFlight \cup {a}
          /\ AskerAt(a, "slot") /\ UNCHANGED sharedWith
    /\ UNCHANGED <<mbNow, mbCache, mbSlots, foundOffline, mbTries, slotAt, mbAnswer>>

\* mutant: a slot is now, when nothing is blocked
ReadyAtNow == Latest(blockedTill, mbNow)

(* waitForMusicBrainzRequestSlot: the slot is taken at once and slept for. *)
ReadyAt == Latest(Latest(nextRequest, blockedTill), mbNow)

TakeSlot(a) ==
    /\ mbPc[a] = "slot"
    /\ slotAt' = [slotAt EXCEPT ![a] = ReadyAt]
    /\ nextRequest' = ReadyAt + Interval
    /\ AskerAt(a, "sleep")
    /\ UNCHANGED <<mbNow, mbCache, inFlight, blockedTill, foundOffline, mbTries, sharedWith, mbAnswer>>

SendRequest(a) ==
    /\ mbPc[a] = "sleep" /\ mbNow >= slotAt[a]
    /\ mbTries' = [mbTries EXCEPT ![a] = @ + 1]
    /\ AskerAt(a, "sent")
    /\ UNCHANGED <<mbNow, mbCache, inFlight, mbSlots, foundOffline, slotAt, sharedWith, mbAnswer>>

GotGenre(a) ==
    /\ mbPc[a] = "sent"
    /\ AskerAt(a, "store") /\ AnswerIs(a, "genre")
    /\ UNCHANGED <<mbNow, mbCache, inFlight, mbSlots, foundOffline, mbTries, slotAt, sharedWith>>

(* No recording, no tags, an answer that does not parse, a 4xx.            *)
GotNothing(a) ==
    /\ mbPc[a] = "sent"
    /\ AskerAt(a, "close") /\ AnswerIs(a, "failed")
    /\ UNCHANGED <<mbNow, mbCache, inFlight, mbSlots, foundOffline, mbTries, slotAt, sharedWith>>

(* noteMusicBrainzThrottle, for a 503. *)
BlockedUntil == Latest(mbNow + Cooldown, blockedTill)
\* mutant: the slots stay where they are
NotPushedBack == nextRequest

PushedBack == Latest(nextRequest, BlockedUntil)

\* mutant: one attempt more
MayRetryOnceMore(a) == mbTries[a] <= Attempts

(* shouldRetryMusicBrainzRequest *)
MayRetry(a) == mbTries[a] < Attempts

(* An error that another attempt may mend: none came, or a 5xx.  The wait
   before it is time at which no slot is taken yet. *)
GotTrouble(a) ==
    /\ mbPc[a] = "sent"
    /\ \/ UNCHANGED mbSlots
       \/ blockedTill' = BlockedUntil /\ nextRequest' = PushedBack
    /\ \/ MayRetry(a) /\ AskerAt(a, "pause") /\ UNCHANGED mbAnswer
          /\ slotAt' = [slotAt EXCEPT ![a] = mbNow + RetryWait]
       \/ ~MayRetry(a) /\ AskerAt(a, "close") /\ AnswerIs(a, "failed")
          /\ UNCHANGED slotAt
    /\ UNCHANGED <<mbNow, mbCache, inFlight, foundOffline, mbTries, sharedWith>>

TryAgain(a) ==
    /\ mbPc[a] = "pause" /\ mbNow >= slotAt[a]
    /\ AskerAt(a, "slot")
    /\ UNCHANGED <<mbNow, mbCache, inFlight, mbSlots, foundOffline, mbTries, slotAt, sharedWith, mbAnswer>>

StoreGenre(a) ==
    /\ mbPc[a] = "store"
    /\ mbCache' = mbCache \cup {WantedOf[a]}
    /\ AskerAt(a, "close")
    /\ UNCHANGED <<mbNow, inFlight, mbSlots, foundOffline, mbTries, slotAt, sharedWith, mbAnswer>>

\* mutant: nobody who waits is woken
WaitingForNothing(a) == {}

(* The deferred function: the result is there before the channel closes.   *)
Waiting(a) == {b \in Asker : mbPc[b] = "wait" /\ sharedWith[b] = a}

CloseLookup(a) ==
    /\ mbPc[a] = "close"
    /\ inFlight' = inFlight \ {a}
    /\ mbPc' = [b \in Asker |-> IF b = a \/ b \in Waiting(a) THEN "done" ELSE mbPc[b]]
    /\ mbAnswer' = [b \in Asker |-> IF b \in Waiting(a) THEN mbAnswer[a] ELSE mbAnswer[b]]
    /\ UNCHANGED <<mbNow, mbCache, mbSlots, foundOffline, mbTries, slotAt, sharedWith>>

CheckStatus(online) ==
    /\ foundOffline' = IF online THEN Never ELSE mbNow
    /\ UNCHANGED <<mbNow, mbCache, inFlight, mbSlots, mbPc, mbTries, slotAt, sharedWith, mbAnswer>>

Tick ==
    /\ mbNow < MaxTicks /\ mbNow' = mbNow + 1
    /\ UNCHANGED <<mbCache, inFlight, mbSlots, foundOffline, mbPc, mbTries, slotAt, sharedWith, mbAnswer>>

MbNext ==
    \/ \E a \in Asker : \/ LookInCache(a) \/ Register(a) \/ TakeSlot(a) \/ SendRequest(a)
                        \/ GotGenre(a) \/ GotNothing(a) \/ GotTrouble(a) \/ TryAgain(a)
                        \/ StoreGenre(a) \/ CloseLookup(a)
    \/ \E online \in BOOLEAN : CheckStatus(online)
    \/ Tick

MbSpec == MbInit /\ [][MbNext]_mbVars
-----------------------------------------------------------------------------
Sleeping == {a \in Asker : mbPc[a] = "sleep"}
Leading == {a \in Asker : mbPc[a] \in {"slot", "sleep", "sent", "pause", "store", "close"}}

(* Every variable keeps to its type, and the attempts to their number.     *)
MbTypeOK ==
    /\ mbNow \in Nat /\ nextRequest \in Nat /\ blockedTill \in Nat
    /\ mbCache \subseteq MbRecording /\ inFlight \subseteq Asker
    /\ foundOffline \in Nat \cup {Never}
    /\ mbPc \in [Asker -> MbPcs]
    /\ mbTries \in [Asker -> 0..Attempts]
    /\ slotAt \in [Asker -> Nat] /\ sharedWith \in [Asker -> Asker]
    /\ mbAnswer \in [Asker -> MbAnswers \cup {"none"}]

(* No two lookups of one recording run at a time, and the registered ones
   are those that run. *)
OneLookupEach ==
    /\ inFlight = Leading
    /\ \A a, b \in Leading : WantedOf[a] = WantedOf[b] => a = b

(* Two requests that wait for their time are an interval apart, and whoever
   comes next is an interval behind all of them. *)
RequestsAreSpaced ==
    /\ \A a, b \in Sleeping : a # b => \/ slotAt[a] + Interval <= slotAt[b]
                                       \/ slotAt[b] + Interval <= slotAt[a]
    /\ \A a \in Sleeping : slotAt[a] + Interval <= nextRequest

(* No slot that is still to be given lies within the pause MusicBrainz asked
   for, though one that was given before the 503 may. *)
PauseIsKept == blockedTill <= nextRequest

(* Who shares a lookup is not left waiting for one that is over, and ends
   with the answer it got. *)
SharedAlike ==
    \A a \in Asker :
        /\ mbPc[a] = "wait" => sharedWith[a] \in Leading
        /\ mbPc[a] = "done" => mbAnswer[a] = mbAnswer[sharedWith[a]] /\ mbAnswer[a] # "none"

(* The lookups at MusicBrainz are shared and spaced (musicbrainz.go): one per
   recording, apart by the interval and outside the pause that was asked for,
   and everyone who shared one has its answer. *)
LookupsAreShared ==
    /\ MbTypeOK
    /\ OneLookupEach /\ SharedAlike
    /\ RequestsAreSpaced /\ PauseIsKept
==============================================================================
