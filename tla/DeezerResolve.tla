--------------------------- MODULE DeezerResolve ---------------------------
(***************************************************************************)
(* The Deezer link cache (backend/flacit.go:236-325), the callers that     *)
(* share its lookups, and the link that a download then sends to the bot   *)
(* (336-374).                                                              *)
(*                                                                         *)
(* A caller is a prewarm goroutine that the queue starts for each track it *)
(* accepts, or a download: the worker's or a web page's.  Each critical    *)
(* section, each operation on a channel and each lookup is a step.  What a *)
(* lookup finds is LinkChain's.  A lookup that panics for the worker or a  *)
(* prewarm ends the process and the cache with it; for a web page net/http *)
(* recovers the panic.                                                     *)
(***************************************************************************)
EXTENDS LinkChain, Naturals, FiniteSets

CONSTANTS
  Downloads,   (* downloads that may overlap                               *)
  Prewarms,    (* prewarm goroutines that may overlap                      *)
  Webs,        (* the downloads that web pages ask for                     *)
  Ids,         (* Spotify ids                                              *)
  Slots,       (* lookups at a time, 3                                     *)
  MaxCached,   (* deezerResolutionsMax                                     *)
  MaxLookups   (* bound: lookups                                           *)

ASSUME ResolveAssumption ==
  /\ IsFiniteSet(Downloads) /\ IsFiniteSet(Prewarms) /\ Downloads \cap Prewarms = {}
  /\ Webs \subseteq Downloads /\ Ids # {}
  /\ Slots \in Nat \ {0} /\ MaxCached \in Nat \ {0} /\ MaxLookups \in Nat

Callers == Downloads \cup Prewarms
Entries == 1 .. MaxLookups
Phases == {"off", "acquire", "look", "forget", "release", "close", "wait", "search"}
Looking == {"look", "forget", "release"}
Owning == {"acquire", "close"} \cup Looking
Endings == {"open", "found", "failed", "panicked"}

VARIABLES
  pc,      (* where each caller is                                         *)
  mine,    (* its entry; 0: none                                           *)
  cache,   (* deezerResolutions: the entry of each id; 0: none             *)
  made,    (* entries made                                                 *)
  of,      (* the id of each                                               *)
  epoch,   (* how often the cache had been cleared when it was made        *)
  out,     (* how its lookup ended                                         *)
  answer,  (* its url                                                      *)
  closed,  (* entries whose done is closed                                 *)
  sem,     (* deezerResolveSem                                             *)
  clears   (* times the cache was cleared                                  *)

cacheVars == <<cache, made, of, epoch, clears>>
lookupVars == <<out, answer, closed>>
vars == <<pc, mine, cache, made, of, epoch, out, answer, closed, sem, clears>>

Init ==
  /\ pc = [p \in Callers |-> "off"] /\ mine = [p \in Callers |-> 0]
  /\ cache = [i \in Ids |-> 0] /\ made = 0
  /\ of = [e \in Entries |-> CHOOSE i \in Ids : TRUE] /\ epoch = [e \in Entries |-> 0]
  /\ out = [e \in Entries |-> "open"] /\ answer = [e \in Entries |-> "none"]
  /\ closed = {} /\ sem = 0 /\ clears = 0

Goto(p, from, to) == pc[p] = from /\ pc' = [pc EXCEPT ![p] = to]

-----------------------------------------------------------------------------
(* ResolveDeezerURL: the critical section that finds or makes the entry.   *)
AlwaysMissing(i) == TRUE      \* mutant: the cache is looked at before the lock
Missing(i) == cache[i] = 0

Join(p, i) ==
  /\ Goto(p, "off", "wait") /\ ~Missing(i)
  /\ mine' = [mine EXCEPT ![p] = cache[i]]
  /\ UNCHANGED <<cacheVars, lookupVars, sem>>

Full == Cardinality({i \in Ids : cache[i] # 0}) >= MaxCached

Make(p, i) ==
  /\ Goto(p, "off", "acquire") /\ Missing(i) /\ made < MaxLookups
  /\ made' = made + 1 /\ mine' = [mine EXCEPT ![p] = made + 1]
  /\ clears' = IF Full THEN clears + 1 ELSE clears
  /\ cache' = [j \in Ids |-> IF j = i THEN made + 1 ELSE IF Full THEN 0 ELSE cache[j]]
  /\ of' = [of EXCEPT ![made + 1] = i] /\ epoch' = [epoch EXCEPT ![made + 1] = clears']
  /\ UNCHANGED <<lookupVars, sem>>

(* The lookup itself.                                                      *)
FreeForOneMore == sem <= Slots      \* mutant: one too many
Free == sem < Slots

Acquire(p) ==
  /\ Goto(p, "acquire", "look") /\ Free /\ sem' = sem + 1
  /\ UNCHANGED <<mine, cacheVars, lookupVars>>

Found(p) ==
  /\ Goto(p, "look", "release")
  /\ \E o \in Outcomes : o.url # "none" /\ answer' = [answer EXCEPT ![mine[p]] = o.url]
  /\ out' = [out EXCEPT ![mine[p]] = "found"]
  /\ UNCHANGED <<mine, cacheVars, closed, sem>>

Fails(p) ==
  /\ Goto(p, "look", "forget")
  /\ \E o \in Outcomes : o.url = "none"
  /\ out' = [out EXCEPT ![mine[p]] = "failed"]
  /\ UNCHANGED <<mine, cacheVars, answer, closed, sem>>

Panics(p) ==
  /\ p \in Webs /\ Goto(p, "look", "release")
  /\ out' = [out EXCEPT ![mine[p]] = "panicked"]
  /\ UNCHANGED <<mine, cacheVars, answer, closed, sem>>

(* Mutants: a failure releases its slot, and then again; its entry stays.  *)
ForgetReleases(p) ==
  /\ Goto(p, "forget", "release") /\ sem' = sem - 1
  /\ cache' = [cache EXCEPT ![of[mine[p]]] = 0]
  /\ UNCHANGED <<mine, made, of, epoch, clears, lookupVars>>

KeepFailure(p) ==
  /\ Goto(p, "forget", "release")
  /\ UNCHANGED <<mine, cacheVars, lookupVars, sem>>

(* The failure's entry goes by its key, whatever entry is there by now.    *)
Forget(p) ==
  /\ Goto(p, "forget", "release")
  /\ cache' = [cache EXCEPT ![of[mine[p]]] = 0]
  /\ UNCHANGED <<mine, made, of, epoch, clears, lookupVars, sem>>

(* The deferred calls, which a panic runs too.                             *)
Release(p) ==
  /\ Goto(p, "release", "close") /\ sem' = sem - 1
  /\ UNCHANGED <<mine, cacheVars, lookupVars>>

CloseUnlessPanicked(p) ==      \* mutant: the channel is closed on return only
  /\ Goto(p, "close", IF out[mine[p]] = "panicked" THEN "off" ELSE "wait")
  /\ closed' = IF out[mine[p]] = "panicked" THEN closed ELSE closed \cup {mine[p]}
  /\ mine' = IF out[mine[p]] = "panicked" THEN [mine EXCEPT ![p] = 0] ELSE mine
  /\ UNCHANGED <<cacheVars, out, answer, sem>>

Close(p) ==
  /\ Goto(p, "close", IF out[mine[p]] = "panicked" THEN "off" ELSE "wait")
  /\ closed' = closed \cup {mine[p]}
  /\ mine' = IF out[mine[p]] = "panicked" THEN [mine EXCEPT ![p] = 0] ELSE mine
  /\ UNCHANGED <<cacheVars, out, answer, sem>>

-----------------------------------------------------------------------------
(* The answer: a prewarm drops it, a download makes a link of it.          *)
Ready(p) == pc[p] = "wait" /\ mine[p] \in closed

Dropped(p) ==
  /\ p \in Prewarms /\ Ready(p) /\ Goto(p, "wait", "off")
  /\ mine' = [mine EXCEPT ![p] = 0]
  /\ UNCHANGED <<cacheVars, lookupVars, sem>>

UseAnswer(p) ==
  /\ p \in Downloads /\ Ready(p) /\ IsTrack(answer[mine[p]]) /\ Goto(p, "wait", "off")
  /\ mine' = [mine EXCEPT ![p] = 0]
  /\ UNCHANGED <<cacheVars, lookupVars, sem>>

NoAnswer(p) ==
  /\ p \in Downloads /\ Ready(p) /\ ~IsTrack(answer[mine[p]]) /\ Goto(p, "wait", "search")
  /\ UNCHANGED <<mine, cacheVars, lookupVars, sem>>

(* FindDeezerTrack finds a track, or the Spotify link it is: either way    *)
(* the link is sent, and the rest of the download is Gateway's.            *)
Search(p) ==
  /\ Goto(p, "search", "off") /\ mine' = [mine EXCEPT ![p] = 0]
  /\ UNCHANGED <<cacheVars, lookupVars, sem>>

Enter(p) == \E i \in Ids : Join(p, i) \/ Make(p, i)
Looks(p) == Found(p) \/ Fails(p) \/ Panics(p)
Proceed(p) ==
  \/ Forget(p) \/ Release(p) \/ Close(p) \/ Dropped(p) \/ UseAnswer(p) \/ NoAnswer(p)
  \/ Search(p)

Next == \E p \in Callers : Enter(p) \/ Acquire(p) \/ Looks(p) \/ Proceed(p)

Spec == Init /\ [][Next]_vars

-----------------------------------------------------------------------------
TypeOK ==
  /\ pc \in [Callers -> Phases] /\ mine \in [Callers -> 0 .. made]
  /\ cache \in [Ids -> 0 .. made] /\ made \in 0 .. MaxLookups /\ clears \in Nat
  /\ of \in [Entries -> Ids] /\ epoch \in [Entries -> Nat]
  /\ out \in [Entries -> Endings] /\ answer \in [Entries -> Urls]
  /\ closed \subseteq 1 .. made /\ sem \in Nat

(* A clear forgets lookups that still run.  When such a lookup fails, it   *)
(* takes away the newer entry of its id, whatever that one has found.      *)
Undercut(e) ==
  \E d \in 1 .. made : of[d] = of[e] /\ epoch[d] < epoch[e] /\ out[d] = "failed"

(* An id is looked up once: between two clears of the cache a second lookup*)
(* of an id begins only after the first has failed, or after an older one  *)
(* that began before the last clear has.  Callers at the same time share a *)
(* lookup, what it found is kept, and a failure is looked up again         *)
(* (flacit.go:243-246, 305-308).                                           *)
LookedUpOnce ==
  \A e, f \in 1 .. made :
    e < f /\ of[e] = of[f] /\ epoch[e] = epoch[f] => out[e] = "failed" \/ Undercut(e)

(* At most Slots lookups run, however many callers there are and however   *)
(* their lookups end (flacit.go:256-259, 297-298).                         *)
LookupsAreLimited == Cardinality({p \in Callers : pc[p] \in Looking}) <= Slots

(* Lookups are a shared, limited good: repeated only after a failure, and  *)
(* never more at a time than there are slots (flacit.go:243-259).          *)
LookupsAreSparing == LookedUpOnce /\ LookupsAreLimited

(* Who comes after a lookup has failed does not get its empty answer: an   *)
(* entry of the cache that will not change any more has a link, unless its *)
(* lookup panicked (flacit.go:305-308).                                    *)
FailureIsNotCached ==
  \A i \in Ids : cache[i] \in closed => answer[cache[i]] # "none" \/ out[cache[i]] = "panicked"

(* A lookup that ends with the ISRC known, and with Deezer having a track  *)
(* for it, returns a link to a track, whatever pages the resolvers answered*)
(* with, in whichever order the settings ask them (songlink.go:92-99).     *)
ISRCRescues ==
  (\E p \in Callers : pc[p] = "look") =>
    \A o \in Outcomes : o.isrc /\ ~o.refused => IsTrack(o.url)

(* Nobody waits for nobody: the entry a caller waits for is closed or has  *)
(* an owner who will close it, even after a panic or a clear, and an owner *)
(* who finds no slot waits for one whose lookup runs (flacit.go:293-298).  *)
WaitersAreServed ==
  \A p \in Callers :
    /\ pc[p] = "wait" =>
         mine[p] \in closed \/ \E q \in Callers : pc[q] \in Owning /\ mine[q] = mine[p]
    /\ pc[p] = "acquire" => Free \/ \E q \in Callers : pc[q] \in Looking
=============================================================================
