------------------------ MODULE DeezerResolveProofs ------------------------
(***************************************************************************)
(* Proofs about the Deezer link cache, for every number of callers, ids,   *)
(* slots and lookups, and about what a lookup returns.                     *)
(***************************************************************************)
EXTENDS DeezerResolve, FiniteSetTheorems, TLAPS

Inside == {p \in Callers : pc[p] \in Looking}
Forgetting(e) == \E p \in Callers : pc[p] = "forget" /\ mine[p] = e

(* The semaphore counts the callers inside.                                *)
SlotInv == sem = Cardinality(Inside) /\ sem <= Slots

(* Each entry has one owner at most, whose phase tells how far it is.      *)
OwnerInv ==
  /\ \A p, q \in Callers :
       pc[p] \in Owning /\ pc[q] \in Owning /\ mine[p] = mine[q] => p = q
  /\ \A p \in Callers : pc[p] \in Owning => mine[p] \in 1 .. made /\ mine[p] \notin closed
  /\ \A p \in Callers : pc[p] \in {"wait", "search"} => mine[p] \in 1 .. made
  /\ \A p \in Callers : pc[p] \in {"acquire", "look"} => out[mine[p]] = "open"
  /\ \A p \in Callers : pc[p] = "forget" => out[mine[p]] = "failed"
  /\ \A p \in Callers : pc[p] \in {"release", "close"} => out[mine[p]] # "open"
  /\ \A e \in Entries : out[e] = "open" => e \notin closed
  /\ \A e \in Entries : e > made => out[e] = "open"
  /\ \A e \in Entries : out[e] = "found" => answer[e] # "none"

(* Each entry is closed or will be.                                        *)
Owned(e) == \E p \in Callers : pc[p] \in Owning /\ mine[p] = e
ServedInv == \A e \in 1 .. made : e \in closed \/ Owned(e)

(* The entries of the cache are of this epoch; one that has failed and is  *)
(* still there is about to go, and one that is not there any more has      *)
(* failed and gone, or was undercut.                                       *)
CacheInv ==
  /\ \A i \in Ids : cache[i] # 0 => of[cache[i]] = i /\ epoch[cache[i]] = clears
  /\ \A e \in 1 .. made : epoch[e] <= clears
  /\ \A e \in 1 .. made : out[e] = "failed" /\ cache[of[e]] = e => Forgetting(e)
  /\ \A e \in 1 .. made : epoch[e] = clears /\ cache[of[e]] # e =>
       (out[e] = "failed" /\ ~Forgetting(e)) \/ Undercut(e)

IInv == TypeOK /\ SlotInv /\ OwnerInv /\ ServedInv /\ CacheInv /\ LookedUpOnce

-----------------------------------------------------------------------------
(* What a lookup returns: a link to a track or none.                       *)
LEMMA OutcomeUrls == \A o \in Outcomes : o.url \in Urls
BY DEF Outcomes, Outcome, Normalized, IsTrack, Urls

(* ISRCRescues rests on the chain alone: every link that is kept has been  *)
(* normalized, and one that is not a track leaves the last word to Deezer. *)
THEOREM LookupRescues == Spec => []ISRCRescues
<1>1. ISRCRescues
  BY DEF ISRCRescues, Outcomes, Outcome, Normalized, IsTrack
<1> QED
  BY <1>1, PTL

-----------------------------------------------------------------------------
LEMMA CallersFinite == IsFiniteSet(Callers) /\ IsFiniteSet(Inside)
<1>1. IsFiniteSet(Callers)
  BY ResolveAssumption, FS_Union DEF Callers
<1> QED
  BY <1>1, FS_Subset DEF Inside

LEMMA InitIInv == Init => IInv
<1> SUFFICES ASSUME Init PROVE IInv
  OBVIOUS
<1> USE DEF Init
<1>1. TypeOK
  <2>1. (CHOOSE i \in Ids : TRUE) \in Ids
    BY ResolveAssumption
  <2> QED
    BY <2>1, ResolveAssumption DEF TypeOK, Phases, Endings, Urls, Entries
<1>2. SlotInv
  <2>1. Inside = {}
    BY DEF Inside, Looking
  <2> QED
    BY <2>1, FS_EmptySet, ResolveAssumption DEF SlotInv
<1>3. OwnerInv
  BY DEF OwnerInv, Owning, Looking
<1>4. ServedInv /\ CacheInv /\ LookedUpOnce
  BY DEF ServedInv, CacheInv, LookedUpOnce
<1> QED
  BY <1>1, <1>2, <1>3, <1>4 DEF IInv

-----------------------------------------------------------------------------
(* Types.                                                                  *)
LEMMA TypeStep == ASSUME IInv, Next PROVE TypeOK'
<1> SUFFICES ASSUME NEW p \in Callers, Enter(p) \/ Acquire(p) \/ Looks(p) \/ Proceed(p)
             PROVE TypeOK'
  BY DEF Next
<1> USE ResolveAssumption DEF IInv, TypeOK, cacheVars, lookupVars, Goto, Phases
<1>0. made \in Nat /\ 0 \in 0 .. made
  OBVIOUS
<1>1. ASSUME NEW i \in Ids, Join(p, i) PROVE TypeOK'
  BY <1>1 DEF Join
<1>2. ASSUME NEW i \in Ids, Make(p, i) PROVE TypeOK'
  <2>1. made + 1 \in Entries /\ made' = made + 1 /\ made' \in 0 .. MaxLookups
    BY <1>2 DEF Make, Entries
  <2>2. clears' \in Nat
    BY <1>2 DEF Make
  <2>3. cache' \in [Ids -> 0 .. made'] /\ mine' \in [Callers -> 0 .. made']
    BY <1>2, <2>1 DEF Make
  <2>4. of' \in [Entries -> Ids] /\ epoch' \in [Entries -> Nat]
    BY <1>2, <2>1, <2>2 DEF Make
  <2>5. pc' \in [Callers -> Phases]
    BY <1>2 DEF Make
  <2>6. out' = out /\ answer' = answer /\ closed' \subseteq 1 .. made' /\ sem' = sem
    BY <1>2, <2>1 DEF Make
  <2> QED
    BY <2>1, <2>2, <2>3, <2>4, <2>5, <2>6
<1>3. ASSUME Acquire(p) PROVE TypeOK'
  BY <1>3 DEF Acquire
<1>4. ASSUME Found(p) PROVE TypeOK'
  BY <1>4, OutcomeUrls DEF Found, Endings
<1>5. ASSUME Fails(p) PROVE TypeOK'
  BY <1>5 DEF Fails, Endings
<1>6. ASSUME Panics(p) PROVE TypeOK'
  BY <1>6 DEF Panics, Endings
<1>7. ASSUME Forget(p) PROVE TypeOK'
  <2>1. cache' \in [Ids -> 0 .. made]
    BY <1>7, <1>0 DEF Forget
  <2>2. pc' \in [Callers -> Phases]
    BY <1>7 DEF Forget
  <2> QED
    BY <1>7, <2>1, <2>2 DEF Forget
<1>8. ASSUME Release(p) PROVE TypeOK'
  <2>1. p \in Inside
    BY <1>8 DEF Release, Inside, Looking
  <2>2. sem # 0
    BY <2>1, CallersFinite, FS_EmptySet DEF SlotInv
  <2> QED
    BY <1>8, <2>2 DEF Release
<1>9. ASSUME Close(p) PROVE TypeOK'
  <2>1. mine[p] \in 1 .. made
    BY <1>9 DEF Close, OwnerInv, Owning
  <2>2. mine' \in [Callers -> 0 .. made]
    BY <1>9, <1>0 DEF Close
  <2>3. pc' \in [Callers -> Phases]
    BY <1>9 DEF Close
  <2> QED
    BY <1>9, <2>1, <2>2, <2>3 DEF Close
<1>10. ASSUME Dropped(p) \/ UseAnswer(p) \/ NoAnswer(p) \/ Search(p) PROVE TypeOK'
  <2>1. mine' \in [Callers -> 0 .. made]
    BY <1>10, <1>0 DEF Dropped, UseAnswer, NoAnswer, Search
  <2>2. pc' \in [Callers -> Phases]
    BY <1>10 DEF Dropped, UseAnswer, NoAnswer, Search
  <2> QED
    BY <1>10, <2>1, <2>2 DEF Dropped, UseAnswer, NoAnswer, Search
<1> QED
  BY <1>1, <1>2, <1>3, <1>4, <1>5, <1>6, <1>7, <1>8, <1>9, <1>10
     DEF Enter, Looks, Proceed

-----------------------------------------------------------------------------
(* The slots.                                                              *)
LEMMA SlotStep == ASSUME IInv, Next PROVE SlotInv'
<1> SUFFICES ASSUME NEW p \in Callers, Enter(p) \/ Acquire(p) \/ Looks(p) \/ Proceed(p)
             PROVE SlotInv'
  BY DEF Next
<1> USE DEF IInv, TypeOK, cacheVars, lookupVars, Goto
<1>1. ASSUME Acquire(p) PROVE SlotInv'
  <2>1. Inside' = Inside \cup {p} /\ p \notin Inside
    BY <1>1 DEF Acquire, Inside, Looking
  <2>2. Cardinality(Inside') = Cardinality(Inside) + 1
    BY <2>1, CallersFinite, FS_AddElement
  <2> QED
    BY <1>1, <2>2, ResolveAssumption DEF Acquire, Free, SlotInv
<1>2. ASSUME Release(p) PROVE SlotInv'
  <2>1. Inside' = Inside \ {p} /\ p \in Inside
    BY <1>2 DEF Release, Inside, Looking
  <2>2. Cardinality(Inside') = Cardinality(Inside) - 1
    BY <2>1, CallersFinite, FS_RemoveElement
  <2> QED
    BY <1>2, <2>2, ResolveAssumption DEF Release, SlotInv
<1>3. ASSUME NEW from, NEW to, Goto(p, from, to), from \in Looking <=> to \in Looking,
             sem' = sem
      PROVE SlotInv'
  <2>1. Inside' = Inside
    BY <1>3 DEF Inside
  <2> QED
    BY <1>3, <2>1 DEF SlotInv
<1> USE DEF Looking
<1>4. ASSUME Enter(p) PROVE SlotInv'
  BY <1>3, <1>4 DEF Enter, Join, Make
<1>5. ASSUME Looks(p) PROVE SlotInv'
  BY <1>3, <1>5 DEF Looks, Found, Fails, Panics
<1>6. ASSUME Forget(p) PROVE SlotInv'
  BY <1>3, <1>6 DEF Forget
<1>7. ASSUME Close(p) PROVE SlotInv'
  BY <1>3, <1>7 DEF Close
<1>8. ASSUME Dropped(p) \/ UseAnswer(p) \/ NoAnswer(p) \/ Search(p) PROVE SlotInv'
  BY <1>3, <1>8 DEF Dropped, UseAnswer, NoAnswer, Search
<1> QED
  BY <1>1, <1>2, <1>4, <1>5, <1>6, <1>7, <1>8 DEF Proceed

-----------------------------------------------------------------------------
(* Who owns which entry.                                                   *)
LEMMA OwnerStep == ASSUME IInv, Next PROVE OwnerInv'
<1> SUFFICES ASSUME NEW p \in Callers, Enter(p) \/ Acquire(p) \/ Looks(p) \/ Proceed(p)
             PROVE OwnerInv'
  BY DEF Next
<1> USE DEF IInv, TypeOK, OwnerInv, cacheVars, lookupVars, Goto, Owning, Looking
<1>0. made \in Nat /\ 1 .. made \subseteq Entries
  BY ResolveAssumption DEF Entries
<1>1. ASSUME NEW i \in Ids, Join(p, i) PROVE OwnerInv'
  BY <1>0, <1>1 DEF Join, Missing
<1>2. ASSUME NEW i \in Ids, Make(p, i) PROVE OwnerInv'
  <2>1. made + 1 \in Entries /\ made' = made + 1 /\ 1 .. made \subseteq 1 .. made'
    BY <1>0, <1>2, ResolveAssumption DEF Make, Entries
  <2>2. /\ mine' = [mine EXCEPT ![p] = made + 1] /\ pc' = [pc EXCEPT ![p] = "acquire"]
        /\ pc[p] = "off" /\ UNCHANGED <<out, answer, closed>>
    BY <1>2 DEF Make
  <2>3. out[made + 1] = "open" /\ made + 1 \notin closed
    <3>1. made + 1 > made /\ made + 1 \notin 1 .. made
      BY <1>0
    <3> QED
      BY <2>1, <3>1
  <2>4. \A q \in Callers : mine[q] # made + 1
    BY <1>0
  <2>5. /\ \A q, r \in Callers :
             pc'[q] \in Owning /\ pc'[r] \in Owning /\ mine'[q] = mine'[r] => q = r
        /\ \A q \in Callers : pc'[q] \in Owning => mine'[q] \in 1 .. made' /\ mine'[q] \notin closed
        /\ \A q \in Callers : pc'[q] \in {"wait", "search"} => mine'[q] \in 1 .. made'
    BY <1>0, <2>1, <2>2, <2>3, <2>4
  <2>6. /\ \A q \in Callers : pc'[q] \in {"acquire", "look"} => out[mine'[q]] = "open"
        /\ \A q \in Callers : pc'[q] = "forget" => out[mine'[q]] = "failed"
        /\ \A q \in Callers : pc'[q] \in {"release", "close"} => out[mine'[q]] # "open"
    BY <1>0, <2>1, <2>2, <2>3
  <2>7. \A e \in Entries : e > made' => out[e] = "open"
    BY <1>0, <2>1, ResolveAssumption DEF Entries
  <2> QED
    BY <2>2, <2>5, <2>6, <2>7
<1>3. ASSUME Acquire(p) PROVE OwnerInv'
  BY <1>0, <1>3 DEF Acquire
<1>4. ASSUME Found(p) PROVE OwnerInv'
  BY <1>0, <1>4 DEF Found
<1>5. ASSUME Fails(p) PROVE OwnerInv'
  BY <1>0, <1>5 DEF Fails
<1>6. ASSUME Panics(p) PROVE OwnerInv'
  BY <1>0, <1>6 DEF Panics
<1>7. ASSUME Forget(p) PROVE OwnerInv'
  BY <1>0, <1>7 DEF Forget
<1>8. ASSUME Release(p) PROVE OwnerInv'
  BY <1>0, <1>8 DEF Release
<1>9. ASSUME Close(p) PROVE OwnerInv'
  BY <1>0, <1>9 DEF Close
<1>10. ASSUME Dropped(p) \/ UseAnswer(p) \/ Search(p) PROVE OwnerInv'
  BY <1>0, <1>10 DEF Dropped, UseAnswer, Search
<1>11. ASSUME NoAnswer(p) PROVE OwnerInv'
  BY <1>0, <1>11 DEF NoAnswer
<1> QED
  BY <1>1, <1>2, <1>3, <1>4, <1>5, <1>6, <1>7, <1>8, <1>9, <1>10, <1>11
     DEF Enter, Looks, Proceed

-----------------------------------------------------------------------------
(* Who owns an entry keeps it until it is closed.                          *)
LEMMA ServedStep == ASSUME IInv, Next PROVE ServedInv'
<1> SUFFICES ASSUME NEW p \in Callers, Enter(p) \/ Acquire(p) \/ Looks(p) \/ Proceed(p)
             PROVE ServedInv'
  BY DEF Next
<1> USE DEF IInv, TypeOK, ServedInv, Owned, cacheVars, lookupVars, Goto, Owning, Looking
<1>1. ASSUME NEW i \in Ids, Join(p, i) PROVE ServedInv'
  BY <1>1 DEF Join
<1>2. ASSUME NEW i \in Ids, Make(p, i) PROVE ServedInv'
  <2>1. made' = made + 1 /\ 1 .. made' = 1 .. made \cup {made + 1}
    BY <1>2 DEF Make
  <2>2. pc'[p] \in Owning /\ mine'[p] = made + 1
    BY <1>2 DEF Make
  <2>3. \A e \in 1 .. made : e \in closed' \/ Owned(e)'
    BY <1>2 DEF Make
  <2> QED
    BY <2>1, <2>2, <2>3
<1>3. ASSUME Acquire(p) PROVE ServedInv'
  BY <1>3 DEF Acquire
<1>4. ASSUME Looks(p) PROVE ServedInv'
  BY <1>4 DEF Looks, Found, Fails, Panics
<1>5. ASSUME Forget(p) PROVE ServedInv'
  BY <1>5 DEF Forget
<1>6. ASSUME Release(p) PROVE ServedInv'
  BY <1>6 DEF Release
<1>7. ASSUME Close(p) PROVE ServedInv'
  BY <1>7 DEF Close
<1>8. ASSUME Dropped(p) \/ UseAnswer(p) \/ NoAnswer(p) \/ Search(p) PROVE ServedInv'
  BY <1>8 DEF Dropped, UseAnswer, NoAnswer, Search
<1> QED
  BY <1>1, <1>2, <1>3, <1>4, <1>5, <1>6, <1>7, <1>8 DEF Enter, Proceed

-----------------------------------------------------------------------------
(* The cache, and who is looked up again.  Steps that leave the cache, the *)
(* entries and the failures about to be forgotten alone keep it as it is.  *)
LEMMA QuietStep ==
  ASSUME IInv, UNCHANGED <<cacheVars, out>>,
         NEW p \in Callers, NEW from, NEW to, Goto(p, from, to),
         from # "forget", to # "forget", \A q \in Callers : q # p => mine'[q] = mine[q]
  PROVE  CacheInv' /\ LookedUpOnce'
<1> USE DEF IInv, cacheVars
<1>1. pc' = [pc EXCEPT ![p] = to] /\ pc[p] = from /\ pc \in [Callers -> Phases]
  BY DEF Goto, TypeOK
<1>2. ASSUME NEW e PROVE Forgetting(e)' <=> Forgetting(e)
  BY <1>1 DEF Forgetting
<1>3. \A e \in Entries : Undercut(e)' <=> Undercut(e)
  BY DEF Undercut
<1>4. 1 .. made \subseteq Entries
  BY ResolveAssumption DEF TypeOK, Entries
<1>5. CacheInv'
  BY <1>2, <1>3, <1>4 DEF CacheInv
<1> QED
  BY <1>3, <1>4, <1>5 DEF LookedUpOnce

(* A new entry: without a clear its id had none left in the cache, and     *)
(* with one its epoch has no other entry.                                  *)
LEMMA MakeStep ==
  ASSUME IInv, NEW p \in Callers, NEW i \in Ids, Make(p, i)
  PROVE  CacheInv' /\ LookedUpOnce'
<1> USE DEF IInv
<1>1. /\ made \in Nat /\ made' = made + 1 /\ 1 .. made' \subseteq Entries
      /\ made + 1 \in 1 .. made' /\ 1 .. made' = 1 .. made \cup {made + 1}
      /\ made + 1 \notin 1 .. made /\ made + 1 # 0
  BY ResolveAssumption DEF Make, TypeOK, Entries
<1>2. /\ clears \in Nat /\ clears' \in Nat
      /\ ~Full => clears' = clears
      /\ Full => clears' = clears + 1
  BY DEF Make, TypeOK
<1>3. /\ of'[made + 1] = i /\ epoch'[made + 1] = clears' /\ cache'[i] = made + 1
      /\ \A e \in 1 .. made : of'[e] = of[e] /\ epoch'[e] = epoch[e] /\ of[e] \in Ids /\ epoch[e] \in Nat
      /\ \A j \in Ids : j # i => cache'[j] = IF Full THEN 0 ELSE cache[j]
      /\ cache[i] = 0 /\ out' = out /\ out[made + 1] = "open"
  BY <1>1 DEF Make, TypeOK, Missing, lookupVars, OwnerInv
<1>4. pc[p] = "off" /\ pc' = [pc EXCEPT ![p] = "acquire"] /\ mine' = [mine EXCEPT ![p] = made + 1]
  BY DEF Make, Goto
<1>5. \A j \in Ids : cache[j] \in 0 .. made
  BY DEF TypeOK
<1>6. ASSUME NEW e PROVE Forgetting(e)' <=> Forgetting(e)
  BY <1>4 DEF Forgetting, TypeOK
<1>7. \A e \in 1 .. made : Undercut(e) => Undercut(e)'
  BY <1>1, <1>3 DEF Undercut
<1>8. \A j \in Ids : cache'[j] # 0 => of'[cache'[j]] = j /\ epoch'[cache'[j]] = clears'
  <2>1. ASSUME NEW j \in Ids, j # i, cache'[j] # 0
        PROVE  of'[cache'[j]] = j /\ epoch'[cache'[j]] = clears'
    <3>1. ~Full /\ cache'[j] = cache[j] /\ cache[j] \in 1 .. made
      BY <1>1, <1>3, <1>5, <2>1
    <3> QED
      BY <1>2, <1>3, <3>1 DEF CacheInv
  <2> QED
    BY <1>3, <2>1
<1>9. \A e \in 1 .. made' : epoch'[e] <= clears'
  BY <1>1, <1>2, <1>3 DEF CacheInv
<1>10. ASSUME NEW e \in 1 .. made', out'[e] = "failed", cache'[of'[e]] = e
       PROVE  Forgetting(e)'
  <2>1. e \in 1 .. made
    BY <1>1, <1>3, <1>10
  <2>2. of[e] # i /\ cache[of[e]] = e
    BY <1>1, <1>3, <1>10, <2>1
  <2> QED
    BY <1>3, <1>6, <1>10, <2>1, <2>2 DEF CacheInv
<1>11. ASSUME NEW e \in 1 .. made', epoch'[e] = clears', cache'[of'[e]] # e
       PROVE  (out'[e] = "failed" /\ ~Forgetting(e)') \/ Undercut(e)'
  <2>1. e \in 1 .. made
    BY <1>1, <1>3, <1>11
  <2>2. epoch[e] = clears /\ ~Full
    BY <1>2, <1>3, <1>11, <2>1 DEF CacheInv
  <2>3. cache[of[e]] # e
    BY <1>1, <1>3, <1>11, <2>1, <2>2
  <2> QED
    BY <1>3, <1>6, <1>7, <2>1, <2>2, <2>3 DEF CacheInv
<1>12. CacheInv'
  BY <1>8, <1>9, <1>10, <1>11 DEF CacheInv
<1>13. ASSUME NEW e \in 1 .. made', NEW f \in 1 .. made',
              e < f, of'[e] = of'[f], epoch'[e] = epoch'[f]
       PROVE  out'[e] = "failed" \/ Undercut(e)'
  <2>1. e \in 1 .. made
    BY <1>1, <1>13
  <2>2. CASE f \in 1 .. made
    BY <1>3, <1>7, <1>13, <2>1, <2>2 DEF LookedUpOnce
  <2>3. CASE f = made + 1
    <3>1. cache'[of'[e]] # e /\ epoch'[e] = clears'
      BY <1>1, <1>3, <1>13, <2>1, <2>3
    <3> QED
      BY <1>11, <2>1, <3>1
  <2> QED
    BY <1>1, <2>2, <2>3
<1> QED
  BY <1>12, <1>13 DEF LookedUpOnce

(* The end of a lookup: its entry is the caller's own, and still open.     *)
LEMMA LookStep ==
  ASSUME IInv, NEW p \in Callers, Looks(p)
  PROVE  CacheInv' /\ LookedUpOnce'
<1> USE DEF IInv
<1>1. pc[p] = "look" /\ mine[p] \in 1 .. made /\ out[mine[p]] = "open"
  BY DEF Looks, Found, Fails, Panics, Goto, OwnerInv, Owning, Looking
<1>2. PICK to \in {"release", "forget"}, how \in Endings :
        /\ pc' = [pc EXCEPT ![p] = to] /\ out' = [out EXCEPT ![mine[p]] = how]
        /\ how = "failed" <=> to = "forget"
        /\ UNCHANGED <<mine, cacheVars>>
  BY DEF Looks, Found, Fails, Panics, Goto, Endings
<1>3. 1 .. made \subseteq Entries /\ pc \in [Callers -> Phases] /\ out \in [Entries -> Endings]
  BY ResolveAssumption DEF TypeOK, Entries
<1>4. ASSUME NEW e \in 1 .. made, Undercut(e) PROVE Undercut(e)'
  <2>1. PICK d \in 1 .. made : of[d] = of[e] /\ epoch[d] < epoch[e] /\ out[d] = "failed"
    BY <1>4 DEF Undercut
  <2>2. out'[d] = "failed"
    BY <1>1, <1>2, <1>3, <2>1
  <2> QED
    BY <1>2, <2>1, <2>2 DEF Undercut, cacheVars
<1>5. ASSUME NEW e, e # mine[p] PROVE Forgetting(e)' <=> Forgetting(e)
  BY <1>1, <1>2, <1>3, <1>5 DEF Forgetting
<1>6. ASSUME NEW e \in 1 .. made, out'[e] = "failed", cache[of[e]] = e PROVE Forgetting(e)'
  <2>1. CASE e = mine[p]
    BY <1>1, <1>2, <1>3, <1>6, <2>1 DEF Forgetting
  <2>2. CASE e # mine[p]
    BY <1>2, <1>3, <1>5, <1>6, <2>2 DEF CacheInv
  <2> QED
    BY <2>1, <2>2
<1>7. ASSUME NEW e \in 1 .. made, epoch[e] = clears, cache[of[e]] # e
      PROVE  (out'[e] = "failed" /\ ~Forgetting(e)') \/ Undercut(e)'
  <2>1. CASE e = mine[p]
    BY <1>1, <1>4, <1>7, <2>1 DEF CacheInv
  <2>2. CASE e # mine[p]
    BY <1>2, <1>3, <1>4, <1>5, <1>7, <2>2 DEF CacheInv
  <2> QED
    BY <2>1, <2>2
<1>8. CacheInv'
  BY <1>2, <1>6, <1>7 DEF CacheInv, cacheVars
<1>9. \A e \in 1 .. made : out[e] = "failed" => out'[e] = "failed"
  BY <1>1, <1>2, <1>3
<1> QED
  BY <1>2, <1>4, <1>8, <1>9 DEF LookedUpOnce, cacheVars

(* A failure takes its id's entry out of the cache: its own, or one that it*)
(* undercuts.                                                              *)
LEMMA ForgetStep ==
  ASSUME IInv, NEW p \in Callers, Forget(p)
  PROVE  CacheInv' /\ LookedUpOnce'
<1> USE DEF IInv
<1>1. pc[p] = "forget" /\ mine[p] \in 1 .. made /\ out[mine[p]] = "failed"
  BY DEF Forget, Goto, OwnerInv, Owning, Looking
<1>2. /\ pc' = [pc EXCEPT ![p] = "release"] /\ cache' = [cache EXCEPT ![of[mine[p]]] = 0]
      /\ UNCHANGED <<mine, made, of, epoch, clears, out>>
  BY DEF Forget, Goto, lookupVars
<1>3. /\ 1 .. made \subseteq Entries /\ pc \in [Callers -> Phases]
      /\ cache \in [Ids -> 0 .. made] /\ \A e \in 1 .. made : of[e] \in Ids /\ e # 0
  BY ResolveAssumption DEF TypeOK, Entries
<1>4. \A e \in 1 .. made : Undercut(e)' <=> Undercut(e)
  BY <1>2 DEF Undercut
<1>5. \A e \in 1 .. made : Forgetting(e)' <=> Forgetting(e) /\ e # mine[p]
  BY <1>1, <1>2, <1>3 DEF Forgetting, OwnerInv, Owning, Looking
<1>6. ASSUME NEW e \in 1 .. made, epoch[e] = clears, cache'[of[e]] # e
      PROVE  (out[e] = "failed" /\ ~Forgetting(e)') \/ Undercut(e)
  <2>1. CASE cache[of[e]] # e
    BY <1>5, <1>6, <2>1 DEF CacheInv
  <2>2. CASE cache[of[e]] = e
    <3>1. of[e] = of[mine[p]]
      BY <1>2, <1>3, <1>6, <2>2
    <3>2. CASE e = mine[p]
      BY <1>1, <1>5, <3>2
    <3>3. CASE e # mine[p] /\ epoch[mine[p]] # clears
      <4>1. epoch[mine[p]] < epoch[e]
        BY <1>1, <1>3, <1>6, <3>3 DEF CacheInv, TypeOK
      <4> QED
        BY <1>1, <3>1, <4>1 DEF Undercut
    <3>4. CASE e # mine[p] /\ epoch[mine[p]] = clears
      <4>1. cache[of[mine[p]]] # mine[p] /\ Forgetting(mine[p])
        BY <1>1, <2>2, <3>1, <3>4 DEF Forgetting
      <4>2. Undercut(mine[p])
        BY <1>1, <3>4, <4>1 DEF CacheInv
      <4> QED
        BY <1>6, <3>1, <3>4, <4>2 DEF Undercut
    <3> QED
      BY <3>2, <3>3, <3>4
  <2> QED
    BY <2>1, <2>2
<1>7. ASSUME NEW e \in 1 .. made, out[e] = "failed", cache'[of[e]] = e PROVE Forgetting(e)'
  <2>1. of[e] # of[mine[p]] /\ cache[of[e]] = e
    BY <1>1, <1>2, <1>3, <1>7
  <2> QED
    BY <1>5, <1>7, <2>1 DEF CacheInv
<1>8. \A i \in Ids : cache'[i] # 0 => of[cache'[i]] = i /\ epoch[cache'[i]] = clears
  BY <1>2, <1>3 DEF CacheInv
<1>9. CacheInv'
  BY <1>2, <1>4, <1>6, <1>7, <1>8 DEF CacheInv
<1> QED
  BY <1>2, <1>4, <1>9 DEF LookedUpOnce

LEMMA CacheStep == ASSUME IInv, Next PROVE CacheInv' /\ LookedUpOnce'
<1> SUFFICES ASSUME NEW p \in Callers, Enter(p) \/ Acquire(p) \/ Looks(p) \/ Proceed(p)
             PROVE CacheInv' /\ LookedUpOnce'
  BY DEF Next
<1> USE DEF lookupVars
<1>1. ASSUME NEW i \in Ids, Join(p, i) PROVE CacheInv' /\ LookedUpOnce'
  <2>1. Goto(p, "off", "wait") /\ UNCHANGED <<cacheVars, out>> /\ \A q \in Callers : q # p => mine'[q] = mine[q]
    BY <1>1 DEF Join, IInv, TypeOK
  <2> QED
    BY <2>1, QuietStep
<1>2. ASSUME Acquire(p) PROVE CacheInv' /\ LookedUpOnce'
  BY <1>2, QuietStep DEF Acquire
<1>3. ASSUME Release(p) PROVE CacheInv' /\ LookedUpOnce'
  BY <1>3, QuietStep DEF Release
<1>4. ASSUME Close(p) PROVE CacheInv' /\ LookedUpOnce'
  <2>1. PICK to \in {"off", "wait"} : Goto(p, "close", to)
    BY <1>4 DEF Close
  <2>2. UNCHANGED <<cacheVars, out>> /\ \A q \in Callers : q # p => mine'[q] = mine[q]
    BY <1>4 DEF Close, IInv, TypeOK
  <2> QED
    BY <2>1, <2>2, QuietStep
<1>5. ASSUME Dropped(p) \/ UseAnswer(p) \/ NoAnswer(p) \/ Search(p)
      PROVE  CacheInv' /\ LookedUpOnce'
  <2>1. PICK from \in {"wait", "search"}, to \in {"off", "search"} : Goto(p, from, to)
    BY <1>5 DEF Dropped, UseAnswer, NoAnswer, Search
  <2>2. UNCHANGED <<cacheVars, out>> /\ \A q \in Callers : q # p => mine'[q] = mine[q]
    BY <1>5 DEF Dropped, UseAnswer, NoAnswer, Search, IInv, TypeOK
  <2> QED
    BY <2>1, <2>2, QuietStep
<1> QED
  BY <1>1, <1>2, <1>3, <1>4, <1>5, MakeStep, LookStep, ForgetStep DEF Enter, Proceed

-----------------------------------------------------------------------------
(* IInv is inductive.                                                      *)
LEMMA Inductive == IInv /\ [Next]_vars => IInv'
<1>1. ASSUME IInv, Next PROVE IInv'
  BY <1>1, TypeStep, SlotStep, OwnerStep, ServedStep, CacheStep DEF IInv
<1>2. ASSUME IInv, UNCHANGED vars PROVE IInv'
  <2> USE <1>2 DEF IInv, vars
  <2>1. TypeOK' /\ SlotInv' /\ OwnerInv' /\ ServedInv'
    BY DEF TypeOK, SlotInv, Inside, OwnerInv, ServedInv, Owned
  <2>2. CacheInv' /\ LookedUpOnce'
    BY DEF CacheInv, Forgetting, Undercut, LookedUpOnce
  <2> QED
    BY <2>1, <2>2
<1> QED
  BY <1>1, <1>2

(* The inductive invariant holds in every state.                           *)
THEOREM Invariant == Spec => []IInv
BY InitIInv, Inductive, PTL DEF Spec

(* Every variable keeps its type; the semaphore never goes below zero.     *)
THEOREM TypeCorrect == Spec => []TypeOK
<1>1. IInv => TypeOK
  BY DEF IInv
<1> QED
  BY <1>1, Invariant, PTL

(* No link is looked up twice between two clears but for a failure, its own*)
(* or that of a lookup which the clear forgot.                             *)
THEOREM OnlyOneLookup == Spec => []LookedUpOnce
<1>1. IInv => LookedUpOnce
  BY DEF IInv
<1> QED
  BY <1>1, Invariant, PTL

(* However many downloads and prewarms there are, no more lookups run at   *)
(* the same time than there are slots.                                     *)
THEOREM LimitHolds == Spec => []LookupsAreLimited
<1>1. IInv => LookupsAreLimited
  BY DEF IInv, SlotInv, Inside, LookupsAreLimited
<1> QED
  BY <1>1, Invariant, PTL

(* A later caller looks a failure up again.                                *)
THEOREM FailureIsForgotten == Spec => []FailureIsNotCached
<1>1. ASSUME IInv PROVE FailureIsNotCached
  <2> SUFFICES ASSUME NEW i \in Ids, cache[i] \in closed, out[cache[i]] # "panicked"
               PROVE  answer[cache[i]] # "none"
    BY DEF FailureIsNotCached
  <2>1. cache[i] \in 1 .. made /\ cache[i] \in Entries /\ out[cache[i]] \in Endings
    BY <1>1, ResolveAssumption DEF IInv, TypeOK, Entries
  <2>2. out[cache[i]] # "open"
    BY <1>1, <2>1 DEF IInv, OwnerInv
  <2>3. ASSUME out[cache[i]] = "failed" PROVE FALSE
    <3>1. Forgetting(cache[i])
      BY <1>1, <2>1, <2>3 DEF IInv, CacheInv
    <3> QED
      BY <1>1, <3>1 DEF Forgetting, IInv, OwnerInv, Owning, Looking
  <2> QED
    BY <1>1, <2>1, <2>2, <2>3 DEF IInv, OwnerInv, Endings
<1> QED
  BY <1>1, Invariant, PTL

(* Who waits for a lookup waits for one that is closed or will be, and who *)
(* waits for a slot for a lookup that runs.                                *)
THEOREM NobodyIsForgotten == Spec => []WaitersAreServed
<1>1. ASSUME IInv PROVE WaitersAreServed
  <2>1. ASSUME NEW p \in Callers, pc[p] = "wait" PROVE mine[p] \in closed \/ Owned(mine[p])
    BY <1>1, <2>1 DEF IInv, OwnerInv, ServedInv
  <2>2. ASSUME ~Free PROVE \E q \in Callers : pc[q] \in Looking
    <3>1. Cardinality(Inside) # 0
      BY <1>1, <2>2, ResolveAssumption DEF IInv, SlotInv, TypeOK, Free
    <3>2. Inside # {}
      BY <3>1, FS_EmptySet
    <3> QED
      BY <3>2 DEF Inside
  <2> QED
    BY <2>1, <2>2 DEF WaitersAreServed, Owned
<1> QED
  BY <1>1, Invariant, PTL

(* Both together: a link is not looked up more often, nor more links at a  *)
(* time, than flacit.go:243-259 says.                                      *)
THEOREM LookupsSpared == Spec => []LookupsAreSparing
<1>1. LookedUpOnce /\ LookupsAreLimited => LookupsAreSparing
  BY DEF LookupsAreSparing
<1> QED
  BY <1>1, OnlyOneLookup, LimitHolds, PTL
=============================================================================
