-------------------------------- MODULE ServerProofs --------------------------------
(*****************************************************************************)
(* Proofs about the event hub, the histories, the settings and the pass that *)
(* enriches the files, and about the server, put together of all its parts:  *)
(* what a part keeps, the server keeps.                                      *)
(*****************************************************************************)
EXTENDS Server, CatalogProofs, LibraryProofs, FiniteSetTheorems, FiniteSets,
        TLAPS

-----------------------------------------------------------------------------
(* Who no longer holds the lock has served its clients; those that are still
   to be served are in the map, and what is in the map is open, as is what
   has never been put there. *)
Reading ==
    /\ \A e \in Emitter : emit[e].to \subseteq clients
    /\ \A e \in Emitter : ~emit[e].locked => emit[e].to = {}
    /\ \A c \in Client : c \in clients \/ stream[c] = "none" => ~channel[c].closed

(* A sequence of events is in order for each emitter. *)
Ordered(s) == \A i, j \in DOMAIN s : i < j /\ s[i][1] = s[j][1] => s[i][2] < s[j][2]

(* What was sent of an emitter is no newer than its event, and older where
   that is still to be sent. *)
Bounded(s, e, c) ==
    \A i \in DOMAIN s : s[i][1] = e => /\ s[i][2] <= emit[e].n
                                       /\ c \in emit[e].to => s[i][2] < emit[e].n

NothingNewer == \A e \in Emitter, c \in Client : Bounded(Sent(c), e, c)

InOrderInv == \A c \in Client : Ordered(Sent(c))

HubInv == HubTypeOK /\ Reading /\ InOrderInv /\ NothingNewer
-----------------------------------------------------------------------------
(* An event put behind a buffer is put behind all that was sent.            *)
LEMMA PushedLast ==
    ASSUME NEW s \in Seq(Event), NEW b \in Seq(Event), NEW x \in Event
    PROVE  s \o Append(b, x) = Append(s \o b, x)
  OBVIOUS

(* An event that goes from the buffer to the browser keeps its place.       *)
LEMMA Handed ==
    ASSUME NEW s \in Seq(Event), NEW b \in Seq(Event), b # <<>>
    PROVE  Append(s, Head(b)) \o Tail(b) = s \o b
  OBVIOUS

(* Behind events that are older the next one is in order. *)
LEMMA StillOrdered ==
    ASSUME NEW s \in Seq(Event), NEW e \in Emitter, NEW n \in Nat, Ordered(s),
           \A i \in DOMAIN s : s[i][1] = e => s[i][2] < n
    PROVE  Ordered(Append(s, <<e, n>>))
<1> DEFINE t == Append(s, <<e, n>>)
<1>1. /\ DOMAIN t = 1..Len(s) + 1 /\ DOMAIN s = 1..Len(s) /\ Len(s) \in Nat
      /\ \A i \in 1..Len(s) : t[i] = s[i]
      /\ t[Len(s) + 1] = <<e, n>>
  BY DEF Event
<1>2. SUFFICES ASSUME NEW i \in DOMAIN t, NEW j \in DOMAIN t, i < j, t[i][1] = t[j][1]
               PROVE  t[i][2] < t[j][2]
  BY DEF Ordered
<1>3. i \in 1..Len(s)
  BY <1>1, <1>2
<1>4. CASE j \in 1..Len(s)
  BY <1>1, <1>2, <1>3, <1>4 DEF Ordered
<1>5. CASE j = Len(s) + 1
  <2>1. t[j][1] = e /\ t[j][2] = n
    BY <1>1, <1>5
  <2>2. s[i][1] = e
    BY <1>1, <1>2, <1>3, <2>1
  <2>. QED BY <1>1, <1>3, <2>1, <2>2
<1>. QED BY <1>1, <1>4, <1>5

(* A full buffer stays as it was, any other has the event behind it. *)
LEMMA PushedTyped ==
    ASSUME NEW b \in Seq(Event), Len(b) <= Buffer, NEW x \in Event
    PROVE  /\ Pushed(b, x) \in Seq(Event) /\ Len(Pushed(b, x)) <= Buffer
           /\ Pushed(b, x) = b \/ Pushed(b, x) = Append(b, x)
  BY HubAssumption DEF Pushed
-----------------------------------------------------------------------------
(* Every variable keeps its type, and no channel holds more than fits.      *)
LEMMA HubTypeStep == HubTypeOK /\ [HubNext]_hubVars => HubTypeOK'
<1> SUFFICES ASSUME HubTypeOK, [HubNext]_hubVars PROVE HubTypeOK'
  OBVIOUS
<1>1. ASSUME NEW e \in Emitter, Broadcast(e) PROVE HubTypeOK'
  BY <1>1 DEF Broadcast, HubTypeOK
<1>2. ASSUME NEW e \in Emitter, Unlock(e) PROVE HubTypeOK'
  BY <1>2 DEF Unlock, HubTypeOK
<1>3. ASSUME NEW e \in Emitter, NEW c \in Client, SendEvent(e, c) PROVE HubTypeOK'
  <2>1. <<e, emit[e].n>> \in Event
    BY DEF HubTypeOK, Event
  <2>2. channel[c].buf \in Seq(Event) /\ Len(channel[c].buf) <= Buffer
    BY DEF HubTypeOK
  <2>3. /\ Pushed(channel[c].buf, <<e, emit[e].n>>) \in Seq(Event)
        /\ Len(Pushed(channel[c].buf, <<e, emit[e].n>>)) <= Buffer
    BY <2>1, <2>2, PushedTyped
  <2>. QED BY <1>3, <2>3 DEF SendEvent, HubTypeOK
<1>4. ASSUME NEW c \in Client, Subscribe(c) PROVE HubTypeOK'
  BY <1>4 DEF Subscribe, HubTypeOK
<1>5. ASSUME NEW c \in Client, Unsubscribe(c) PROVE HubTypeOK'
  BY <1>5 DEF Unsubscribe, HubTypeOK
<1>6. ASSUME NEW c \in Client, WriteSSE(c) PROVE HubTypeOK'
  <2> DEFINE b == channel[c].buf
  <2>1. b \in Seq(Event) /\ b # <<>> /\ Len(b) <= Buffer
    BY <1>6 DEF WriteSSE, HubTypeOK
  <2>2. Head(b) \in Event /\ Tail(b) \in Seq(Event) /\ Len(Tail(b)) <= Buffer
    BY <2>1, HubAssumption
  <2>3. Append(shown[c], Head(b)) \in Seq(Event)
    BY <2>2 DEF HubTypeOK
  <2>. QED BY <1>6, <2>2, <2>3 DEF WriteSSE, HubTypeOK
<1>7. ASSUME NEW c \in Client, Disconnects(c) PROVE HubTypeOK'
  BY <1>7 DEF Disconnects, HubTypeOK
<1>8. CASE UNCHANGED hubVars
  BY <1>8 DEF hubVars, HubTypeOK
<1>. QED BY <1>1, <1>2, <1>3, <1>4, <1>5, <1>6, <1>7, <1>8 DEF HubNext

(* Who reads the map has it as it is until the lock is given back.          *)
LEMMA ReadingStep == HubTypeOK /\ Reading /\ [HubNext]_hubVars => Reading'
<1> SUFFICES ASSUME HubTypeOK, Reading, [HubNext]_hubVars PROVE Reading'
  OBVIOUS
<1>1. ASSUME NEW e \in Emitter, Broadcast(e) PROVE Reading'
  BY <1>1 DEF Broadcast, HubTypeOK, Reading
<1>2. ASSUME NEW e \in Emitter, Unlock(e) PROVE Reading'
  BY <1>2 DEF Unlock, HubTypeOK, Reading
<1>3. ASSUME NEW e \in Emitter, NEW c \in Client, SendEvent(e, c) PROVE Reading'
  <2>1. \A d \in Client : channel'[d].closed = channel[d].closed
    BY <1>3 DEF SendEvent, HubTypeOK
  <2>2. \A f \in Emitter : emit'[f].to \subseteq emit[f].to /\ emit'[f].locked = emit[f].locked
    BY <1>3 DEF SendEvent, HubTypeOK
  <2>3. UNCHANGED <<clients, stream>>
    BY <1>3 DEF SendEvent
  <2>. QED BY <2>1, <2>2, <2>3 DEF Reading
<1>4. ASSUME NEW c \in Client, Subscribe(c) PROVE Reading'
  BY <1>4 DEF Subscribe, HubTypeOK, Reading
<1>5. ASSUME NEW c \in Client, Unsubscribe(c) PROVE Reading'
  <2>1. \A f \in Emitter : emit'[f].to = {}
    BY <1>5 DEF Unsubscribe, NoReader, Reading
  <2>2. \A d \in Client : d # c => channel'[d] = channel[d]
    BY <1>5 DEF Unsubscribe, HubTypeOK
  <2>3. clients' = clients \ {c} /\ stream'[c] = "gone" /\ UNCHANGED stream
    BY <1>5 DEF Unsubscribe
  <2>. QED BY <2>1, <2>2, <2>3 DEF Reading
<1>6. ASSUME NEW c \in Client, WriteSSE(c) PROVE Reading'
  <2>1. \A d \in Client : channel'[d].closed = channel[d].closed
    BY <1>6 DEF WriteSSE, HubTypeOK
  <2>2. UNCHANGED <<clients, stream, emit>>
    BY <1>6 DEF WriteSSE
  <2>. QED BY <2>1, <2>2 DEF Reading
<1>7. ASSUME NEW c \in Client, Disconnects(c) PROVE Reading'
  BY <1>7 DEF Disconnects, HubTypeOK, Reading
<1>8. CASE UNCHANGED hubVars
  BY <1>8 DEF hubVars, Reading
<1>. QED BY <1>1, <1>2, <1>3, <1>4, <1>5, <1>6, <1>7, <1>8 DEF HubNext
-----------------------------------------------------------------------------
(* A step that adds nothing to what a browser was sent, and takes no emitter
   back in its count or its clients, keeps the order. *)
LEMMA NothingAdded ==
    ASSUME HubTypeOK, InOrderInv, NothingNewer,
           \A c \in Client : Sent(c)' = Sent(c),
           \A e \in Emitter : /\ emit'[e].n = emit[e].n /\ emit'[e].to \subseteq emit[e].to
    PROVE  InOrderInv' /\ NothingNewer'
<1>1. InOrderInv'
  BY DEF InOrderInv
<1>2. NothingNewer'
  BY DEF NothingNewer, Bounded
<1>. QED BY <1>1, <1>2

(* What a browser was sent stays in order, and no newer than the emitters.  *)
LEMMA OrderStep == HubInv /\ [HubNext]_hubVars => (InOrderInv /\ NothingNewer)'
<1> SUFFICES ASSUME HubInv, [HubNext]_hubVars PROVE InOrderInv' /\ NothingNewer'
  OBVIOUS
<1> USE DEF HubInv
<1>1. ASSUME NEW e \in Emitter, Broadcast(e) PROVE InOrderInv' /\ NothingNewer'
  <2>1. \A c \in Client : Sent(c)' = Sent(c)
    BY <1>1 DEF Broadcast, Sent
  <2>2. InOrderInv'
    BY <2>1 DEF InOrderInv
  <2>3. emit'[e].n = emit[e].n + 1 /\ \A f \in Emitter : f # e => emit'[f] = emit[f]
    BY <1>1 DEF Broadcast, HubTypeOK
  <2>4. \A f \in Emitter : emit[f].n \in Nat
    BY DEF HubTypeOK
  <2>5. ASSUME NEW f \in Emitter, NEW c \in Client PROVE Bounded(Sent(c), f, c)'
    <3>1. \A i \in DOMAIN Sent(c) : Sent(c)[i] \in Event
      <4>1. Sent(c) \in Seq(Event)
        BY DEF Sent, HubTypeOK
      <4>. QED BY <4>1
    <3>2. Bounded(Sent(c), f, c)
      BY DEF NothingNewer
    <3>3. \A i \in DOMAIN Sent(c) : Sent(c)[i][2] \in Nat
      BY <3>1 DEF Event
    <3>4. CASE f = e
      BY <2>1, <2>3, <2>4, <3>2, <3>3, <3>4 DEF Bounded
    <3>5. CASE f # e
      BY <2>1, <2>3, <3>2, <3>5 DEF Bounded
    <3>. QED BY <3>4, <3>5
  <2>. QED BY <2>2, <2>5 DEF NothingNewer
<1>2. ASSUME NEW e \in Emitter, Unlock(e) PROVE InOrderInv' /\ NothingNewer'
  <2>1. \A c \in Client : Sent(c)' = Sent(c)
    BY <1>2 DEF Unlock, Sent
  <2>2. \A f \in Emitter : emit'[f].n = emit[f].n /\ emit'[f].to \subseteq emit[f].to
    BY <1>2 DEF Unlock, HubTypeOK
  <2>. QED BY <2>1, <2>2, NothingAdded
<1>3. ASSUME NEW e \in Emitter, NEW c \in Client, SendEvent(e, c)
      PROVE  InOrderInv' /\ NothingNewer'
  <2> DEFINE ev == <<e, emit[e].n>>
             b == channel[c].buf
  <2>1. b \in Seq(Event) /\ Len(b) <= Buffer /\ ev \in Event /\ shown[c] \in Seq(Event)
    BY DEF HubTypeOK, Event
  <2>2. Sent(c)' = shown[c] \o Pushed(b, ev) /\ \A d \in Client : d # c => Sent(d)' = Sent(d)
    BY <1>3 DEF SendEvent, HubTypeOK, Sent
  <2>3. /\ emit[e].n \in Nat /\ c \in emit[e].to
        /\ \A f \in Emitter : emit'[f].n = emit[f].n /\ emit'[f].to \subseteq emit[f].to
        /\ c \notin emit'[e].to
    BY <1>3 DEF SendEvent, HubTypeOK
  <2>4. CASE Pushed(b, ev) = b
    <3>1. \A d \in Client : Sent(d)' = Sent(d)
      BY <2>2, <2>4 DEF Sent
    <3>. QED BY <2>3, <3>1, NothingAdded
  <2>5. CASE Pushed(b, ev) = Append(b, ev)
    <3>1. Sent(c) \in Seq(Event)
      BY <2>1 DEF Sent
    <3>2. Sent(c)' = Append(Sent(c), ev)
      <4>1. shown[c] \o Append(b, ev) = Append(shown[c] \o b, ev)
        BY <2>1, PushedLast
      <4>. QED BY <2>2, <2>5, <4>1 DEF Sent
    <3>3. \A i \in DOMAIN Sent(c) : Sent(c)[i][1] = e => Sent(c)[i][2] < emit[e].n
      BY <2>3 DEF NothingNewer, Bounded
    <3>4. Ordered(Sent(c)')
      BY <2>3, <3>1, <3>2, <3>3, StillOrdered DEF InOrderInv
    <3>5. InOrderInv'
      BY <2>2, <3>4 DEF InOrderInv
    <3>6. ASSUME NEW f \in Emitter PROVE Bounded(Sent(c), f, c)'
      <4>1. Bounded(Sent(c), f, c)
        BY DEF NothingNewer
      <4>2. /\ DOMAIN Sent(c)' = 1..Len(Sent(c)) + 1 /\ DOMAIN Sent(c) = 1..Len(Sent(c))
            /\ \A i \in 1..Len(Sent(c)) : Sent(c)'[i] = Sent(c)[i]
            /\ Sent(c)'[Len(Sent(c)) + 1] = ev /\ Len(Sent(c)) \in Nat
        BY <2>1, <3>1, <3>2
      <4>3. ASSUME NEW i \in 1..Len(Sent(c)), Sent(c)'[i][1] = f
            PROVE  Sent(c)'[i][2] <= emit'[f].n /\ (c \in emit'[f].to => Sent(c)'[i][2] < emit'[f].n)
        BY <2>3, <4>1, <4>2, <4>3 DEF Bounded
      <4>4. ev[1] = f => ev[2] <= emit'[f].n /\ c \notin emit'[f].to
        BY <2>3
      <4>5. \A i \in DOMAIN Sent(c)' : i \in 1..Len(Sent(c)) \/ i = Len(Sent(c)) + 1
        BY <4>2
      <4>. QED BY <4>2, <4>3, <4>4, <4>5 DEF Bounded
    <3>7. ASSUME NEW f \in Emitter, NEW d \in Client, d # c PROVE Bounded(Sent(d), f, d)'
      <4>1. Bounded(Sent(d), f, d)
        BY DEF NothingNewer
      <4>. QED BY <2>2, <2>3, <3>7, <4>1 DEF Bounded
    <3>. QED BY <3>5, <3>6, <3>7 DEF NothingNewer
  <2>. QED BY <2>1, <2>4, <2>5, PushedTyped
<1>4. ASSUME NEW c \in Client, Subscribe(c) PROVE InOrderInv' /\ NothingNewer'
  <2>1. \A d \in Client : Sent(d)' = Sent(d)
    BY <1>4 DEF Subscribe, Sent
  <2>2. UNCHANGED emit
    BY <1>4 DEF Subscribe
  <2>. QED BY <2>1, <2>2, NothingAdded
<1>5. ASSUME NEW c \in Client, Unsubscribe(c) PROVE InOrderInv' /\ NothingNewer'
  <2>1. \A d \in Client : Sent(d)' = Sent(d)
    BY <1>5 DEF Unsubscribe, Sent, HubTypeOK
  <2>2. UNCHANGED emit
    BY <1>5 DEF Unsubscribe
  <2>. QED BY <2>1, <2>2, NothingAdded
<1>6. ASSUME NEW c \in Client, WriteSSE(c) PROVE InOrderInv' /\ NothingNewer'
  <2> DEFINE b == channel[c].buf
  <2>1. b \in Seq(Event) /\ b # <<>> /\ shown[c] \in Seq(Event)
    BY <1>6 DEF WriteSSE, HubTypeOK
  <2>2. Sent(c)' = Append(shown[c], Head(b)) \o Tail(b)
    BY <1>6 DEF WriteSSE, HubTypeOK, Sent
  <2>3. Sent(c)' = Sent(c)
    BY <2>1, <2>2, Handed DEF Sent
  <2>4. \A d \in Client : d # c => Sent(d)' = Sent(d)
    BY <1>6 DEF WriteSSE, HubTypeOK, Sent
  <2>5. UNCHANGED emit
    BY <1>6 DEF WriteSSE
  <2>. QED BY <2>3, <2>4, <2>5, NothingAdded
<1>7. ASSUME NEW c \in Client, Disconnects(c) PROVE InOrderInv' /\ NothingNewer'
  <2>1. \A d \in Client : Sent(d)' = Sent(d)
    BY <1>7 DEF Disconnects, Sent
  <2>2. UNCHANGED emit
    BY <1>7 DEF Disconnects
  <2>. QED BY <2>1, <2>2, NothingAdded
<1>8. CASE UNCHANGED hubVars
  <2>1. UNCHANGED <<shown, channel, emit>>
    BY <1>8 DEF hubVars
  <2>2. \A d \in Client : Sent(d)' = Sent(d)
    BY <2>1 DEF Sent
  <2>. QED BY <2>1, <2>2, NothingAdded
<1>. QED BY <1>1, <1>2, <1>3, <1>4, <1>5, <1>6, <1>7, <1>8 DEF HubNext
-----------------------------------------------------------------------------
(* The inductive invariant of the event hub: types, whom a reader may still
   serve, and what each browser was sent against where each emitter is. *)
THEOREM HubInvariant == HubSpec => []HubInv
<1>1. HubInit => HubInv
  <2> SUFFICES ASSUME HubInit PROVE HubInv
    OBVIOUS
  <2>1. HubTypeOK
    BY HubAssumption DEF HubInit, HubTypeOK
  <2>2. Reading
    BY DEF HubInit, Reading
  <2>3. \A c \in Client : Sent(c) = <<>>
    BY DEF HubInit, Sent
  <2>4. InOrderInv /\ NothingNewer
    BY <2>3 DEF InOrderInv, Ordered, NothingNewer, Bounded
  <2>. QED BY <2>1, <2>2, <2>4 DEF HubInv
<1>2. HubInv /\ [HubNext]_hubVars => HubInv'
  BY HubTypeStep, ReadingStep, OrderStep DEF HubInv
<1>. QED BY <1>1, <1>2, PTL DEF HubSpec

(* Every variable of the hub keeps its type (EventHub's HubTypeOK).         *)
THEOREM HubTypeCorrect == HubSpec => []HubTypeOK
<1>1. HubInv => HubTypeOK
  BY DEF HubInv
<1>. QED BY <1>1, HubInvariant, PTL

(* However browsers come and go, broadcast never sends on a channel that
   unsubscribe has closed. *)
THEOREM NeverSendsOnClosed == HubSpec => []NoSendOnClosed
<1>1. HubInv => NoSendOnClosed
  BY DEF HubInv, Reading, NoSendOnClosed
<1>. QED BY <1>1, HubInvariant, PTL

(* A browser is shown each emitter's events in order, whatever a full buffer
   has dropped. *)
THEOREM ShownInOrder == HubSpec => []InOrder
<1>1. HubInv => InOrder
  BY DEF HubInv, InOrderInv, Ordered, InOrder
<1>. QED BY <1>1, HubInvariant, PTL

(* All three together, the property the run checks: no send on a closed
   channel, and no event out of order. *)
THEOREM HubCorrect == HubSpec => []HubIsOrderly
<1>1. HubTypeOK /\ NoSendOnClosed /\ InOrder => HubIsOrderly
  BY DEF HubIsOrderly
<1>. QED BY <1>1, HubTypeCorrect, NeverSendsOnClosed, ShownInOrder, PTL

-----------------------------------------------------------------------------
(* The rows of a bucket that has given out so many numbers: no more of them
   than the limit, and no two under one key. *)
Numbered(bucket, given) ==
    /\ IsFiniteSet(bucket) /\ Cardinality(bucket) <= MaxHistory
    /\ \A r \in bucket : r.at \in 1..LastTime /\ r.seq \in 1..given /\ r.no \in 1..rows
    /\ \A r, s \in bucket : r.at = s.at /\ r.seq = s.seq => r = s

HistoryInv ==
    /\ rows \in Nat /\ clock \in 1..LastTime
    /\ sequence \in [{"downloads", "fetches"} -> Nat]
    /\ Numbered(downloads, sequence.downloads) /\ Numbered(fetches, sequence.fetches)
    /\ HistoryTypeOK /\ FetchedOnce /\ JustAddedIsKept

-----------------------------------------------------------------------------
(* A bucket with rows has one before all others. *)
LEMMA FirstRow ==
    ASSUME NEW bucket, bucket # {}, \A r \in bucket : r.at \in Nat /\ r.seq \in Nat
    PROVE  \E r \in bucket : \A s \in bucket : ~Before(s, r)
  <1> DEFINE Times == {r.at : r \in bucket}
  <1>1. Times \subseteq Nat /\ Times # {} OBVIOUS
  <1> HIDE DEF Times
  <1>2. PICK t \in Times : \A u \in Times : t <= u BY <1>1, LeastOf
  <1> DEFINE Seqs == {r.seq : r \in {s \in bucket : s.at = t}}
  <1>3. \E r \in bucket : r.at = t BY <1>2 DEF Times
  <1>4. Seqs \subseteq Nat /\ Seqs # {} BY <1>3
  <1> HIDE DEF Seqs
  <1>5. PICK n \in Seqs : \A m \in Seqs : n <= m BY <1>4, LeastOf
  <1>6. PICK r \in bucket : r.at = t /\ r.seq = n BY <1>5 DEF Seqs
  <1>7. ASSUME NEW s \in bucket PROVE ~Before(s, r)
    <2>1. t <= s.at BY <1>2 DEF Times
    <2>2. s.at = t => n <= s.seq BY <1>5 DEF Seqs
    <2> QED BY <1>6, <2>1, <2>2 DEF Before
  <1> QED BY <1>7

(* What is left after a trim leaves place for a row. *)
LEMMA TrimLeavesPlace ==
    ASSUME NEW bucket, NEW given \in Nat, Numbered(bucket, given), NEW left \in SUBSET bucket
    PROVE  /\ Trimmed(bucket, left) \subseteq left /\ IsFiniteSet(Trimmed(bucket, left))
           /\ Cardinality(Trimmed(bucket, left)) + 1 <= MaxHistory
  <1>1. IsFiniteSet(bucket) /\ Cardinality(bucket) <= MaxHistory /\ Cardinality(bucket) \in Nat /\
          MaxHistory \in Nat \ {0}
    BY HistoryAssumption, FS_CardinalityType DEF Numbered
  <1>2. Trimmed(bucket, left) \subseteq left BY DEF Trimmed
  <1>3. /\ IsFiniteSet(left) /\ Cardinality(left) <= Cardinality(bucket) /\ Cardinality(left) \in Nat
    BY <1>1, FS_Subset, FS_CardinalityType
  <1>4. /\ IsFiniteSet(Trimmed(bucket, left)) /\ Cardinality(Trimmed(bucket, left)) <= Cardinality(left)
        /\ Cardinality(Trimmed(bucket, left)) \in Nat
    BY <1>2, <1>3, FS_Subset, FS_CardinalityType
  <1>5. CASE Cardinality(bucket) < MaxHistory BY <1>1, <1>2, <1>3, <1>4, <1>5
  <1>6. CASE Cardinality(bucket) >= MaxHistory /\ left = {}
    <2>1. Cardinality(left) = 0 BY <1>6, FS_EmptySet
    <2> QED BY <1>1, <1>2, <1>3, <1>4, <2>1
  <1>7. CASE Cardinality(bucket) >= MaxHistory /\ left # {}
    <2>1. \A r \in left : r.at \in Nat /\ r.seq \in Nat BY DEF Numbered
    <2>2. PICK r \in left : \A s \in left : ~Before(s, r) BY <1>7, <2>1, FirstRow
    <2>3. {s \in left : Before(s, r)} = {} BY <2>2
    <2>4. r \in First(left, TrimCount)
      <3>1. Cardinality({s \in left : Before(s, r)}) = 0 BY <2>3, FS_EmptySet
      <3> QED BY <3>1, HistoryAssumption DEF First
    <2>5. Trimmed(bucket, left) \subseteq left \ {r} BY <1>7, <2>4 DEF Trimmed
    <2>6. IsFiniteSet(left \ {r}) /\ Cardinality(left \ {r}) = Cardinality(left) - 1
      BY <1>3, FS_RemoveElement
    <2>7. Cardinality(Trimmed(bucket, left)) <= Cardinality(left \ {r})
      BY <2>5, <2>6, FS_Subset
    <2> QED BY <1>1, <1>2, <1>3, <1>4, <2>6, <2>7
  <1> QED BY <1>1, <1>5, <1>6, <1>7

(* A bucket with a row that has the next number. *)
LEMMA RowAdded ==
    ASSUME NEW bucket, NEW given \in Nat, Numbered(bucket, given), NEW left \in SUBSET bucket,
           NEW row, row.at \in 1..LastTime, row.seq = given + 1, row.no = rows + 1,
           rows \in Nat, rows' = rows + 1, NEW next, next = Trimmed(bucket, left) \cup {row}
    PROVE  Numbered(next, given + 1)' /\ row \in next /\ next \subseteq left \cup {row}
  <1>1. /\ Trimmed(bucket, left) \subseteq left /\ IsFiniteSet(Trimmed(bucket, left))
        /\ Cardinality(Trimmed(bucket, left)) + 1 <= MaxHistory
    BY TrimLeavesPlace
  <1>2. Cardinality(Trimmed(bucket, left)) \in Nat BY <1>1, FS_CardinalityType
  <1>3. IsFiniteSet(next) /\ Cardinality(next) <= Cardinality(Trimmed(bucket, left)) + 1
    BY <1>1, <1>2, FS_AddElement
  <1>4. MaxHistory \in Nat /\ Cardinality(next) \in Nat
    BY <1>3, HistoryAssumption, FS_CardinalityType
  <1>5. Cardinality(next) <= MaxHistory BY <1>1, <1>2, <1>3, <1>4
  <1>6. next \subseteq left \cup {row} /\ row \in next BY <1>1
  <1>7. \A r \in bucket : r.at \in 1..LastTime /\ r.seq \in 1..given /\ r.no \in 1..rows
    BY DEF Numbered
  <1>8. \A r \in next : r = row \/ r \in bucket BY <1>6
  <1>9. \A r \in next : r.at \in 1..LastTime /\ r.seq \in 1..(given + 1) /\ r.no \in 1..rows'
    BY <1>7, <1>8
  <1>10. \A r, s \in next : r.at = s.at /\ r.seq = s.seq => r = s
    <2> SUFFICES ASSUME NEW r \in next, NEW s \in next, r.at = s.at, r.seq = s.seq PROVE r = s
      OBVIOUS
    <2>1. CASE r \in bucket /\ s \in bucket BY <2>1 DEF Numbered
    <2>2. CASE r = row \/ s = row BY <1>7, <1>8, <2>2
    <2> QED BY <1>8, <2>1, <2>2
  <1> QED BY <1>3, <1>5, <1>6, <1>9, <1>10 DEF Numbered

(* A bucket with rows taken out. *)
LEMMA RowsTaken ==
    ASSUME NEW bucket, NEW given \in Nat, Numbered(bucket, given), NEW next \in SUBSET bucket,
           rows' = rows
    PROVE  Numbered(next, given)'
  <1>1. /\ IsFiniteSet(next) /\ Cardinality(next) <= Cardinality(bucket) /\ Cardinality(next) \in Nat
        /\ Cardinality(bucket) \in Nat /\ Cardinality(bucket) <= MaxHistory /\ MaxHistory \in Nat
    BY HistoryAssumption, FS_Subset, FS_CardinalityType DEF Numbered
  <1>2. Cardinality(next) <= MaxHistory BY <1>1
  <1> QED BY <1>1, <1>2 DEF Numbered

(* A fetched link that is there once is replaced: there is no row it could
   have been passed over for. *)
LEMMA ReplacedIsAll ==
    ASSUME FetchedOnce, \A r \in fetches : r.at \in Nat /\ r.seq \in Nat, NEW url, NEW type
    PROVE  \A r \in fetches : SameLink(r, url, type) => r \in Replaced(url, type)
  <1> SUFFICES ASSUME NEW r \in fetches, SameLink(r, url, type), NEW s \in fetches,
                      SameLink(s, url, type), Before(s, r)
               PROVE  FALSE
    BY DEF Replaced, PassedOver
  <1>1. r = s BY DEF FetchedOnce, SameLink
  <1> QED BY <1>1 DEF Before

(* What a step has to do to a bucket for the invariant to stay. *)
LEMMA FromNumbered ==
    ASSUME NEW bucket, NEW given \in Nat, Numbered(bucket, given)
    PROVE  /\ \A r \in bucket : /\ r.at \in 1..LastTime /\ r.no \in 1..rows /\ r.seq \in 1..given
                                /\ r.at \in Nat /\ r.seq \in Nat
           /\ Cardinality(bucket) <= MaxHistory
           /\ \A r, s \in bucket : r.at = s.at /\ r.seq = s.seq => r = s
  BY DEF Numbered

(* Types, the limit and the keys follow for both buckets at once. *)
LEMMA HistoryTypeFrom ==
    ASSUME rows' \in Nat, clock' \in 1..LastTime, sequence' \in [{"downloads", "fetches"} -> Nat],
           Numbered(downloads, sequence.downloads)', Numbered(fetches, sequence.fetches)',
           \A r \in (downloads \cup fetches)' : r.url \in URL \cup {NoURL},
           \A r \in fetches' : r.type \in FetchType,
           "downloads" \notin buckets' => downloads' = {}, "fetches" \notin buckets' => fetches' = {},
           \A no \in addedLast' : \E r \in (downloads \cup fetches)' : r.no = no
    PROVE  (HistoryTypeOK /\ JustAddedIsKept)'
  <1>1. /\ \A r \in downloads' : r.at \in 1..LastTime /\ r.no \in 1..rows' /\
             r.seq \in 1..sequence'.downloads
        /\ Cardinality(downloads') <= MaxHistory
        /\ \A r, s \in downloads' : r.at = s.at /\ r.seq = s.seq => r = s
    BY DEF Numbered
  <1>2. /\ \A r \in fetches' : r.at \in 1..LastTime /\ r.no \in 1..rows' /\ r.seq \in 1..sequence'.fetches
        /\ Cardinality(fetches') <= MaxHistory
        /\ \A r, s \in fetches' : r.at = s.at /\ r.seq = s.seq => r = s
    BY DEF Numbered
  <1> QED BY <1>1, <1>2 DEF HistoryTypeOK, JustAddedIsKept

(* A step that adds no row. *)
LEMMA NothingNew ==
    ASSUME HistoryInv, downloads' \subseteq downloads, fetches' \subseteq fetches,
           sequence' \in [{"downloads", "fetches"} -> Nat],
           sequence'.downloads = sequence.downloads \/ downloads' = {},
           sequence'.fetches = sequence.fetches \/ fetches' = {},
           "downloads" \notin buckets' => downloads' = {}, "fetches" \notin buckets' => fetches' = {},
           rows' = rows, clock' \in 1..LastTime,
           addedLast' = {} \/ UNCHANGED <<addedLast, downloads, fetches>>
    PROVE  HistoryInv'
  <1>1. rows' \in Nat /\ rows' = rows /\ sequence.downloads \in Nat /\ sequence.fetches \in Nat
    BY DEF HistoryInv
  <1>2. ASSUME NEW next, next = {}, NEW given PROVE Numbered(next, given)'
    <2>1. IsFiniteSet({}) /\ Cardinality({}) = 0 BY FS_EmptySet
    <2> QED BY <1>2, <2>1, HistoryAssumption DEF Numbered
  <1>3. Numbered(downloads, sequence.downloads)'
    <2>1. Numbered(downloads, sequence.downloads) BY DEF HistoryInv
    <2>2. PICK given \in Nat : given = sequence.downloads BY <1>1
    <2>3. PICK next : next = downloads' OBVIOUS
    <2>4. Numbered(next, given)' BY <1>1, <2>1, <2>2, <2>3, RowsTaken
    <2>5. PICK given2 : given2 = sequence'.downloads OBVIOUS
    <2>6. Numbered(next, given2)' BY <1>2, <2>2, <2>3, <2>4, <2>5
    <2> QED BY <2>3, <2>5, <2>6 DEF Numbered
  <1>4. Numbered(fetches, sequence.fetches)'
    <2>1. Numbered(fetches, sequence.fetches) BY DEF HistoryInv
    <2>2. PICK given \in Nat : given = sequence.fetches BY <1>1
    <2>3. PICK next : next = fetches' OBVIOUS
    <2>4. Numbered(next, given)' BY <1>1, <2>1, <2>2, <2>3, RowsTaken
    <2>5. PICK given2 : given2 = sequence'.fetches OBVIOUS
    <2>6. Numbered(next, given2)' BY <1>2, <2>2, <2>3, <2>4, <2>5
    <2> QED BY <2>3, <2>5, <2>6 DEF Numbered
  <1>5. /\ \A r \in (downloads \cup fetches)' : r.url \in URL \cup {NoURL}
        /\ \A r \in fetches' : r.type \in FetchType
    BY DEF HistoryInv, HistoryTypeOK
  <1>6. \A no \in addedLast' : \E r \in (downloads \cup fetches)' : r.no = no
    BY DEF HistoryInv, JustAddedIsKept
  <1>7. (HistoryTypeOK /\ JustAddedIsKept)'
    <2>1. /\ rows' \in Nat /\ clock' \in 1..LastTime /\ sequence' \in [{"downloads", "fetches"} -> Nat]
      BY <1>1
    <2> QED BY <1>3, <1>4, <1>5, <1>6, <2>1, HistoryTypeFrom
  <1>8. FetchedOnce'
    BY DEF HistoryInv, FetchedOnce, SameLink
  <1> QED BY <1>1, <1>3, <1>4, <1>7, <1>8 DEF HistoryInv

(* A row of a download. *)
LEMMA HistoryAdds == ASSUME HistoryInv, AddHistoryItem PROVE HistoryInv'
  <1>1. /\ rows \in Nat /\ rows' = rows + 1 /\ clock' = clock /\ clock \in 1..LastTime
        /\ sequence \in [{"downloads", "fetches"} -> Nat]
        /\ sequence' = [sequence EXCEPT !.downloads = @ + 1] /\ fetches' = fetches
        /\ addedLast' = {rows + 1} /\ buckets' = buckets \cup {"downloads"}
        /\ downloads' = Trimmed(downloads, downloads) \cup {Row("downloads", NoURL, "track")}
    BY DEF HistoryInv, AddHistoryItem
  <1>2. /\ sequence' \in [{"downloads", "fetches"} -> Nat]
        /\ sequence'.downloads = sequence.downloads + 1 /\ sequence'.fetches = sequence.fetches
        /\ sequence.downloads \in Nat /\ sequence.fetches \in Nat
    BY <1>1
  <1>3. PICK row : row = Row("downloads", NoURL, "track") OBVIOUS
  <1>4. /\ row.at \in 1..LastTime /\ row.seq = sequence.downloads + 1 /\ row.no = rows + 1 /\
             row.url = NoURL
    BY <1>1, <1>3 DEF Row
  <1>5. Numbered(downloads, sequence.downloads) /\ Numbered(fetches, sequence.fetches)
    BY DEF HistoryInv
  <1>6. PICK next : next = downloads' OBVIOUS
  <1>7. PICK given \in Nat : given = sequence.downloads BY <1>2
  <1>8. Numbered(next, given + 1)' /\ row \in next /\ next \subseteq downloads \cup {row}
    <2>1. next = Trimmed(downloads, downloads) \cup {row} BY <1>1, <1>3, <1>6
    <2>2. row.seq = given + 1 /\ Numbered(downloads, given) BY <1>4, <1>5, <1>7
    <2> QED BY <1>1, <1>4, <2>1, <2>2, RowAdded
  <1>9. Numbered(downloads, sequence.downloads)' BY <1>2, <1>6, <1>7, <1>8 DEF Numbered
  <1>10. Numbered(fetches, sequence.fetches)'
    <2>1. \A r \in fetches : r.no \in 1..rows' BY <1>1, <1>5 DEF Numbered
    <2> QED BY <1>1, <1>2, <1>5, <2>1 DEF Numbered
  <1>11. /\ \A r \in (downloads \cup fetches)' : r.url \in URL \cup {NoURL}
         /\ \A r \in fetches' : r.type \in FetchType
         /\ "downloads" \in buckets' /\ ("fetches" \notin buckets' => fetches' = {})
    BY <1>1, <1>4, <1>6, <1>8 DEF HistoryInv, HistoryTypeOK
  <1>12. \A no \in addedLast' : \E r \in (downloads \cup fetches)' : r.no = no
    BY <1>1, <1>4, <1>6, <1>8
  <1>13. (HistoryTypeOK /\ JustAddedIsKept)'
    <2>1. rows' \in Nat /\ clock' \in 1..LastTime BY <1>1
    <2> QED BY <1>2, <1>9, <1>10, <1>11, <1>12, <2>1, HistoryTypeFrom
  <1>14. FetchedOnce' BY <1>1 DEF HistoryInv, FetchedOnce, SameLink
  <1> QED BY <1>1, <1>2, <1>9, <1>10, <1>13, <1>14 DEF HistoryInv

(* A row of a link that was fetched, in the place of the older one. *)
LEMMA FetchAdds ==
    ASSUME HistoryInv, NEW url \in URL, NEW type \in FetchType, AddFetchHistoryItem(url, type)
    PROVE  HistoryInv'
  <1>1. /\ rows \in Nat /\ rows' = rows + 1 /\ clock' = clock /\ clock \in 1..LastTime
        /\ sequence \in [{"downloads", "fetches"} -> Nat]
        /\ sequence' = [sequence EXCEPT !.fetches = @ + 1] /\ downloads' = downloads
        /\ addedLast' = {rows + 1} /\ buckets' = buckets \cup {"fetches"}
        /\ fetches' = Trimmed(fetches, fetches \ Replaced(url, type)) \cup {Row("fetches", url, type)}
    BY DEF HistoryInv, AddFetchHistoryItem
  <1>2. /\ sequence' \in [{"downloads", "fetches"} -> Nat]
        /\ sequence'.fetches = sequence.fetches + 1 /\ sequence'.downloads = sequence.downloads
        /\ sequence.downloads \in Nat /\ sequence.fetches \in Nat
    BY <1>1
  <1>3. PICK row : row = Row("fetches", url, type) OBVIOUS
  <1>4. /\ row.at \in 1..LastTime /\ row.seq = sequence.fetches + 1 /\ row.no = rows + 1
        /\ row.url = url /\ row.type = type
    BY <1>1, <1>3 DEF Row
  <1>5. Numbered(downloads, sequence.downloads) /\ Numbered(fetches, sequence.fetches)
    BY DEF HistoryInv
  <1>6. PICK next : next = fetches' OBVIOUS
  <1>7. PICK given \in Nat : given = sequence.fetches BY <1>2
  <1> DEFINE left == fetches \ Replaced(url, type)
  <1>8. Numbered(next, given + 1)' /\ row \in next /\ next \subseteq left \cup {row}
    <2>1. next = Trimmed(fetches, left) \cup {row} BY <1>1, <1>3, <1>6
    <2>2. row.seq = given + 1 /\ Numbered(fetches, given) BY <1>4, <1>5, <1>7
    <2>3. left \subseteq fetches OBVIOUS
    <2> HIDE DEF left
    <2> QED BY <1>1, <1>4, <2>1, <2>2, <2>3, RowAdded
  <1>9. Numbered(fetches, sequence.fetches)' BY <1>2, <1>6, <1>7, <1>8 DEF Numbered
  <1>10. Numbered(downloads, sequence.downloads)'
    <2>1. \A r \in downloads : r.no \in 1..rows' BY <1>1, <1>5 DEF Numbered
    <2> QED BY <1>1, <1>2, <1>5, <2>1 DEF Numbered
  <1>11. /\ \A r \in (downloads \cup fetches)' : r.url \in URL \cup {NoURL}
         /\ \A r \in fetches' : r.type \in FetchType
         /\ "fetches" \in buckets' /\ ("downloads" \notin buckets' => downloads' = {})
    BY <1>1, <1>4, <1>6, <1>8 DEF HistoryInv, HistoryTypeOK
  <1>12. \A no \in addedLast' : \E r \in (downloads \cup fetches)' : r.no = no
    BY <1>1, <1>4, <1>6, <1>8
  <1>13. (HistoryTypeOK /\ JustAddedIsKept)'
    <2>1. rows' \in Nat /\ clock' \in 1..LastTime BY <1>1
    <2> QED BY <1>2, <1>9, <1>10, <1>11, <1>12, <2>1, HistoryTypeFrom
  <1>14. FetchedOnce'
    <2>1. FetchedOnce /\ \A r \in fetches : r.at \in Nat /\ r.seq \in Nat
      BY <1>2, <1>5, FromNumbered DEF HistoryInv
    <2>2. \A r \in left : ~SameLink(r, url, type) BY <2>1, ReplacedIsAll
    <2>3. \A r \in left : r \in fetches OBVIOUS
    <2> HIDE DEF left
    <2>4. \A r, s \in next : SameLink(r, s.url, s.type) => r = s
      BY <1>4, <1>8, <2>1, <2>2, <2>3 DEF FetchedOnce, SameLink
    <2> QED BY <1>6, <2>4 DEF FetchedOnce, SameLink
  <1> QED BY <1>1, <1>2, <1>9, <1>10, <1>13, <1>14 DEF HistoryInv

(* The inductive invariant of the histories: finite buckets within the limit,
   keys that no two rows share, numbers that were given out, and at most one row
   of a link and type. *)
THEOREM HistoryInvariant == HistorySpec => []HistoryInv
  <1>1. HistoryInit => HistoryInv
    <2> SUFFICES ASSUME HistoryInit PROVE HistoryInv OBVIOUS
    <2>1. /\ rows \in Nat /\ clock \in 1..LastTime /\ sequence \in [{"downloads", "fetches"} -> Nat]
          /\ downloads = {} /\ fetches = {} /\ addedLast = {} /\ FetchedOnce
      BY HistoryAssumption DEF HistoryInit, FetchedOnce
    <2>2. \A n \in Nat : Numbered({}, n)
      <3>1. IsFiniteSet({}) /\ Cardinality({}) = 0 BY FS_EmptySet
      <3> QED BY <3>1, HistoryAssumption DEF Numbered
    <2>3. Numbered(downloads, sequence.downloads) /\ Numbered(fetches, sequence.fetches)
      BY <2>1, <2>2
    <2>4. HistoryTypeOK /\ JustAddedIsKept
      BY <2>1, <2>3 DEF HistoryTypeOK, JustAddedIsKept, Numbered
    <2> QED BY <2>1, <2>3, <2>4 DEF HistoryInv
  <1>2. ASSUME HistoryInv, [HistoryNext]_historyVars PROVE HistoryInv'
    <2>1. /\ sequence \in [{"downloads", "fetches"} -> Nat] /\ clock \in 1..LastTime
          /\ "downloads" \notin buckets => downloads = {}
          /\ "fetches" \notin buckets => fetches = {}
      BY <1>2 DEF HistoryInv, HistoryTypeOK
    <2>2. CASE AddHistoryItem BY <1>2, <2>2, HistoryAdds
    <2>3. ASSUME NEW url \in URL, NEW type \in FetchType, AddFetchHistoryItem(url, type) PROVE HistoryInv'
      BY <1>2, <2>3, FetchAdds
    <2>4. CASE ClearHistory
      <3>1. /\ downloads' = {} /\ fetches' = fetches /\ rows' = rows /\ clock' \in 1..LastTime /\
                 addedLast' = {}
            /\ sequence' \in [{"downloads", "fetches"} -> Nat] /\ sequence'.fetches = sequence.fetches
            /\ "fetches" \notin buckets' => fetches' = {}
        BY <2>1, <2>4 DEF ClearHistory, Rest
      <3> QED BY <1>2, <3>1, NothingNew
    <2>5. CASE ClearFetchHistory
      <3>1. /\ fetches' = {} /\ downloads' = downloads /\ rows' = rows /\ clock' \in 1..LastTime /\
                 addedLast' = {}
            /\ sequence' \in [{"downloads", "fetches"} -> Nat] /\ sequence'.downloads = sequence.downloads
            /\ "downloads" \notin buckets' => downloads' = {}
        BY <2>1, <2>5 DEF ClearFetchHistory, Rest
      <3> QED BY <1>2, <3>1, NothingNew
    <2>6. CASE \/ \E type \in FetchType : ClearFetchHistoryByType(type)
               \/ \E r \in downloads : DeleteHistoryItem(r)
               \/ \E r \in fetches : DeleteFetchHistoryItem(r)
      <3>1. /\ downloads' \subseteq downloads /\ fetches' \subseteq fetches /\ addedLast' = {}
            /\ rows' = rows /\ clock' = clock /\ sequence' = sequence /\ buckets' = buckets
        BY <2>6 DEF ClearFetchHistoryByType, DeleteHistoryItem, DeleteFetchHistoryItem, Rest
      <3>2. /\ "downloads" \notin buckets' => downloads' = {}
            /\ "fetches" \notin buckets' => fetches' = {}
        BY <2>1, <3>1
      <3> QED BY <1>2, <2>1, <3>1, <3>2, NothingNew
    <2>7. CASE Clock \/ UNCHANGED historyVars
      <3>1. /\ UNCHANGED <<downloads, fetches, buckets, sequence, rows, addedLast>> /\
                 clock' \in 1..LastTime
        BY <2>1, <2>7, HistoryAssumption DEF Clock, historyVars
      <3> QED BY <1>2, <2>1, <3>1, NothingNew
    <2> QED BY <1>2, <2>2, <2>3, <2>4, <2>5, <2>6, <2>7 DEF HistoryNext
  <1> QED BY <1>1, <1>2, PTL DEF HistorySpec

(* The buckets of history.db keep to their types, and to maxHistory rows at all
   times, whatever the clock does. *)
THEOREM HistoryTypeCorrect == HistorySpec => []HistoryTypeOK
  <1>1. HistoryInv => HistoryTypeOK BY DEF HistoryInv
  <1> QED BY <1>1, HistoryInvariant, PTL

(* AddFetchHistoryItem deletes under its own cursor and may pass over rows, but
   there is never a second row of a link and type to pass over. *)
THEOREM LinksAreListedOnce == HistorySpec => []FetchedOnce
  <1>1. HistoryInv => FetchedOnce BY DEF HistoryInv
  <1> QED BY <1>1, HistoryInvariant, PTL

(* A trim never takes the row that was just added, and no row overwrites another,
   even when the clock has stepped back. *)
THEOREM AddedRowsStay == HistorySpec => []JustAddedIsKept
  <1>1. HistoryInv => JustAddedIsKept BY DEF HistoryInv
  <1> QED BY <1>1, HistoryInvariant, PTL

-----------------------------------------------------------------------------
FileContent == [from : SUBSET Text, size : Nat]
SaveRecord == [pc : {"idle", "opened"}, file : JSONFile, text : SUBSET Text]

(* Requests and files keep to their types; the process starts with no save
   under way, and rewrites a config.json that it has emptied and once saved. *)
SavesTyped ==
    /\ there \subseteq JSONFile /\ disturbed \subseteq there /\ cutShort \subseteq there
    /\ starting \in {"no", "read", "opened"}
    /\ content \in [JSONFile -> FileContent]
    /\ settingsSaver \in [SettingsSaver -> SaveRecord]
    /\ lastSaved \in [JSONFile -> SUBSET Text]
    /\ \A f \in JSONFile : f \notin there => content[f] = NothingWritten
    /\ \A w \in SettingsSaver : settingsSaver[w].pc = "opened" =>
         settingsSaver[w].file \in there /\ settingsSaver[w].text # {}
    /\ starting # "no" => \A w \in SettingsSaver : settingsSaver[w].pc = "idle"

(* What a file holds is a text that was saved to it, which its size covers. *)
Stores(f) ==
    /\ content[f].from = {} \/ \E t \in Text : content[f].from = {t} /\ content[f].size >= LengthOf[t]
    /\ content[f].from # {} => lastSaved[f] # {}
    /\ lastSaved[f] = {} \/ \E t \in Text : lastSaved[f] = {t}
    /\ f \in disturbed \/ \A w, v \in Saving(f) : w = v

(* A file that nothing has disturbed is empty while a save is under way, and
   holds what was saved last when none is. *)
Undisturbed(f) ==
    /\ Saving(f) # {} => content[f] = NothingWritten
    /\ Saving(f) = {} /\ lastSaved[f] # {} /\ (f = "config" => starting # "opened")
            => \E t \in Text : lastSaved[f] = {t} /\ content[f] = TextHeld(t, LengthOf[t])

RewriteIsSafe ==
    starting = "opened" => /\ content["config"] = NothingWritten /\ "config" \in there
                           /\ lastSaved["config"] # {}

(* The recent fetches have one save at a time, crashes included, and hold a part
   of a text only where a write failed. *)
RecentsAreWhole ==
    /\ \A w, v \in Saving("recents") : w = v
    /\ Saving("recents") # {} => content["recents"] = NothingWritten
    /\ \/ "recents" \in cutShort \/ content["recents"] = NothingWritten
       \/ \E t \in Text : content["recents"] = TextHeld(t, LengthOf[t])

SettingsInv ==
    /\ SavesTyped
    /\ \A f \in JSONFile : Stores(f) /\ (f \notin disturbed => Undisturbed(f))
    /\ RewriteIsSafe /\ RecentsAreWhole
-----------------------------------------------------------------------------
(* What opening a file changes, and what writing it does. *)
LEMMA OpenedIs ==
    ASSUME SavesTyped, NEW w \in SettingsSaver, NEW f \in JSONFile, NEW text \in Text,
             SaveOpened(w, f, text)
    PROVE  /\ starting = "no" /\ starting' = starting /\ lastSaved' = lastSaved
           /\ (f = "recents" => Saving(f) = {})
           /\ there' = there \cup {f} /\ there' \subseteq JSONFile
           /\ disturbed' = IF Saving(f) = {} THEN disturbed ELSE disturbed \cup {f}
           /\ cutShort' = cutShort \ {f}
           /\ content' \in [JSONFile -> FileContent] /\ content'[f] = NothingWritten
           /\ \A g \in JSONFile \ {f} : content'[g] = content[g] /\ Saving(g)' = Saving(g)
           /\ Saving(f)' = Saving(f) \cup {w}
           /\ settingsSaver' \in [SettingsSaver -> SaveRecord]
           /\ settingsSaver'[w] = [pc |-> "opened", file |-> f, text |-> {text}]
           /\ \A v \in SettingsSaver \ {w} : settingsSaver'[v] = settingsSaver[v]
  <1>1. /\ settingsSaver \in [SettingsSaver -> SaveRecord] /\ content \in [JSONFile -> FileContent]
        /\ there \subseteq JSONFile
    BY DEF SavesTyped
  <1>2. NothingWritten \in FileContent BY DEF NothingWritten, FileContent
  <1>3. [pc |-> "opened", file |-> f, text |-> {text}] \in SaveRecord BY DEF SaveRecord
  <1>4. /\ settingsSaver' = [settingsSaver EXCEPT ![w] = [pc |-> "opened", file |-> f, text |-> {text}]]
        /\ content' = [content EXCEPT ![f] = NothingWritten]
        /\ settingsSaver[w].pc = "idle"
    BY DEF SaveOpened
  <1>5. /\ settingsSaver' \in [SettingsSaver -> SaveRecord]
        /\ settingsSaver'[w] = [pc |-> "opened", file |-> f, text |-> {text}]
        /\ \A v \in SettingsSaver \ {w} : settingsSaver'[v] = settingsSaver[v]
    BY <1>1, <1>3, <1>4
  <1>6. /\ content' \in [JSONFile -> FileContent] /\ content'[f] = NothingWritten
        /\ \A g \in JSONFile \ {f} : content'[g] = content[g]
    BY <1>1, <1>2, <1>4
  <1>7. Saving(f)' = Saving(f) \cup {w} BY <1>5 DEF Saving
  <1>8. \A g \in JSONFile \ {f} : Saving(g)' = Saving(g) BY <1>4, <1>5 DEF Saving
  <1> QED BY <1>1, <1>5, <1>6, <1>7, <1>8 DEF SaveOpened, Locked

(* What a save that writes makes of the file.                              *)
LEMMA WrittenIs ==
    ASSUME SavesTyped, NEW w \in SettingsSaver, SaveWritten(w)
    PROVE  \E f \in JSONFile, text \in Text :
             /\ starting = "no" /\ starting' = starting /\ there' = there /\ f \in there
             /\ w \in Saving(f)
             /\ disturbed' = IF Saving(f) = {w} /\
                  content[f] = NothingWritten THEN disturbed \ {f} ELSE disturbed
             /\ cutShort' = cutShort
             /\ content' \in [JSONFile -> FileContent] /\ content'[f] = Over(content[f], text)
             /\ lastSaved' \in [JSONFile -> SUBSET Text] /\ lastSaved'[f] = {text}
             /\ \A g \in JSONFile \ {f} :
                    content'[g] = content[g] /\ Saving(g)' = Saving(g) /\ lastSaved'[g] = lastSaved[g]
             /\ Saving(f)' = Saving(f) \ {w}
             /\ settingsSaver' \in [SettingsSaver -> SaveRecord] /\ settingsSaver'[w] = AtRest
             /\ \A v \in SettingsSaver \ {w} : settingsSaver'[v] = settingsSaver[v]
  <1>1. /\ settingsSaver \in [SettingsSaver -> SaveRecord] /\ content \in [JSONFile -> FileContent]
        /\ lastSaved \in [JSONFile -> SUBSET Text]
    BY DEF SavesTyped
  <1>2. PICK text \in settingsSaver[w].text, f \in {settingsSaver[w].file} :
          /\ content' = [content EXCEPT ![f] = Over(content[f], text)]
          /\ lastSaved' = [lastSaved EXCEPT ![f] = {text}]
          /\ disturbed' = IF Saving(f) = {w} /\
               content[f] = NothingWritten THEN disturbed \ {f} ELSE disturbed
    BY DEF SaveWritten
  <1>3. settingsSaver[w].pc = "opened" /\ settingsSaver' = [settingsSaver EXCEPT ![w] = AtRest]
        /\ starting' = starting /\ there' = there /\ cutShort' = cutShort
    BY DEF SaveWritten
  <1>4. text \in Text /\ f \in JSONFile /\ settingsSaver[w].file = f
    BY <1>1, <1>2 DEF SaveRecord
  <1>5. f \in there /\ starting = "no" BY <1>3, <1>4 DEF SavesTyped
  <1>6. AtRest \in SaveRecord /\ AtRest.pc = "idle" BY DEF AtRest, SaveRecord, JSONFile
  <1>7. /\ settingsSaver' \in [SettingsSaver -> SaveRecord] /\ settingsSaver'[w] = AtRest
        /\ \A v \in SettingsSaver \ {w} : settingsSaver'[v] = settingsSaver[v]
    BY <1>1, <1>3, <1>6
  <1>8. Over(content[f], text) \in FileContent
    BY <1>1, <1>4, SettingsAssumption DEF Over, TextHeld, FileContent
  <1>9. /\ content' \in [JSONFile -> FileContent] /\ content'[f] = Over(content[f], text)
        /\ \A g \in JSONFile \ {f} : content'[g] = content[g]
    BY <1>1, <1>2, <1>4, <1>8
  <1>10. /\ lastSaved' \in [JSONFile -> SUBSET Text] /\ lastSaved'[f] = {text}
         /\ \A g \in JSONFile \ {f} : lastSaved'[g] = lastSaved[g]
    BY <1>1, <1>2, <1>4
  <1>11. w \in Saving(f) /\ Saving(f)' = Saving(f) \ {w}
    BY <1>3, <1>4, <1>6, <1>7 DEF Saving
  <1>12. \A g \in JSONFile \ {f} : Saving(g)' = Saving(g)
    BY <1>3, <1>4, <1>6, <1>7 DEF Saving
  <1> QED BY <1>2, <1>3, <1>4, <1>5, <1>7, <1>9, <1>10, <1>11, <1>12

(* A text over an empty file. *)
LEMMA OverIs ==
    ASSUME NEW t \in Text, NEW old \in FileContent
    PROVE  /\ Over(old, t).from = {t} /\ Over(old, t).size >= LengthOf[t]
           /\ Over(NothingWritten, t) = TextHeld(t, LengthOf[t])
           /\ TextHeld(t, LengthOf[t]) # NothingWritten
  <1>1. LengthOf[t] \in Nat /\ LengthOf[t] > 0 /\ old.size \in Nat
    BY SettingsAssumption DEF FileContent
  <1>2. Over(old, t).from = {t} /\ Over(old, t).size >= LengthOf[t] BY <1>1 DEF Over, TextHeld
  <1>3. NothingWritten.size = 0 /\ NothingWritten.from = {} BY DEF NothingWritten
  <1>4. Over(NothingWritten, t) = TextHeld(t, LengthOf[t]) BY <1>1, <1>3 DEF Over
  <1>5. TextHeld(t, LengthOf[t]) # NothingWritten BY <1>1 DEF TextHeld, NothingWritten
  <1> QED BY <1>2, <1>4, <1>5

(* A save that truncates the file has it to itself, or disturbs it.        *)
LEMMA OpenedKeeps ==
    ASSUME SettingsInv, NEW w \in SettingsSaver, NEW f \in JSONFile, NEW text \in Text,
             SaveOpened(w, f, text)
    PROVE  SettingsInv'
  <1>1. SavesTyped /\ \A g \in JSONFile : Stores(g) /\ (g \notin disturbed => Undisturbed(g))
    BY DEF SettingsInv
  <1>2. /\ starting = "no" /\ starting' = starting /\ lastSaved' = lastSaved
        /\ (f = "recents" => Saving(f) = {})
        /\ there' = there \cup {f} /\ there' \subseteq JSONFile
        /\ disturbed' = IF Saving(f) = {} THEN disturbed ELSE disturbed \cup {f}
        /\ cutShort' = cutShort \ {f}
        /\ content' \in [JSONFile -> FileContent] /\ content'[f] = NothingWritten
        /\ \A g \in JSONFile \ {f} : content'[g] = content[g] /\ Saving(g)' = Saving(g)
        /\ Saving(f)' = Saving(f) \cup {w}
        /\ settingsSaver' \in [SettingsSaver -> SaveRecord]
        /\ settingsSaver'[w] = [pc |-> "opened", file |-> f, text |-> {text}]
        /\ \A v \in SettingsSaver \ {w} : settingsSaver'[v] = settingsSaver[v]
    BY <1>1, OpenedIs
  <1>3. SavesTyped'
    <2>1. disturbed' \subseteq there' /\ cutShort' \subseteq there' BY <1>1, <1>2 DEF SavesTyped
    <2>2. \A g \in JSONFile : g \notin there' => content'[g] = NothingWritten
      BY <1>1, <1>2 DEF SavesTyped
    <2>3. \A v \in SettingsSaver : settingsSaver'[v].pc = "opened" =>
            settingsSaver'[v].file \in there' /\ settingsSaver'[v].text # {}
      <3>1. ASSUME NEW v \in SettingsSaver \ {w}, settingsSaver'[v].pc = "opened"
            PROVE  settingsSaver'[v].file \in there' /\ settingsSaver'[v].text # {}
        BY <1>1, <1>2, <3>1 DEF SavesTyped
      <3>2. settingsSaver'[w].file \in there' /\ settingsSaver'[w].text # {} BY <1>2
      <3> QED BY <3>1, <3>2
    <2> QED BY <1>1, <1>2, <2>1, <2>2, <2>3 DEF SavesTyped
  <1>4. ASSUME NEW g \in JSONFile PROVE Stores(g)' /\ (g \notin disturbed' => Undisturbed(g)')
    <2>1. CASE g # f
      <3>1. content'[g] = content[g] /\ Saving(g)' = Saving(g) /\ (g \in disturbed' <=> g \in disturbed)
        BY <1>2, <2>1
      <3> QED BY <1>1, <1>2, <3>1 DEF Stores, Undisturbed
    <2>2. CASE g = f
      <3>1. Stores(f)' BY <1>1, <1>2 DEF Stores, NothingWritten
      <3>2. Undisturbed(f)' BY <1>2 DEF Undisturbed
      <3> QED BY <2>2, <3>1, <3>2
    <2> QED BY <2>1, <2>2
  <1>5. RewriteIsSafe' BY <1>2 DEF RewriteIsSafe
  <1>6. RecentsAreWhole'
    <2>1. RecentsAreWhole BY DEF SettingsInv
    <2>2. CASE f = "recents" BY <1>2, <2>2 DEF RecentsAreWhole
    <2>3. CASE f # "recents"
      <3>1. content'["recents"] = content["recents"] /\ Saving("recents")' = Saving("recents")
            /\ ("recents" \in cutShort => "recents" \in cutShort')
        BY <1>2, <2>3 DEF JSONFile
      <3> QED BY <2>1, <3>1 DEF RecentsAreWhole
    <2> QED BY <2>2, <2>3
  <1> QED BY <1>3, <1>4, <1>5, <1>6 DEF SettingsInv

(* A save that writes leaves its text, or a file that was disturbed.       *)
LEMMA WrittenKeeps ==
    ASSUME SettingsInv, NEW w \in SettingsSaver, SaveWritten(w)
    PROVE  SettingsInv'
  <1>1. SavesTyped /\ RecentsAreWhole /\ \A g \in JSONFile : Stores(g) /\
          (g \notin disturbed => Undisturbed(g))
    BY DEF SettingsInv
  <1>2. PICK f \in JSONFile, text \in Text :
             /\ starting = "no" /\ starting' = starting /\ there' = there /\ f \in there
             /\ w \in Saving(f)
             /\ disturbed' = IF Saving(f) = {w} /\
                  content[f] = NothingWritten THEN disturbed \ {f} ELSE disturbed
             /\ cutShort' = cutShort
             /\ content' \in [JSONFile -> FileContent] /\ content'[f] = Over(content[f], text)
             /\ lastSaved' \in [JSONFile -> SUBSET Text] /\ lastSaved'[f] = {text}
             /\ \A g \in JSONFile \ {f} :
                    content'[g] = content[g] /\ Saving(g)' = Saving(g) /\ lastSaved'[g] = lastSaved[g]
             /\ Saving(f)' = Saving(f) \ {w}
             /\ settingsSaver' \in [SettingsSaver -> SaveRecord] /\ settingsSaver'[w] = AtRest
             /\ \A v \in SettingsSaver \ {w} : settingsSaver'[v] = settingsSaver[v]
    BY <1>1, WrittenIs
  <1>3. SavesTyped'
    <2>1. disturbed' \subseteq there' /\ cutShort' \subseteq there' BY <1>1, <1>2 DEF SavesTyped
    <2>2. \A g \in JSONFile : g \notin there' => content'[g] = NothingWritten
      BY <1>1, <1>2 DEF SavesTyped
    <2>3. \A v \in SettingsSaver : settingsSaver'[v].pc = "opened" =>
            settingsSaver'[v].file \in there' /\ settingsSaver'[v].text # {}
      BY <1>1, <1>2 DEF SavesTyped, AtRest
    <2> QED BY <1>1, <1>2, <2>1, <2>2, <2>3 DEF SavesTyped
  <1>4. /\ content'[f].from = {text} /\ content'[f].size >= LengthOf[text]
        /\ content[f] = NothingWritten => content'[f] = TextHeld(text, LengthOf[text])
    <2>1. content[f] \in FileContent BY <1>1 DEF SavesTyped
    <2> QED BY <1>2, <2>1, OverIs
  <1>5. ASSUME NEW g \in JSONFile PROVE Stores(g)' /\ (g \notin disturbed' => Undisturbed(g)')
    <2>1. CASE g # f
      <3>1. content'[g] = content[g] /\ Saving(g)' = Saving(g) /\ (g \in disturbed' <=> g \in disturbed) /\
              lastSaved'[g] = lastSaved[g]
        BY <1>2, <2>1
      <3> QED BY <1>1, <1>2, <3>1 DEF Stores, Undisturbed
    <2>2. CASE g = f
      <3>1. Stores(f)' BY <1>1, <1>2, <1>4 DEF Stores
      <3>2. ASSUME f \notin disturbed' PROVE Saving(f) = {w} /\ content[f] = NothingWritten
        BY <1>1, <1>2, <3>2 DEF Stores, Undisturbed
      <3>3. f \notin disturbed' => Undisturbed(f)' BY <1>2, <1>4, <3>2 DEF Undisturbed
      <3> QED BY <2>2, <3>1, <3>3
    <2> QED BY <2>1, <2>2
  <1>6. RewriteIsSafe' BY <1>2 DEF RewriteIsSafe
  <1>7. RecentsAreWhole'
    <2>2. CASE f = "recents"
      <3>1. content["recents"] = NothingWritten BY <1>1, <1>2, <2>2 DEF RecentsAreWhole
      <3>2. Saving("recents")' = {} BY <1>1, <1>2, <2>2 DEF RecentsAreWhole
      <3> QED BY <1>4, <2>2, <3>1, <3>2 DEF RecentsAreWhole
    <2>3. CASE f # "recents"
      <3>1. content'["recents"] = content["recents"] /\ Saving("recents")' = Saving("recents")
            /\ cutShort' = cutShort
        BY <1>2, <2>3 DEF JSONFile
      <3> QED BY <1>1, <3>1 DEF RecentsAreWhole
    <2> QED BY <2>2, <2>3
  <1> QED BY <1>3, <1>5, <1>6, <1>7 DEF SettingsInv

(* A crash disturbs the files that a save was under way for. *)
LEMMA DeathKeeps == ASSUME SettingsInv, SaverDies PROVE SettingsInv'
  <1>1. SavesTyped /\ RewriteIsSafe /\ RecentsAreWhole /\ \A g \in JSONFile : Stores(g) /\
          (g \notin disturbed => Undisturbed(g))
    BY DEF SettingsInv
  <1>2. /\ disturbed' = disturbed \cup {f \in JSONFile : Saving(f) # {}}
                              \cup (IF starting = "opened" THEN {"config"} ELSE {})
        /\ settingsSaver' = [w \in SettingsSaver |-> AtRest] /\ starting' = "read"
        /\ UNCHANGED <<there, content, lastSaved, cutShort>>
    BY DEF SaverDies
  <1>3. AtRest \in SaveRecord /\ AtRest.pc = "idle" BY DEF AtRest, SaveRecord, JSONFile
  <1>4. \A f \in JSONFile : Saving(f)' = {} BY <1>2, <1>3 DEF Saving
  <1>5. \A f \in JSONFile : Saving(f) # {} => f \in there BY <1>1 DEF SavesTyped, Saving
  <1>6. SavesTyped'
    <2>1. disturbed' \subseteq there' /\ cutShort' \subseteq there'
      BY <1>1, <1>2, <1>5 DEF SavesTyped, RewriteIsSafe
    <2>2. settingsSaver' \in [SettingsSaver -> SaveRecord] BY <1>2, <1>3
    <2>3. \A v \in SettingsSaver : settingsSaver'[v].pc = "idle" BY <1>2, <1>3
    <2> QED BY <1>1, <1>2, <2>1, <2>2, <2>3 DEF SavesTyped
  <1>7. ASSUME NEW g \in JSONFile PROVE Stores(g)' /\ (g \notin disturbed' => Undisturbed(g)')
    <2>1. Stores(g)' BY <1>1, <1>2, <1>4 DEF Stores
    <2>2. ASSUME g \notin disturbed' PROVE Undisturbed(g)'
      <3>1. g \notin disturbed /\ Saving(g) = {} /\ (g = "config" => starting # "opened")
        BY <1>2, <2>2
      <3> QED BY <1>1, <1>2, <1>4, <3>1 DEF Undisturbed
    <2> QED BY <2>1, <2>2
  <1>8. RewriteIsSafe' BY <1>2 DEF RewriteIsSafe
  <1>9. RecentsAreWhole'
    <2>1. Saving("recents")' = {} BY <1>4 DEF JSONFile
    <2> QED BY <1>1, <1>2, <2>1 DEF RecentsAreWhole
  <1> QED BY <1>6, <1>7, <1>8, <1>9 DEF SettingsInv

(* The rewrite at start puts back what was saved last. *)
LEMMA RewriteKeeps == ASSUME SettingsInv, RewriteOpened \/ RewriteWritten PROVE SettingsInv'
  <1>1. SavesTyped /\ RewriteIsSafe /\ RecentsAreWhole /\ \A g \in JSONFile : Stores(g) /\
          (g \notin disturbed => Undisturbed(g))
    BY DEF SettingsInv
  <1>2. /\ UNCHANGED <<there, settingsSaver, lastSaved, disturbed>> /\ "config" \in JSONFile
        /\ cutShort' = cutShort \/ cutShort' = cutShort \ {"config"}
        /\ starting # "no"
    BY DEF RewriteOpened, RewriteWritten, JSONFile
  <1>3. \A f \in JSONFile : Saving(f)' = {} /\ Saving(f) = {} BY <1>1, <1>2 DEF Saving, SavesTyped
  <1>4. content \in [JSONFile -> FileContent] BY <1>1 DEF SavesTyped
  <1>5. CASE starting' = "no" /\ starting = "read" /\ content' = content
    <2>1. SavesTyped' BY <1>1, <1>2, <1>5 DEF SavesTyped
    <2>2. \A g \in JSONFile : Stores(g)' /\ (g \notin disturbed' => Undisturbed(g)')
      BY <1>1, <1>2, <1>3, <1>5 DEF Stores, Undisturbed
    <2>3. RewriteIsSafe' /\ RecentsAreWhole'
      BY <1>1, <1>2, <1>3, <1>5 DEF RewriteIsSafe, RecentsAreWhole, JSONFile
    <2> QED BY <2>1, <2>2, <2>3 DEF SettingsInv
  <1>6. ASSUME NEW held \in FileContent, content' = [content EXCEPT !["config"] = held],
               held.from = {} \/ \E t \in Text : held.from = {t} /\ held.size >= LengthOf[t],
               "config" \in there, lastSaved["config"] # {}, starting' \in {"no", "opened"},
               starting' = "opened" => held = NothingWritten,
               "config" \notin disturbed /\ starting' # "opened"
                    => \E t \in Text : lastSaved["config"] = {t} /\ held = TextHeld(t, LengthOf[t])
        PROVE  SettingsInv'
    <2>1. content' \in [JSONFile -> FileContent] /\ content'["config"] = held
          /\ \A g \in JSONFile \ {"config"} : content'[g] = content[g]
      BY <1>2, <1>4, <1>6
    <2>2. SavesTyped'
      <3>1. \A g \in JSONFile : g \notin there' => content'[g] = NothingWritten
        BY <1>1, <1>2, <1>6, <2>1 DEF SavesTyped
      <3>2. \A v \in SettingsSaver : settingsSaver'[v].pc = "idle" BY <1>1, <1>2 DEF SavesTyped
      <3> QED BY <1>1, <1>2, <1>6, <2>1, <3>1, <3>2 DEF SavesTyped
    <2>3. ASSUME NEW g \in JSONFile PROVE Stores(g)' /\ (g \notin disturbed' => Undisturbed(g)')
      <3>1. CASE g = "config" BY <1>1, <1>2, <1>3, <1>6, <2>1, <3>1 DEF Stores, Undisturbed
      <3>2. CASE g # "config" BY <1>1, <1>2, <1>3, <2>1, <3>2 DEF Stores, Undisturbed
      <3> QED BY <3>1, <3>2
    <2>4. RewriteIsSafe' BY <1>2, <1>6, <2>1 DEF RewriteIsSafe
    <2>5. RecentsAreWhole'
      <3>1. content'["recents"] = content["recents"] /\ Saving("recents")' = {}
            /\ ("recents" \in cutShort => "recents" \in cutShort')
        BY <1>2, <1>3, <2>1 DEF JSONFile
      <3> QED BY <1>1, <3>1 DEF RecentsAreWhole
    <2> QED BY <2>2, <2>3, <2>4, <2>5 DEF SettingsInv
  <1>7. CASE /\ "config" \in there /\ Parses("config") /\ starting' = "opened"
             /\ content' = [content EXCEPT !["config"] = NothingWritten]
    <2>1. NothingWritten \in FileContent /\ NothingWritten.from = {}
      BY DEF NothingWritten, FileContent
    <2>2. lastSaved["config"] # {} BY <1>1, <1>2, <1>7 DEF Parses, Stores
    <2> QED BY <1>6, <1>7, <2>1, <2>2
  <1>8. CASE RewriteWritten
    <2>1. /\ starting = "opened" /\ starting' = "no" /\ content["config"] = NothingWritten
          /\ "config" \in there /\ lastSaved["config"] # {} /\ lastSaved["config"] \subseteq Text
      BY <1>1, <1>2, <1>8 DEF RewriteWritten, RewriteIsSafe, SavesTyped
    <2> DEFINE t == CHOOSE t \in lastSaved["config"] : TRUE
    <2>2. t \in lastSaved["config"] BY <2>1
    <2>3. content' = [content EXCEPT !["config"] = Over(content["config"], t)]
      BY <1>8 DEF RewriteWritten
    <2> HIDE DEF t
    <2>4. t \in Text /\ NothingWritten \in FileContent BY <2>1, <2>2 DEF NothingWritten, FileContent
    <2>5. /\ Over(NothingWritten, t) = TextHeld(t, LengthOf[t])
          /\ Over(NothingWritten, t).from = {t} /\ Over(NothingWritten, t).size >= LengthOf[t]
      BY <2>4, OverIs
    <2>6. TextHeld(t, LengthOf[t]) \in FileContent
      BY <2>4, SettingsAssumption DEF TextHeld, FileContent
    <2>7. "config" \notin disturbed => lastSaved["config"] = {t}
      <3>1. ASSUME "config" \notin disturbed PROVE \E u \in Text : lastSaved["config"] = {u}
        BY <3>1, <1>1, <1>2, <2>1 DEF Stores
      <3> QED BY <2>2, <3>1
    <2>8. content' = [content EXCEPT !["config"] = TextHeld(t, LengthOf[t])] BY <2>1, <2>3, <2>5
    <2> QED BY <1>6, <2>1, <2>4, <2>5, <2>6, <2>7, <2>8
  <1> QED BY <1>5, <1>7, <1>8 DEF RewriteOpened

(* A write that fails leaves a part of its text, or the file as it was. *)
LEMMA FailureIs ==
    ASSUME SavesTyped, \A g \in JSONFile : Stores(g),
             NEW f \in JSONFile, NEW text \in Text, WriteFails(f, text)
    PROVE  /\ disturbed' = disturbed \cup {f}
           /\ content' \in [JSONFile -> FileContent]
           /\ content'[f].from = {} \/ (content'[f].from = content[f].from
                                         /\ content'[f].size >= content[f].size)
           /\ \A g \in JSONFile \ {f} : content'[g] = content[g]
           /\ \/ content'[f] = content[f] /\ cutShort' = cutShort
              \/ cutShort' = cutShort \cup {f}
  <1>1. content \in [JSONFile -> FileContent] /\ content[f] \in FileContent BY DEF SavesTyped
  <1>2. PICK bytes \in 0 .. LengthOf[text] - 1 :
          /\ content' = [content EXCEPT ![f] = Partly(@, text, bytes)]
          /\ cutShort' = IF bytes = 0 THEN cutShort ELSE cutShort \cup {f}
    BY DEF WriteFails
  <1>3. bytes \in Nat /\ content[f].size \in Nat /\ content[f].from \in SUBSET Text
    BY <1>1, <1>2, SettingsAssumption DEF FileContent
  <1> DEFINE new == Partly(content[f], text, bytes)
  <1>4. new.size \in Nat /\ new.size >= content[f].size /\ new.from \in SUBSET Text
    BY <1>3 DEF Partly
  <1>5. new \in FileContent BY <1>3, <1>4 DEF Partly, FileContent
  <1>6. content[f].from = {} \/ \E t \in Text : content[f].from = {t} BY DEF Stores
  <1>7. new.from = {} \/ new.from = content[f].from BY <1>6 DEF Partly
  <1>8. bytes = 0 => new = content[f]
    <2>1. ASSUME bytes = 0 PROVE new = [from |-> content[f].from, size |-> content[f].size]
      BY <2>1, <1>3 DEF Partly
    <2> QED BY <2>1, <1>1 DEF FileContent
  <1> HIDE DEF new
  <1>9. content' = [content EXCEPT ![f] = new] BY <1>2 DEF new
  <1>10. content'[f] = new /\ \A g \in JSONFile \ {f} : content'[g] = content[g] BY <1>1, <1>9
  <1>11. content' \in [JSONFile -> FileContent] BY <1>1, <1>5, <1>9
  <1> QED BY <1>2, <1>4, <1>7, <1>8, <1>10, <1>11 DEF WriteFails

(* A failed write disturbs its file; the others are left alone. *)
LEMMA FailureKeeps ==
    ASSUME SettingsInv, NEW f \in JSONFile, NEW text \in Text, WriteFails(f, text),
             UNCHANGED <<there, lastSaved>>, f \in there, starting' = "no",
             settingsSaver' \in [SettingsSaver -> SaveRecord],
             \A v \in SettingsSaver : settingsSaver'[v] = settingsSaver[v] \/ settingsSaver'[v].pc = "idle",
             \A g \in JSONFile \ {f} : Saving(g)' = Saving(g), Saving(f)' \subseteq Saving(f),
             f = "recents" => Saving(f)' = {} /\ content[f] = NothingWritten,
             f # "config" => starting = "no"
    PROVE  SettingsInv'
  <1>1. SavesTyped /\ RewriteIsSafe /\ RecentsAreWhole /\ \A g \in JSONFile : Stores(g) /\
          (g \notin disturbed => Undisturbed(g))
    BY DEF SettingsInv
  <1>2. /\ disturbed' = disturbed \cup {f}
        /\ content' \in [JSONFile -> FileContent]
        /\ content'[f].from = {} \/ (content'[f].from = content[f].from
                                      /\ content'[f].size >= content[f].size)
        /\ \A g \in JSONFile \ {f} : content'[g] = content[g]
        /\ \/ content'[f] = content[f] /\ cutShort' = cutShort
           \/ cutShort' = cutShort \cup {f}
    BY <1>1, FailureIs
  <1>3. SavesTyped'
    <2>1. disturbed' \subseteq there' /\ cutShort' \subseteq there' BY <1>1, <1>2 DEF SavesTyped
    <2>2. \A g \in JSONFile : g \notin there' => content'[g] = NothingWritten
      BY <1>1, <1>2 DEF SavesTyped
    <2>3. \A v \in SettingsSaver : settingsSaver'[v].pc = "opened" =>
            settingsSaver'[v].file \in there' /\ settingsSaver'[v].text # {}
      BY <1>1 DEF SavesTyped
    <2> QED BY <1>1, <1>2, <2>1, <2>2, <2>3 DEF SavesTyped
  <1>4. ASSUME NEW g \in JSONFile PROVE Stores(g)' /\ (g \notin disturbed' => Undisturbed(g)')
    <2>1. CASE g # f
      <3>1. /\ content'[g] = content[g] /\ Saving(g)' = Saving(g) /\ (g \in disturbed' <=> g \in disturbed)
            /\ lastSaved'[g] = lastSaved[g]
        BY <1>2, <2>1
      <3>2. g = "config" => starting = "no" BY <2>1
      <3>3. Stores(g)' BY <1>1, <3>1 DEF Stores
      <3>4. ASSUME g \notin disturbed' PROVE Undisturbed(g)'
        BY <1>1, <3>1, <3>2, <3>4 DEF Undisturbed
      <3> QED BY <3>3, <3>4
    <2>2. CASE g = f
      <3>1. content'[f].size \in Nat /\ content[f].size \in Nat BY <1>1, <1>2 DEF SavesTyped, FileContent
      <3>2. content'[f].from = {}
              \/ \E t \in Text : content'[f].from = {t} /\ content'[f].size >= LengthOf[t]
        BY <1>1, <1>2, <3>1, SettingsAssumption DEF Stores
      <3>3. content'[f].from # {} => lastSaved'[f] # {} BY <1>1, <1>2 DEF Stores
      <3>4. lastSaved'[f] = {} \/ \E t \in Text : lastSaved'[f] = {t} BY <1>1 DEF Stores
      <3> QED BY <1>2, <2>2, <3>2, <3>3, <3>4 DEF Stores
    <2> QED BY <2>1, <2>2
  <1>5. RewriteIsSafe' BY DEF RewriteIsSafe
  <1>6. RecentsAreWhole'
    <2>1. CASE f = "recents" BY <1>2, <2>1 DEF RecentsAreWhole
    <2>2. CASE f # "recents"
      <3>1. content'["recents"] = content["recents"] /\ Saving("recents")' = Saving("recents")
            /\ ("recents" \in cutShort => "recents" \in cutShort')
        BY <1>2, <2>2 DEF JSONFile
      <3> QED BY <1>1, <3>1 DEF RecentsAreWhole
    <2> QED BY <2>1, <2>2
  <1> QED BY <1>3, <1>4, <1>5, <1>6 DEF SettingsInv

(* A save that fails, and a rewrite that does. *)
LEMMA SaveCutShortKeeps ==
    ASSUME SettingsInv, NEW w \in SettingsSaver, SaveCutShort(w)
    PROVE  SettingsInv'
  <1>1. SavesTyped /\ RecentsAreWhole BY DEF SettingsInv
  <1>2. PICK text \in settingsSaver[w].text : WriteFails(settingsSaver[w].file, text) BY DEF SaveCutShort
  <1>0. PICK f \in JSONFile : settingsSaver[w].file = f BY <1>1 DEF SavesTyped, SaveRecord
  <1>3. /\ settingsSaver[w].pc = "opened" /\ settingsSaver' = [settingsSaver EXCEPT ![w] = AtRest]
        /\ UNCHANGED <<there, starting, lastSaved>>
    BY DEF SaveCutShort
  <1>4. text \in Text BY <1>1, <1>2 DEF SavesTyped, SaveRecord
  <1>5. f \in there /\ starting = "no" BY <1>0, <1>1, <1>3 DEF SavesTyped
  <1>6. AtRest \in SaveRecord /\ AtRest.pc = "idle" BY DEF AtRest, SaveRecord, JSONFile
  <1>7. /\ settingsSaver' \in [SettingsSaver -> SaveRecord] /\ settingsSaver'[w] = AtRest
        /\ \A v \in SettingsSaver \ {w} : settingsSaver'[v] = settingsSaver[v]
    BY <1>1, <1>3, <1>6 DEF SavesTyped
  <1>8. w \in Saving(f) /\ Saving(f)' = Saving(f) \ {w} BY <1>0, <1>3, <1>6, <1>7 DEF Saving
  <1>9. \A g \in JSONFile \ {f} : Saving(g)' = Saving(g) BY <1>0, <1>3, <1>6, <1>7 DEF Saving
  <1>10. f = "recents" => Saving(f)' = {} /\ content[f] = NothingWritten
    BY <1>1, <1>8 DEF RecentsAreWhole
  <1>11. WriteFails(f, text) BY <1>0, <1>2
  <1>12. \A v \in SettingsSaver : settingsSaver'[v] = settingsSaver[v] \/ settingsSaver'[v].pc = "idle"
    BY <1>6, <1>7
  <1>13. starting' = "no" /\ (f # "config" => starting = "no") /\ Saving(f)' \subseteq Saving(f)
         /\ UNCHANGED <<there, lastSaved>>
    BY <1>3, <1>5, <1>8
  <1> QED BY <1>4, <1>5, <1>7, <1>9, <1>10, <1>11, <1>12, <1>13, FailureKeeps

LEMMA RewriteFailsKeeps == ASSUME SettingsInv, RewriteFails PROVE SettingsInv'
  <1>1. SavesTyped /\ RewriteIsSafe BY DEF SettingsInv
  <1> DEFINE t == CHOOSE t \in lastSaved["config"] : TRUE
  <1>2. /\ starting = "opened" /\ starting' = "no" /\ UNCHANGED <<there, settingsSaver, lastSaved>>
        /\ WriteFails("config", t)
    BY DEF RewriteFails
  <1>3. "config" \in there /\ lastSaved["config"] # {} /\ lastSaved["config"] \subseteq Text
        /\ "config" \in JSONFile
    BY <1>1, <1>2 DEF RewriteIsSafe, SavesTyped, JSONFile
  <1>4. t \in Text BY <1>3
  <1> HIDE DEF t
  <1>5. \A g \in JSONFile : Saving(g)' = Saving(g) BY <1>2 DEF Saving
  <1>6. settingsSaver' \in [SettingsSaver -> SaveRecord] BY <1>1, <1>2 DEF SavesTyped
  <1> QED BY <1>2, <1>3, <1>4, <1>5, <1>6, FailureKeeps

(* The inductive invariant of the saved files: a file that nothing has disturbed
   is empty during a save and holds the last text after it. *)
THEOREM SettingsInvariant == SettingsSpec => []SettingsInv
  <1>1. SettingsInit => SettingsInv
    <2> SUFFICES ASSUME SettingsInit PROVE SettingsInv OBVIOUS
    <2>1. AtRest \in SaveRecord /\ AtRest.pc = "idle" /\ NothingWritten \in FileContent /\
            NothingWritten.from = {}
      BY DEF AtRest, SaveRecord, JSONFile, NothingWritten, FileContent
    <2>2. /\ there = {} /\ disturbed = {} /\ cutShort = {} /\ starting = "no"
          /\ \A f \in JSONFile : content[f] = NothingWritten /\ lastSaved[f] = {}
          /\ content \in [JSONFile -> FileContent] /\ lastSaved \in [JSONFile -> SUBSET Text]
          /\ settingsSaver \in [SettingsSaver -> SaveRecord]
          /\ \A w \in SettingsSaver : settingsSaver[w].pc = "idle"
      BY <2>1 DEF SettingsInit
    <2>3. \A f \in JSONFile : Saving(f) = {} BY <2>2 DEF Saving
    <2>4. SavesTyped BY <2>2 DEF SavesTyped
    <2>5. \A f \in JSONFile : Stores(f) /\ Undisturbed(f)
      BY <2>1, <2>2, <2>3 DEF Stores, Undisturbed
    <2>6. RewriteIsSafe /\ RecentsAreWhole
      BY <2>2, <2>3 DEF RewriteIsSafe, RecentsAreWhole, JSONFile
    <2> QED BY <2>4, <2>5, <2>6 DEF SettingsInv
  <1>2. ASSUME SettingsInv, [SettingsNext]_settingsVars PROVE SettingsInv'
    <2>1. CASE UNCHANGED settingsVars
      BY <1>2, <2>1 DEF settingsVars, SettingsInv, SavesTyped, Stores, Undisturbed, RewriteIsSafe,
                        RecentsAreWhole, Saving
    <2> QED BY <1>2, <2>1, OpenedKeeps, WrittenKeeps, DeathKeeps, RewriteKeeps,
                SaveCutShortKeeps, RewriteFailsKeeps DEF SettingsNext
  <1> QED BY <1>1, <1>2, PTL DEF SettingsSpec

(* The files and the requests that save them keep to their types: a file holds
   at most one text at its start, and never more of it than its size. *)
THEOREM SettingsTypeCorrect == SettingsSpec => []SettingsTypeOK
  <1>1. ASSUME SettingsInv PROVE SettingsTypeOK
    <2>1. SavesTyped /\ \A f \in JSONFile : Stores(f) BY <1>1 DEF SettingsInv
    <2>2. ASSUME NEW f \in JSONFile
          PROVE  /\ content[f].from \subseteq Text /\ Cardinality(content[f].from) <= 1
                 /\ \A t \in content[f].from : content[f].size >= LengthOf[t]
                 /\ f \notin there => content[f] = NothingWritten
                 /\ lastSaved[f] \subseteq Text
      <3>1. content[f].from = {} \/ \E t \in Text : content[f].from = {t} /\ content[f].size >= LengthOf[t]
        BY <2>1 DEF Stores
      <3>2. Cardinality(content[f].from) <= 1
        <4>1. Cardinality({}) = 0 BY FS_EmptySet
        <4>2. \A t \in Text : Cardinality({t}) = 1 BY FS_Singleton
        <4> QED BY <3>1, <4>1, <4>2
      <3> QED BY <2>1, <3>1, <3>2 DEF SavesTyped
    <2> QED BY <2>1, <2>2 DEF SettingsTypeOK, SavesTyped
  <1> QED BY <1>1, SettingsInvariant, PTL

(* What the server does is what the last saved config.json says, but during a
   save or the rewrite at start, and after a crash, a failed write or two saves at
   once. *)
THEOREM SettingsAreObeyed == SettingsSpec => []ChoiceIsObeyed
  <1>1. ASSUME SettingsInv PROVE ChoiceIsObeyed
    <2> SUFFICES ASSUME lastSaved["config"] # {}, Saving("config") = {}, starting # "opened",
                        "config" \notin disturbed
                 PROVE  LoadConfigSettings = {Meaning[t] : t \in lastSaved["config"]}
      BY DEF ChoiceIsObeyed
    <2>1. "config" \in JSONFile BY DEF JSONFile
    <2>2. PICK t \in Text : lastSaved["config"] = {t} /\ content["config"] = TextHeld(t, LengthOf[t])
      BY <1>1, <2>1 DEF SettingsInv, Undisturbed
    <2>3. "config" \in there
      BY <1>1, <2>1, <2>2, OverIs DEF SettingsInv, SavesTyped
    <2>4. content["config"].from = {t} /\ content["config"].size = LengthOf[t]
      BY <2>2 DEF TextHeld
    <2>5. Parses("config") BY <2>4 DEF Parses
    <2> QED BY <2>2, <2>3, <2>4, <2>5 DEF LoadConfigSettings
  <1> QED BY <1>1, SettingsInvariant, PTL

(* The mutex of recent_fetches.json keeps it from the tail of another save: it
   loads at all times, crashes included, but for a write that failed half way. *)
THEOREM RecentsAlwaysLoad == SettingsSpec => []RecentsLoadAlways
  <1>1. ASSUME SettingsInv PROVE RecentsLoadAlways
    <2>1. \/ "recents" \in cutShort \/ content["recents"] = NothingWritten
          \/ \E t \in Text : content["recents"] = TextHeld(t, LengthOf[t])
      BY <1>1 DEF SettingsInv, RecentsAreWhole
    <2>2. ASSUME NEW t \in Text, content["recents"] = TextHeld(t, LengthOf[t]) PROVE Parses("recents")
      BY <2>2 DEF Parses, TextHeld
    <2> QED BY <2>1, <2>2 DEF RecentsLoadAlways, RecentsLoad
  <1> QED BY <1>1, SettingsInvariant, PTL

-----------------------------------------------------------------------------
(* The keys of the two caches, and the record of a pass.                   *)
CacheKey == {ArtistOf[f] : f \in AudioFile} \cup {AlbumOf[f] : f \in AudioFile}
AnswerCache == UNION {[S -> BOOLEAN] : S \in SUBSET CacheKey}
PassPc == {"none", "collect", "next", "lyrics", "genre", "cover", "tally", "notify"}
PassRecord == [pc : PassPc, opts : Options, files : SUBSET AudioFile, file : AudioFile \cup {NoAudio},
               todo : SUBSET TagKind, wrote : BOOLEAN, genreCache : AnswerCache,
               coverCache : AnswerCache, rescan : BOOLEAN]
AudioRecord == [present : BOOLEAN, quiet : BOOLEAN, tags : SUBSET TagKind]
StatusRecord == [running : BOOLEAN, total : Nat, processed : Nat, added : [TagKind -> Nat],
                 skipped : Nat, failed : Nat]

EnrichTyped ==
    /\ audioDisk \in [AudioFile -> AudioRecord]
    /\ enrichStatus \in StatusRecord
    /\ enrichStop \in BOOLEAN
    /\ pass \in [Pass -> PassRecord]
    /\ tagged \subseteq AudioFile /\ untold \subseteq AudioFile
    /\ askedKeys \in Seq({"genre", "cover"} \X CacheKey)

(* A pass has a file exactly while it does its steps.                      *)
FileIsInHand == \A p \in Pass : InHand(p) <=> pass[p].file \in AudioFile

(* The file in hand is behind the pass and the rest before it: nothing that is left is tagged. *)
RestIsUntouched ==
    \A p \in Pass : Working(p) =>
        /\ pass[p].files \cap tagged = {}
        /\ InHand(p) => /\ pass[p].file \notin pass[p].files
                        /\ pass[p].wrote <=> pass[p].file \in tagged

(* What has been done of the files the pass works on.                      *)
FilesAreCounted ==
    \A p \in Pass : Working(p) =>
        IF pass[p].pc = "collect"
        THEN /\ enrichStatus.processed = 0 /\ enrichStatus.skipped = 0 /\ enrichStatus.failed = 0
             /\ tagged = {}
        ELSE enrichStatus.processed + Cardinality(pass[p].files) + (IF InHand(p) THEN 1 ELSE 0)
               = enrichStatus.total

DoneIsSorted ==
    enrichStatus.processed + (IF \E p \in Pass : InHand(p) /\ pass[p].wrote THEN 1 ELSE 0)
        = enrichStatus.skipped + enrichStatus.failed + Cardinality(tagged)

(* Whatever was asked for is in the pass's own caches.                     *)
AskedIsCached ==
    \A p \in Pass : Working(p) =>
        \A i \in DOMAIN askedKeys :
            askedKeys[i][2] \in DOMAIN (IF askedKeys[i][1] = "genre" THEN pass[p].genreCache
                                        ELSE pass[p].coverCache)

(* A limit is kept to, with the file in hand not counted yet.              *)
LimitHolds ==
    \A p \in Pass : Working(p) /\ pass[p].opts.limit > 0 =>
        enrichStatus.processed + (IF InHand(p) THEN 1 ELSE 0) <= pass[p].opts.limit

(* A collecting pass begins from nothing.                                  *)
StillToTell ==
    untold # {} => \E p \in Pass : \/ Working(p) /\ WroteTags(enrichStatus)
                                   \/ pass[p].pc = "notify" /\ pass[p].rescan

EnrichInv == /\ EnrichTyped /\ FileIsInHand /\ OnePassAtATime /\ RestIsUntouched /\ FilesAreCounted
             /\ DoneIsSorted /\ AskedOnce /\ AskedIsCached /\ LimitHolds /\ StillToTell
-----------------------------------------------------------------------------
(* A cache is a function from keys to answers, and stays one.              *)
LEMMA NoAnswerYet == <<>> \in AnswerCache /\ DOMAIN <<>> = {}
  <1>1. <<>> \in [{} -> BOOLEAN] OBVIOUS
  <1>2. [{} -> BOOLEAN] \in {[S -> BOOLEAN] : S \in SUBSET CacheKey} OBVIOUS
  <1> QED BY <1>1, <1>2 DEF AnswerCache

(* An answer is kept under its key, and the others stay.                   *)
LEMMA AnswerIsCached ==
  ASSUME NEW c \in AnswerCache, NEW k \in CacheKey, NEW b \in BOOLEAN
  PROVE  CachedAs(c, k, b) \in AnswerCache /\ DOMAIN CachedAs(c, k, b) = DOMAIN c \cup {k}
  <1>1. PICK S \in SUBSET CacheKey : c \in [S -> BOOLEAN] BY DEF AnswerCache
  <1>2. CachedAs(c, k, b) \in [S \cup {k} -> BOOLEAN] BY <1>1 DEF CachedAs
  <1>3. [S \cup {k} -> BOOLEAN] \in {[R -> BOOLEAN] : R \in SUBSET CacheKey} OBVIOUS
  <1> QED BY <1>1, <1>2, <1>3 DEF AnswerCache, CachedAs

(* What was answered before is a yes or a no.                              *)
LEMMA KnownAnswer ==
  ASSUME NEW c \in AnswerCache, NEW k, Known(c, k)
  PROVE  c[k] \in BOOLEAN
  BY DEF AnswerCache, Known

(* The record of a pass at rest.                                           *)
LEMMA Pass0Is ==
  ASSUME NEW x \in PassPc, NEW o \in Options, NEW b \in BOOLEAN
  PROVE  /\ Pass0 \in PassRecord
         /\ [Pass0 EXCEPT !.pc = x, !.opts = o] \in PassRecord
         /\ [Pass0 EXCEPT !.pc = x, !.rescan = b] \in PassRecord
  <1>1. (CHOOSE q \in Options : TRUE) \in Options BY EnrichAssumption DEF EnrichAssumption
  <1>2. Pass0 \in PassRecord BY <1>1, NoAnswerYet DEF Pass0, PassRecord, PassPc, TagKind
  <1>3. ASSUME NEW r \in PassRecord
        PROVE [r EXCEPT !.pc = x, !.opts = o] \in PassRecord /\
                [r EXCEPT !.pc = x, !.rescan = b] \in PassRecord
    BY DEF PassRecord
  <1> QED BY <1>2, <1>3

(* The record of a pass that is moved on.                                  *)
LEMMA RecordMoves ==
  ASSUME NEW r \in PassRecord, NEW x \in PassPc
  PROVE  LET n == [r EXCEPT !.pc = x]
         IN  /\ n \in PassRecord
             /\ n.pc = x /\ n.opts = r.opts /\ n.files = r.files /\ n.file = r.file /\ n.todo = r.todo
             /\ n.wrote = r.wrote /\ n.genreCache = r.genreCache /\ n.coverCache = r.coverCache /\
                  n.rescan = r.rescan
  BY DEF PassRecord
(* The record of a pass that has written a tag.                            *)
LEMMA RecordWrote ==
  ASSUME NEW r \in PassRecord
  PROVE  LET n == [r EXCEPT !.wrote = TRUE]
         IN  /\ n \in PassRecord
             /\ n.pc = r.pc /\ n.opts = r.opts /\ n.files = r.files /\ n.file = r.file /\ n.todo = r.todo
             /\ n.wrote /\ n.genreCache = r.genreCache /\ n.coverCache = r.coverCache /\ n.rescan = r.rescan
  BY DEF PassRecord

(* The record of a pass that has an answer about an artist.                *)
LEMMA RecordHeardGenre ==
  ASSUME NEW r \in PassRecord, NEW c \in AnswerCache
  PROVE  LET n == [r EXCEPT !.genreCache = c]
         IN  /\ n \in PassRecord
             /\ n.pc = r.pc /\ n.opts = r.opts /\ n.files = r.files /\ n.file = r.file /\ n.todo = r.todo
             /\ n.wrote = r.wrote /\ n.genreCache = c /\ n.coverCache = r.coverCache /\ n.rescan = r.rescan
  BY DEF PassRecord

(* The record of a pass that has an answer about an album.                 *)
LEMMA RecordHeardCover ==
  ASSUME NEW r \in PassRecord, NEW c \in AnswerCache
  PROVE  LET n == [r EXCEPT !.coverCache = c]
         IN  /\ n \in PassRecord
             /\ n.pc = r.pc /\ n.opts = r.opts /\ n.files = r.files /\ n.file = r.file /\ n.todo = r.todo
             /\ n.wrote = r.wrote /\ n.genreCache = r.genreCache /\ n.coverCache = c /\ n.rescan = r.rescan
  BY DEF PassRecord
-----------------------------------------------------------------------------
(* How a step of the loop over one file's tags may change the state.       *)
Tagging(p, r) ==
    LET f == pass[p].file
    IN  /\ InHand(p) /\ pass[p].pc # "tally"
        /\ r.pc \in {"genre", "cover", "tally"} /\ r.opts = pass[p].opts
        /\ r.files = pass[p].files /\ r.file = f
        /\ pass' = [pass EXCEPT ![p] = r]
        /\ \/ UNCHANGED <<enrichStatus, tagged, untold>> /\ r.wrote = pass[p].wrote
           \/ /\ tagged' = tagged \cup {f} /\ untold' = untold \cup {f} /\ r.wrote
              /\ \E k \in TagKind : enrichStatus' = [enrichStatus EXCEPT !.added[k] = @ + 1]
        /\ DOMAIN pass[p].genreCache \subseteq DOMAIN r.genreCache
        /\ DOMAIN pass[p].coverCache \subseteq DOMAIN r.coverCache
        /\ \/ askedKeys' = askedKeys
           \/ \E k \in CacheKey : \/ /\ askedKeys' = Append(askedKeys, <<"genre", k>>)
                                     /\ k \notin DOMAIN pass[p].genreCache /\ k \in DOMAIN r.genreCache
                                  \/ /\ askedKeys' = Append(askedKeys, <<"cover", k>>)
                                     /\ k \notin DOMAIN pass[p].coverCache /\ k \in DOMAIN r.coverCache
        /\ enrichStop' = enrichStop /\ UNCHANGED <<passes, changes>>

(* A tag that is written leaves the disk well-formed, and the record is the next one with the mark. *)
LEMMA TagIs ==
  ASSUME EnrichTyped, NEW p \in Pass, NEW k \in TagKind, NEW n \in PassRecord, Tag(p, k, n),
           pass[p].file \in AudioFile
  PROVE  /\ audioDisk' \in [AudioFile -> AudioRecord]
         /\ pass' = [pass EXCEPT ![p] = [n EXCEPT !.wrote = TRUE]]
         /\ enrichStatus' = [enrichStatus EXCEPT !.added[k] = @ + 1]
         /\ tagged' = tagged \cup {pass[p].file} /\ untold' = untold \cup {pass[p].file}
  <1>1. audioDisk' \in [AudioFile -> AudioRecord] BY DEF EnrichTyped, Tag, AudioRecord
  <1> QED BY <1>1 DEF Tag

(* The lyrics of a file.                                                   *)
LEMMA LyricsTagIs ==
  ASSUME EnrichTyped, FileIsInHand, NEW p \in Pass, Lyrics(p)
  PROVE  audioDisk' \in [AudioFile -> AudioRecord] /\ \E r \in PassRecord : Tagging(p, r)
  <1>0. pass[p] \in PassRecord BY DEF EnrichTyped
  <1>1. pass[p].pc = "lyrics" /\ InHand(p) /\ pass[p].file \in AudioFile
    BY DEF Lyrics, FileIsInHand, InHand
  <1>n. PICK n : n = [pass[p] EXCEPT !.pc = "genre"] OBVIOUS
  <1>2. "genre" \in PassPc /\ "lyrics" \in TagKind BY DEF PassPc, TagKind
  <1>3. /\ n \in PassRecord
        /\ n.pc = "genre" /\ n.opts = pass[p].opts /\ n.files = pass[p].files /\ n.file = pass[p].file
        /\ n.wrote = pass[p].wrote /\ n.genreCache = pass[p].genreCache /\ n.coverCache = pass[p].coverCache
    BY <1>0, <1>2, <1>n, RecordMoves
  <1>4. CASE Tag(p, "lyrics", n)
    <2>w. PICK r : r = [n EXCEPT !.wrote = TRUE] OBVIOUS
    <2>1. /\ r \in PassRecord
          /\ r.pc = n.pc /\ r.opts = n.opts /\ r.files = n.files /\ r.file = n.file
          /\ r.wrote /\ r.genreCache = n.genreCache /\ r.coverCache = n.coverCache
      BY <1>3, <2>w, RecordWrote
    <2>2. /\ audioDisk' \in [AudioFile -> AudioRecord]
          /\ pass' = [pass EXCEPT ![p] = r]
          /\ enrichStatus' = [enrichStatus EXCEPT !.added["lyrics"] = @ + 1]
          /\ tagged' = tagged \cup {pass[p].file} /\ untold' = untold \cup {pass[p].file}
      BY <1>1, <1>2, <1>3, <1>4, <2>w, TagIs
    <2>3. Tagging(p, r) BY <1>1, <1>2, <1>3, <2>1, <2>2 DEF Tagging, Lyrics
    <2> QED BY <2>1, <2>2, <2>3
  <1>5. CASE NoTag(p, n)
    <2>2. Tagging(p, n) BY <1>1, <1>3, <1>5 DEF Tagging, NoTag, Lyrics
    <2>3. audioDisk' \in [AudioFile -> AudioRecord] BY <1>5 DEF NoTag, EnrichTyped
    <2> QED BY <1>3, <2>2, <2>3
  <1> QED BY <1>n, <1>4, <1>5 DEF Lyrics

(* The genre of a file: an answer that is cached is not asked for again.       *)
LEMMA GenreTagIs ==
  ASSUME EnrichTyped, FileIsInHand, NEW p \in Pass, Genre(p)
  PROVE  audioDisk' \in [AudioFile -> AudioRecord] /\ \E r \in PassRecord : Tagging(p, r)
  <1>0. pass[p] \in PassRecord BY DEF EnrichTyped
  <1>1. pass[p].pc = "genre" /\ InHand(p) /\ pass[p].file \in AudioFile
    BY DEF Genre, FileIsInHand, InHand
  <1>n. PICK n : n = [pass[p] EXCEPT !.pc = "cover"] OBVIOUS
  <1>2. "cover" \in PassPc /\ "genre" \in TagKind BY DEF PassPc, TagKind
  <1>3. /\ n \in PassRecord
        /\ n.pc = "cover" /\ n.opts = pass[p].opts /\ n.files = pass[p].files /\ n.file = pass[p].file
        /\ n.wrote = pass[p].wrote /\ n.genreCache = pass[p].genreCache /\ n.coverCache = pass[p].coverCache
    BY <1>0, <1>2, <1>n, RecordMoves
  <1>k. PICK k : k = ArtistOf[pass[p].file] OBVIOUS
  <1>4. k \in CacheKey BY <1>1, <1>k DEF CacheKey
  <1>5. CASE NoTag(p, n) /\ UNCHANGED askedKeys
    <2>2. Tagging(p, n) BY <1>1, <1>3, <1>5 DEF Tagging, NoTag, Genre
    <2>3. audioDisk' \in [AudioFile -> AudioRecord] BY <1>5 DEF NoTag, EnrichTyped
    <2> QED BY <1>3, <2>2, <2>3
  <1>6. CASE /\ "genre" \in pass[p].todo
             /\ askedKeys' = IF Known(pass[p].genreCache, k)
                             THEN askedKeys ELSE Append(askedKeys, <<"genre", k>>)
             /\ \E obtained \in IF Known(pass[p].genreCache, k)
                             THEN {pass[p].genreCache[k]} ELSE BOOLEAN :
                  LET then == [n EXCEPT !.genreCache = CachedAs(@, k, obtained)]
                  IN  \/ obtained /\ Tag(p, "genre", then)
                      \/ NoTag(p, then)
    <2>1. pass[p].genreCache \in AnswerCache BY <1>0 DEF PassRecord
    <2>2. PICK obtained \in BOOLEAN : \/ Tag(p, "genre", [n EXCEPT !.genreCache = CachedAs(@, k, obtained)])
                                   \/ NoTag(p, [n EXCEPT !.genreCache = CachedAs(@, k, obtained)])
      BY <1>6, <2>1, KnownAnswer
    <2>c. PICK c : c = CachedAs(n.genreCache, k, obtained) OBVIOUS
    <2>3. c \in AnswerCache /\ DOMAIN c = DOMAIN pass[p].genreCache \cup {k}
      BY <1>3, <1>4, <2>1, <2>c, AnswerIsCached
    <2>t. PICK t : t = [n EXCEPT !.genreCache = c] OBVIOUS
    <2>4. /\ t \in PassRecord
          /\ t.pc = n.pc /\ t.opts = n.opts /\ t.files = n.files /\ t.file = n.file
          /\ t.wrote = n.wrote /\ t.genreCache = c /\ t.coverCache = n.coverCache
      BY <1>3, <2>3, <2>t, RecordHeardGenre
    <2>5. Tag(p, "genre", t) \/ NoTag(p, t) BY <2>2, <2>c, <2>t
    <2>6. \/ askedKeys' = askedKeys
          \/ askedKeys' = Append(askedKeys, <<"genre", k>>) /\ k \notin DOMAIN pass[p].genreCache
      BY <1>6 DEF Known
    <2>7. UNCHANGED <<enrichStop, passes, changes>> BY DEF Genre
    <2>8. CASE Tag(p, "genre", t)
      <3>w. PICK r : r = [t EXCEPT !.wrote = TRUE] OBVIOUS
      <3>1. /\ r \in PassRecord
            /\ r.pc = t.pc /\ r.opts = t.opts /\ r.files = t.files /\ r.file = t.file
            /\ r.wrote /\ r.genreCache = t.genreCache /\ r.coverCache = t.coverCache
        BY <2>4, <3>w, RecordWrote
      <3>2. /\ audioDisk' \in [AudioFile -> AudioRecord]
            /\ pass' = [pass EXCEPT ![p] = r]
            /\ enrichStatus' = [enrichStatus EXCEPT !.added["genre"] = @ + 1]
            /\ tagged' = tagged \cup {pass[p].file} /\ untold' = untold \cup {pass[p].file}
        BY <1>1, <1>2, <2>4, <2>8, <3>w, TagIs
      <3>3. Tagging(p, r) BY <1>1, <1>2, <1>3, <1>4, <2>3, <2>4, <2>6, <2>7, <3>1, <3>2 DEF Tagging
      <3> QED BY <3>1, <3>2, <3>3
    <2>9. CASE NoTag(p, t)
      <3>1. Tagging(p, t) BY <1>1, <1>3, <1>4, <2>3, <2>4, <2>6, <2>7, <2>9 DEF Tagging, NoTag
      <3>2. audioDisk' \in [AudioFile -> AudioRecord] BY <2>9 DEF NoTag, EnrichTyped
      <3> QED BY <2>4, <3>1, <3>2
    <2> QED BY <2>5, <2>8, <2>9
  <1> QED BY <1>n, <1>k, <1>5, <1>6 DEF Genre

(* The cover of a file: an answer that is cached is not asked for again.       *)
LEMMA CoverTagIs ==
  ASSUME EnrichTyped, FileIsInHand, NEW p \in Pass, Cover(p)
  PROVE  audioDisk' \in [AudioFile -> AudioRecord] /\ \E r \in PassRecord : Tagging(p, r)
  <1>0. pass[p] \in PassRecord BY DEF EnrichTyped
  <1>1. pass[p].pc = "cover" /\ InHand(p) /\ pass[p].file \in AudioFile
    BY DEF Cover, FileIsInHand, InHand
  <1>n. PICK n : n = [pass[p] EXCEPT !.pc = "tally"] OBVIOUS
  <1>2. "tally" \in PassPc /\ "cover" \in TagKind BY DEF PassPc, TagKind
  <1>3. /\ n \in PassRecord
        /\ n.pc = "tally" /\ n.opts = pass[p].opts /\ n.files = pass[p].files /\ n.file = pass[p].file
        /\ n.wrote = pass[p].wrote /\ n.genreCache = pass[p].genreCache /\ n.coverCache = pass[p].coverCache
    BY <1>0, <1>2, <1>n, RecordMoves
  <1>k. PICK k : k = AlbumOf[pass[p].file] OBVIOUS
  <1>4. k \in CacheKey BY <1>1, <1>k DEF CacheKey
  <1>5. CASE NoTag(p, n) /\ UNCHANGED askedKeys
    <2>2. Tagging(p, n) BY <1>1, <1>3, <1>5 DEF Tagging, NoTag, Cover
    <2>3. audioDisk' \in [AudioFile -> AudioRecord] BY <1>5 DEF NoTag, EnrichTyped
    <2> QED BY <1>3, <2>2, <2>3
  <1>6. CASE /\ WantsCover(p)
             /\ askedKeys' = IF Known(pass[p].coverCache, k)
                             THEN askedKeys ELSE Append(askedKeys, <<"cover", k>>)
             /\ \E obtained \in IF Known(pass[p].coverCache, k)
                             THEN {pass[p].coverCache[k]} ELSE BOOLEAN :
                  LET then == [n EXCEPT !.coverCache = CachedAs(@, k, obtained)]
                  IN  \/ obtained /\ Tag(p, "cover", then)
                      \/ NoTag(p, then)
    <2>1. pass[p].coverCache \in AnswerCache BY <1>0 DEF PassRecord
    <2>2. PICK obtained \in BOOLEAN : \/ Tag(p, "cover", [n EXCEPT !.coverCache = CachedAs(@, k, obtained)])
                                   \/ NoTag(p, [n EXCEPT !.coverCache = CachedAs(@, k, obtained)])
      BY <1>6, <2>1, KnownAnswer
    <2>c. PICK c : c = CachedAs(n.coverCache, k, obtained) OBVIOUS
    <2>3. c \in AnswerCache /\ DOMAIN c = DOMAIN pass[p].coverCache \cup {k}
      BY <1>3, <1>4, <2>1, <2>c, AnswerIsCached
    <2>t. PICK t : t = [n EXCEPT !.coverCache = c] OBVIOUS
    <2>4. /\ t \in PassRecord
          /\ t.pc = n.pc /\ t.opts = n.opts /\ t.files = n.files /\ t.file = n.file
          /\ t.wrote = n.wrote /\ t.coverCache = c /\ t.genreCache = n.genreCache
      BY <1>3, <2>3, <2>t, RecordHeardCover
    <2>5. Tag(p, "cover", t) \/ NoTag(p, t) BY <2>2, <2>c, <2>t
    <2>6. \/ askedKeys' = askedKeys
          \/ askedKeys' = Append(askedKeys, <<"cover", k>>) /\ k \notin DOMAIN pass[p].coverCache
      BY <1>6 DEF Known
    <2>7. UNCHANGED <<enrichStop, passes, changes>> BY DEF Cover
    <2>8. CASE Tag(p, "cover", t)
      <3>w. PICK r : r = [t EXCEPT !.wrote = TRUE] OBVIOUS
      <3>1. /\ r \in PassRecord
            /\ r.pc = t.pc /\ r.opts = t.opts /\ r.files = t.files /\ r.file = t.file
            /\ r.wrote /\ r.genreCache = t.genreCache /\ r.coverCache = t.coverCache
        BY <2>4, <3>w, RecordWrote
      <3>2. /\ audioDisk' \in [AudioFile -> AudioRecord]
            /\ pass' = [pass EXCEPT ![p] = r]
            /\ enrichStatus' = [enrichStatus EXCEPT !.added["cover"] = @ + 1]
            /\ tagged' = tagged \cup {pass[p].file} /\ untold' = untold \cup {pass[p].file}
        BY <1>1, <1>2, <2>4, <2>8, <3>w, TagIs
      <3>3. Tagging(p, r) BY <1>1, <1>2, <1>3, <1>4, <2>3, <2>4, <2>6, <2>7, <3>1, <3>2 DEF Tagging
      <3> QED BY <3>1, <3>2, <3>3
    <2>9. CASE NoTag(p, t)
      <3>1. Tagging(p, t) BY <1>1, <1>3, <1>4, <2>3, <2>4, <2>6, <2>7, <2>9 DEF Tagging, NoTag
      <3>2. audioDisk' \in [AudioFile -> AudioRecord] BY <2>9 DEF NoTag, EnrichTyped
      <3> QED BY <2>4, <3>1, <3>2
    <2> QED BY <2>5, <2>8, <2>9
  <1>7. \/ NoTag(p, n) /\ UNCHANGED askedKeys
        \/ /\ WantsCover(p)
           /\ askedKeys' = IF Known(pass[p].coverCache, k)
                           THEN askedKeys ELSE Append(askedKeys, <<"cover", k>>)
           /\ \E obtained \in IF Known(pass[p].coverCache, k)
                           THEN {pass[p].coverCache[k]} ELSE BOOLEAN :
                LET then == [n EXCEPT !.coverCache = CachedAs(@, k, obtained)]
                IN  \/ obtained /\ Tag(p, "cover", then)
                    \/ NoTag(p, then)
    BY <1>n, <1>k DEF Cover
  <1> QED BY <1>5, <1>6, <1>7
-----------------------------------------------------------------------------
(* How the other steps of a pass change the state.                         *)
Starting(p, r, s) ==
    /\ pass' = [pass EXCEPT ![p] = r] /\ enrichStatus' = s
    /\ pass[p].pc = "none" /\ ~enrichStatus.running
    /\ r.pc = "collect" /\ r.file = NoAudio
    /\ s.running /\ s.processed = 0 /\ s.skipped = 0 /\ s.failed = 0
    /\ tagged' = {} /\ askedKeys' = <<>> /\ untold' = untold

Collecting(p, r, s) ==
    /\ pass' = [pass EXCEPT ![p] = r] /\ enrichStatus' = s
    /\ pass[p].pc = "collect" /\ r.pc = "next" /\ r.opts = pass[p].opts /\ r.file = pass[p].file
    /\ r.genreCache = pass[p].genreCache /\ r.coverCache = pass[p].coverCache
    /\ s.running = enrichStatus.running /\ s.processed = enrichStatus.processed
    /\ s.skipped = enrichStatus.skipped /\ s.failed = enrichStatus.failed /\ s.added = enrichStatus.added
    /\ s.total = Cardinality(r.files)
    /\ UNCHANGED <<enrichStop, tagged, askedKeys, untold>>

Choosing(p, r, s) ==
    /\ pass' = [pass EXCEPT ![p] = r] /\ enrichStatus' = s
    /\ pass[p].pc = "next" /\ ~Finished(p) /\ r.opts = pass[p].opts
    /\ r.genreCache = pass[p].genreCache /\ r.coverCache = pass[p].coverCache
    /\ s.running = enrichStatus.running /\ s.total = enrichStatus.total /\ s.added = enrichStatus.added
    /\ \E f \in pass[p].files :
         /\ r.files = pass[p].files \ {f}
         /\ \/ r.pc = "lyrics" /\ r.file = f /\ ~r.wrote /\ s = enrichStatus
            \/ /\ r.pc = "next" /\ r.file = pass[p].file
               /\ s.processed = enrichStatus.processed + 1
               /\ s.skipped + s.failed = enrichStatus.skipped + enrichStatus.failed + 1
    /\ UNCHANGED <<enrichStop, tagged, askedKeys, untold>>

Tallying(p, r, s) ==
    /\ pass' = [pass EXCEPT ![p] = r] /\ enrichStatus' = s
    /\ pass[p].pc = "tally" /\ r.pc = "next" /\ r.opts = pass[p].opts /\ r.file = NoAudio
    /\ r.files = pass[p].files
    /\ r.genreCache = pass[p].genreCache /\ r.coverCache = pass[p].coverCache
    /\ s.running = enrichStatus.running /\ s.total = enrichStatus.total /\ s.added = enrichStatus.added
    /\ s.processed = enrichStatus.processed + 1 /\ s.failed = enrichStatus.failed
    /\ s.skipped = IF pass[p].wrote THEN enrichStatus.skipped ELSE enrichStatus.skipped + 1
    /\ UNCHANGED <<enrichStop, tagged, askedKeys, untold>>

Ending(p, r, s) ==
    /\ pass' = [pass EXCEPT ![p] = r] /\ enrichStatus' = s
    /\ pass[p].pc = "next"
    /\ r.pc = "notify" /\ r.file = NoAudio /\ r.files = {} /\ (r.rescan <=> WroteTags(enrichStatus))
    /\ ~s.running /\ s.processed = enrichStatus.processed
    /\ s.skipped = enrichStatus.skipped /\ s.failed = enrichStatus.failed
    /\ UNCHANGED <<enrichStop, tagged, askedKeys, untold>>

Notifying(p, r, s) ==
    /\ pass' = [pass EXCEPT ![p] = r] /\ enrichStatus' = s
    /\ pass[p].pc = "notify" /\ r.pc = "none" /\ r.file = NoAudio
    /\ s = enrichStatus
    /\ untold' = IF pass[p].rescan THEN {} ELSE untold
    /\ UNCHANGED <<enrichStop, tagged, askedKeys>>

(* A request.                                                              *)
LEMMA EnrichLibraryIs ==
  ASSUME EnrichTyped, NEW p \in Pass, NEW o \in Options, EnrichLibrary(p, o)
  PROVE  \E r \in PassRecord, s \in StatusRecord : Starting(p, r, s)
  <1>1. PICK r : r = [Pass0 EXCEPT !.pc = "collect", !.opts = o] OBVIOUS
  <1>2. PICK s : s = [Status0 EXCEPT !.running = TRUE] OBVIOUS
  <1>3. r \in PassRecord
    <2>1. "collect" \in PassPc BY DEF PassPc
    <2> QED BY <1>1, <2>1, Pass0Is
  <1>4. r.pc = "collect" /\ r.file = NoAudio BY <1>1 DEF Pass0
  <1>5. s \in StatusRecord BY <1>2 DEF Status0, StatusRecord
  <1>6. s.running /\ s.processed = 0 /\ s.skipped = 0 /\ s.failed = 0 BY <1>2 DEF Status0
  <1> QED BY <1>1, <1>2, <1>3, <1>4, <1>5, <1>6 DEF EnrichLibrary, Starting, Refused

(* The walk.                                                               *)
LEMMA CollectIs ==
  ASSUME EnrichTyped, NEW p \in Pass, CollectAudioFiles(p)
  PROVE  \E r \in PassRecord, s \in StatusRecord : Collecting(p, r, s)
  <1>0. pass[p] \in PassRecord /\ enrichStatus \in StatusRecord BY DEF EnrichTyped
  <1>c. PICK c : c = Collected OBVIOUS
  <1>1. c \in SUBSET AudioFile /\ IsFiniteSet(c) /\ Cardinality(c) \in Nat
    <2>1. c \in SUBSET AudioFile BY <1>c DEF Collected
    <2> QED BY <2>1, EnrichAssumption, FS_Subset, FS_CardinalityType DEF EnrichAssumption
  <1>2. PICK r : r = [pass[p] EXCEPT !.pc = "next", !.files = c] OBVIOUS
  <1>3. PICK s : s = [enrichStatus EXCEPT !.total = Cardinality(c)] OBVIOUS
  <1>4. /\ r \in PassRecord /\ r.pc = "next" /\ r.files = c /\ r.opts = pass[p].opts /\
             r.file = pass[p].file
        /\ r.genreCache = pass[p].genreCache /\ r.coverCache = pass[p].coverCache
    <2>1. "next" \in PassPc BY DEF PassPc
    <2>2. ASSUME NEW q \in PassRecord, NEW x \in PassPc
          PROVE LET n == [q EXCEPT !.pc = x, !.files = c]
                IN  /\ n \in PassRecord /\ n.pc = x /\ n.files = c /\ n.opts = q.opts /\ n.file = q.file
                    /\ n.genreCache = q.genreCache /\ n.coverCache = q.coverCache
      BY <1>1 DEF PassRecord
    <2> QED BY <1>0, <1>2, <2>1, <2>2
  <1>5. /\ s \in StatusRecord /\ s.running = enrichStatus.running /\ s.processed = enrichStatus.processed
        /\ s.skipped = enrichStatus.skipped /\ s.failed = enrichStatus.failed /\
             s.added = enrichStatus.added
        /\ s.total = Cardinality(c)
    BY <1>0, <1>1, <1>3 DEF StatusRecord
  <1>6. pass' = [pass EXCEPT ![p] = r] BY <1>0, <1>2, <1>c DEF CollectAudioFiles, EnrichTyped
  <1>7. /\ enrichStatus' = s /\ pass[p].pc = "collect"
        /\ UNCHANGED <<enrichStop, tagged, askedKeys, untold>>
    BY <1>3, <1>c DEF CollectAudioFiles
  <1>8. Collecting(p, r, s) BY <1>4, <1>5, <1>6, <1>7 DEF Collecting
  <1> QED BY <1>4, <1>5, <1>8

(* One more file is done with.                                             *)
LEMMA OneMoreDone ==
  ASSUME NEW s \in StatusRecord
  PROVE  /\ LET n == [s EXCEPT !.skipped = @ + 1, !.processed = @ + 1]
            IN  /\ n \in StatusRecord
                /\ n.running = s.running /\ n.total = s.total /\ n.added = s.added
                /\ n.processed = s.processed + 1 /\ n.skipped + n.failed = s.skipped + s.failed + 1
         /\ LET n == [s EXCEPT !.failed = @ + 1, !.processed = @ + 1]
            IN  /\ n \in StatusRecord
                /\ n.running = s.running /\ n.total = s.total /\ n.added = s.added
                /\ n.processed = s.processed + 1 /\ n.skipped + n.failed = s.skipped + s.failed + 1
         /\ LET n == [s EXCEPT !.processed = @ + 1, !.skipped = @ + 1]
            IN  /\ n \in StatusRecord
                /\ n.running = s.running /\ n.total = s.total /\ n.added = s.added
                /\ n.processed = s.processed + 1 /\ n.skipped = s.skipped + 1 /\ n.failed = s.failed
         /\ LET n == [s EXCEPT !.processed = @ + 1, !.skipped = @]
            IN  /\ n \in StatusRecord
                /\ n.running = s.running /\ n.total = s.total /\ n.added = s.added
                /\ n.processed = s.processed + 1 /\ n.skipped = s.skipped /\ n.failed = s.failed
  <1>1. ASSUME NEW a \in Nat, NEW b \in Nat
        PROVE  LET n == [s EXCEPT !.skipped = a, !.processed = b]
               IN  /\ n \in StatusRecord /\ n.running = s.running /\ n.total = s.total /\ n.added = s.added
                   /\ n.processed = b /\ n.skipped = a /\ n.failed = s.failed
    BY DEF StatusRecord
  <1>2. ASSUME NEW a \in Nat, NEW b \in Nat
        PROVE  LET n == [s EXCEPT !.failed = a, !.processed = b]
               IN  /\ n \in StatusRecord /\ n.running = s.running /\ n.total = s.total /\ n.added = s.added
                   /\ n.processed = b /\ n.skipped = s.skipped /\ n.failed = a
    BY DEF StatusRecord
  <1>3. ASSUME NEW a \in Nat, NEW b \in Nat
        PROVE  LET n == [s EXCEPT !.processed = b, !.skipped = a]
               IN  /\ n \in StatusRecord /\ n.running = s.running /\ n.total = s.total /\ n.added = s.added
                   /\ n.processed = b /\ n.skipped = a /\ n.failed = s.failed
    BY DEF StatusRecord
  <1>4. s.skipped \in Nat /\ s.failed \in Nat /\ s.processed \in Nat BY DEF StatusRecord
  <1>5. s.skipped + 1 \in Nat /\ s.failed + 1 \in Nat /\ s.processed + 1 \in Nat BY <1>4
  <1>6. LET n == [s EXCEPT !.skipped = @ + 1, !.processed = @ + 1]
         IN  /\ n \in StatusRecord
             /\ n.running = s.running /\ n.total = s.total /\ n.added = s.added
             /\ n.processed = s.processed + 1 /\ n.skipped + n.failed = s.skipped + s.failed + 1
    <2>1. PICK n : n = [s EXCEPT !.skipped = s.skipped + 1, !.processed = s.processed + 1] OBVIOUS
    <2>2. /\ n \in StatusRecord /\ n.running = s.running /\ n.total = s.total /\ n.added = s.added
          /\ n.processed = s.processed + 1 /\ n.skipped = s.skipped + 1 /\ n.failed = s.failed
      BY <1>1, <1>5, <2>1, ZenonT(40)
    <2>3. n.skipped + n.failed = s.skipped + s.failed + 1 BY <1>4, <2>2
    <2> QED BY <2>1, <2>2, <2>3, Zenon
  <1>7. LET n == [s EXCEPT !.failed = @ + 1, !.processed = @ + 1]
         IN  /\ n \in StatusRecord
             /\ n.running = s.running /\ n.total = s.total /\ n.added = s.added
             /\ n.processed = s.processed + 1 /\ n.skipped + n.failed = s.skipped + s.failed + 1
    <2>1. PICK n : n = [s EXCEPT !.failed = s.failed + 1, !.processed = s.processed + 1] OBVIOUS
    <2>2. /\ n \in StatusRecord /\ n.running = s.running /\ n.total = s.total /\ n.added = s.added
          /\ n.processed = s.processed + 1 /\ n.failed = s.failed + 1 /\ n.skipped = s.skipped
      BY <1>2, <1>5, <2>1, ZenonT(40)
    <2>3. n.skipped + n.failed = s.skipped + s.failed + 1 BY <1>4, <2>2
    <2> QED BY <2>1, <2>2, <2>3, Zenon
  <1>8. LET n == [s EXCEPT !.processed = @ + 1, !.skipped = @ + 1]
         IN  /\ n \in StatusRecord
             /\ n.running = s.running /\ n.total = s.total /\ n.added = s.added
             /\ n.processed = s.processed + 1 /\ n.skipped = s.skipped + 1 /\ n.failed = s.failed
    BY <1>3, <1>4, <1>5, ZenonT(40)
  <1>9. LET n == [s EXCEPT !.processed = @ + 1, !.skipped = @]
         IN  /\ n \in StatusRecord
             /\ n.running = s.running /\ n.total = s.total /\ n.added = s.added
             /\ n.processed = s.processed + 1 /\ n.skipped = s.skipped /\ n.failed = s.failed
    BY <1>3, <1>4, <1>5, ZenonT(40)
  <1> QED BY <1>6, <1>7, <1>8, <1>9

(* The top of the loop.                                                    *)
LEMMA NextFileIs ==
  ASSUME EnrichTyped, NEW p \in Pass, NextFile(p)
  PROVE  \E r \in PassRecord, s \in StatusRecord : Choosing(p, r, s)
  <1>0. pass[p] \in PassRecord /\ enrichStatus \in StatusRecord /\ pass[p].opts \in Options
    BY DEF EnrichTyped, PassRecord
  <1>1. PICK f \in pass[p].files :
            \/ /\ pass' = [pass EXCEPT ![p].pc = "lyrics", ![p].file = f, ![p].files = pass[p].files \ {f},
                                       ![p].todo = Todo(pass[p].opts, f), ![p].wrote = FALSE]
               /\ UNCHANGED enrichStatus
            \/ /\ pass' = [pass EXCEPT ![p].files = pass[p].files \ {f}]
               /\ enrichStatus' = [enrichStatus EXCEPT !.skipped = @ + 1, !.processed = @ + 1]
            \/ /\ pass' = [pass EXCEPT ![p].files = pass[p].files \ {f}]
               /\ enrichStatus' = [enrichStatus EXCEPT !.failed = @ + 1, !.processed = @ + 1]
    BY DEF NextFile
  <1>2. f \in AudioFile /\ pass[p].files \ {f} \in SUBSET AudioFile BY <1>0 DEF PassRecord
  <1>4. ASSUME NEW q \in PassRecord, NEW m \in SUBSET AudioFile
        PROVE  LET n == [q EXCEPT !.files = m]
               IN  /\ n \in PassRecord /\ n.pc = q.pc /\ n.file = q.file /\ n.files = m
                   /\ n.opts = q.opts /\ n.genreCache = q.genreCache /\ n.coverCache = q.coverCache
    BY DEF PassRecord
  <1>5. PICK s \in StatusRecord : s = enrichStatus BY <1>0
  <1>6. /\ [s EXCEPT !.skipped = @ + 1, !.processed = @ + 1] \in StatusRecord
        /\ [s EXCEPT !.failed = @ + 1, !.processed = @ + 1] \in StatusRecord
    BY OneMoreDone
  <1>m. PICK m \in SUBSET AudioFile : m = pass[p].files \ {f} BY <1>2
  <1>7. CASE /\ pass' = [pass EXCEPT ![p].pc = "lyrics", ![p].file = f, ![p].files = pass[p].files \ {f},
                                     ![p].todo = Todo(pass[p].opts, f), ![p].wrote = FALSE]
             /\ UNCHANGED enrichStatus
    <2>t. PICK t \in SUBSET TagKind : t = Todo(pass[p].opts, f)
      <3>1. Todo(pass[p].opts, f) \in SUBSET TagKind
        BY <1>0, EnrichAssumption DEF EnrichAssumption, Todo
      <3> QED BY <3>1
    <2>1. PICK r : r = [pass[p] EXCEPT !.pc = "lyrics", !.file = f, !.files = m, !.todo = t,
            !.wrote = FALSE] OBVIOUS
    <2>2. "lyrics" \in PassPc BY DEF PassPc
    <2>3. /\ r \in PassRecord /\ r.pc = "lyrics" /\ r.file = f /\ r.files = m /\ r.wrote = FALSE
          /\ r.opts = pass[p].opts /\ r.genreCache = pass[p].genreCache /\ r.coverCache = pass[p].coverCache
      <3>1. PICK q \in PassRecord : q = pass[p] BY <1>0
      <3>a. PICK a : a = [q EXCEPT !.pc = "lyrics", !.file = f] OBVIOUS
      <3>b. PICK b : b = [a EXCEPT !.files = m] OBVIOUS
      <3>c. PICK c : c = [b EXCEPT !.todo = t, !.wrote = FALSE] OBVIOUS
      <3>2. /\ a \in PassRecord /\ a.pc = "lyrics" /\ a.file = f
            /\ a.opts = q.opts /\ a.genreCache = q.genreCache /\ a.coverCache = q.coverCache
        BY <1>2, <2>2, <3>a DEF PassRecord
      <3>3. /\ b \in PassRecord /\ b.pc = "lyrics" /\ b.file = f /\ b.files = m
            /\ b.opts = q.opts /\ b.genreCache = q.genreCache /\ b.coverCache = q.coverCache
        BY <3>2, <3>b DEF PassRecord
      <3>4. /\ c \in PassRecord /\ c.pc = "lyrics" /\ c.file = f /\ c.files = m /\ c.wrote = FALSE
            /\ c.opts = q.opts /\ c.genreCache = q.genreCache /\ c.coverCache = q.coverCache
        BY <3>3, <3>c DEF PassRecord
      <3>5. c = r BY <2>1, <3>1, <3>a, <3>b, <3>c DEF PassRecord
      <3> QED BY <3>1, <3>4, <3>5
    <2>4. pass' = [pass EXCEPT ![p] = r] BY <1>0, <1>7, <1>m, <2>1, <2>t DEF EnrichTyped
    <2>5. Choosing(p, r, enrichStatus) BY <1>7, <1>m, <2>3, <2>4 DEF Choosing, NextFile
    <2> QED BY <1>0, <2>3, <2>5
  <1>8. ASSUME pass' = [pass EXCEPT ![p].files = pass[p].files \ {f}], NEW n \in StatusRecord,
                 enrichStatus' = n,
               /\ n.running = enrichStatus.running /\ n.total = enrichStatus.total /\
                    n.added = enrichStatus.added
               /\ n.processed = enrichStatus.processed + 1
               /\ n.skipped + n.failed = enrichStatus.skipped + enrichStatus.failed + 1
        PROVE  \E r \in PassRecord, z \in StatusRecord : Choosing(p, r, z)
    <2>1. PICK r : r = [pass[p] EXCEPT !.files = m] OBVIOUS
    <2>3. /\ r \in PassRecord /\ r.pc = pass[p].pc /\ r.file = pass[p].file /\ r.files = m
          /\ r.opts = pass[p].opts /\ r.genreCache = pass[p].genreCache /\ r.coverCache = pass[p].coverCache
      BY <1>0, <1>4, <2>1
    <2>4. pass' = [pass EXCEPT ![p] = r] BY <1>0, <1>8, <1>m, <2>1 DEF EnrichTyped
    <2>5. Choosing(p, r, n) BY <1>8, <1>m, <2>3, <2>4 DEF Choosing, NextFile
    <2> QED BY <1>8, <2>3, <2>5
  <1>9. CASE /\ pass' = [pass EXCEPT ![p].files = pass[p].files \ {f}]
             /\ \/ enrichStatus' = [enrichStatus EXCEPT !.skipped = @ + 1, !.processed = @ + 1]
                \/ enrichStatus' = [enrichStatus EXCEPT !.failed = @ + 1, !.processed = @ + 1]
    <2>1. PICK n \in StatusRecord : /\ enrichStatus' = n
                                    /\ \/ n = [s EXCEPT !.skipped = @ + 1, !.processed = @ + 1]
                                       \/ n = [s EXCEPT !.failed = @ + 1, !.processed = @ + 1]
      BY <1>5, <1>6, <1>9
    <2>2. /\ n.running = s.running /\ n.total = s.total /\ n.added = s.added
          /\ n.processed = s.processed + 1 /\ n.skipped + n.failed = s.skipped + s.failed + 1
      BY ONLY s \in StatusRecord, <2>1, OneMoreDone, ZenonT(40)
    <2> QED BY <1>5, <1>8, <1>9, <2>1, <2>2
  <1> QED BY <1>1, <1>7, <1>9

(* The end of a turn.                                                      *)
LEMMA TallyIs ==
  ASSUME EnrichTyped, NEW p \in Pass, Tally(p)
  PROVE  \E r \in PassRecord, s \in StatusRecord : Tallying(p, r, s)
  <1>0. pass[p] \in PassRecord /\ enrichStatus \in StatusRecord BY DEF EnrichTyped
  <1>2. PICK r : r = [pass[p] EXCEPT !.pc = "next", !.file = NoAudio, !.todo = {}, !.wrote = FALSE] OBVIOUS
  <1>3. PICK s : s = [enrichStatus EXCEPT !.processed = @ + 1,
          !.skipped = IF pass[p].wrote THEN @ ELSE @ + 1] OBVIOUS
  <1>4. ASSUME NEW q \in PassRecord, NEW x \in PassPc
        PROVE  LET n == [q EXCEPT !.pc = x, !.file = NoAudio, !.todo = {}, !.wrote = FALSE]
               IN  /\ n \in PassRecord /\ n.pc = x /\ n.file = NoAudio /\ n.files = q.files
                   /\ n.opts = q.opts /\ n.genreCache = q.genreCache /\ n.coverCache = q.coverCache
    <2>1. [q EXCEPT !.pc = x, !.file = NoAudio] \in PassRecord BY DEF PassRecord
    <2>2. ASSUME NEW n \in PassRecord PROVE [n EXCEPT !.todo = {}, !.wrote = FALSE] \in PassRecord
      BY DEF PassRecord
    <2>3. [[q EXCEPT !.pc = x, !.file = NoAudio] EXCEPT !.todo = {}, !.wrote = FALSE]
            = [q EXCEPT !.pc = x, !.file = NoAudio, !.todo = {}, !.wrote = FALSE]
      BY DEF PassRecord
    <2> QED BY <2>1, <2>2, <2>3 DEF PassRecord
  <1>5. "next" \in PassPc BY DEF PassPc
  <1>6. /\ r \in PassRecord /\ r.pc = "next" /\ r.file = NoAudio /\ r.files = pass[p].files
        /\ r.opts = pass[p].opts /\ r.genreCache = pass[p].genreCache /\ r.coverCache = pass[p].coverCache
    BY <1>0, <1>2, <1>4, <1>5
  <1>7. pass' = [pass EXCEPT ![p] = r] BY <1>0, <1>2 DEF EnrichTyped, Tally
  <1>8. /\ s \in StatusRecord /\ s.running = enrichStatus.running /\ s.total = enrichStatus.total
        /\ s.added = enrichStatus.added
        /\ s.processed = enrichStatus.processed + 1 /\ s.failed = enrichStatus.failed
        /\ s.skipped = IF pass[p].wrote THEN enrichStatus.skipped ELSE enrichStatus.skipped + 1
    <2>1. CASE pass[p].wrote
      <3>1. s = [enrichStatus EXCEPT !.processed = @ + 1, !.skipped = @] BY <1>3, <2>1
      <3> QED BY <1>0, <2>1, <3>1, OneMoreDone
    <2>2. CASE ~pass[p].wrote
      <3>1. s = [enrichStatus EXCEPT !.processed = @ + 1, !.skipped = @ + 1] BY <1>3, <2>2
      <3> QED BY <1>0, <2>2, <3>1, OneMoreDone
    <2> QED BY <2>1, <2>2
  <1>9. Tallying(p, r, s) BY <1>3, <1>6, <1>7, <1>8 DEF Tallying, Tally
  <1> QED BY <1>6, <1>8, <1>9

(* The end of the loop.                                                    *)
LEMMA EndsIs ==
  ASSUME EnrichTyped, NEW p \in Pass, Ends(p)
  PROVE  \E r \in PassRecord, s \in StatusRecord : Ending(p, r, s)
  <1>0. pass[p] \in PassRecord /\ enrichStatus \in StatusRecord /\ pass[p].opts \in Options
    BY DEF EnrichTyped, PassRecord
  <1>b. PICK b \in BOOLEAN : b = WroteTags(enrichStatus) BY DEF WroteTags
  <1>1. PICK r : r = [Pass0 EXCEPT !.pc = "notify", !.rescan = b] OBVIOUS
  <1>2. PICK s : s = [enrichStatus EXCEPT !.running = FALSE] OBVIOUS
  <1>3. r \in PassRecord
    <2>1. "notify" \in PassPc BY DEF PassPc
    <2> QED BY <1>0, <1>1, <2>1, Pass0Is
  <1>4. r.pc = "notify" /\ r.file = NoAudio /\ r.files = {} /\ r.rescan = b BY <1>1 DEF Pass0
  <1>5. /\ s \in StatusRecord /\ ~s.running /\ s.processed = enrichStatus.processed
        /\ s.skipped = enrichStatus.skipped /\ s.failed = enrichStatus.failed
    BY <1>0, <1>2 DEF StatusRecord
  <1>6. pass' = [pass EXCEPT ![p] = r] BY <1>1, <1>b DEF Ends
  <1> QED BY <1>2, <1>3, <1>4, <1>5, <1>6, <1>b DEF Ends, Ending

(* The deferred end.                                                       *)
LEMMA NotifyIs ==
  ASSUME EnrichTyped, NEW p \in Pass, Notify(p)
  PROVE  \E r \in PassRecord, s \in StatusRecord : Notifying(p, r, s)
  <1>0. pass[p] \in PassRecord /\ enrichStatus \in StatusRecord /\ pass[p].opts \in Options
    BY DEF EnrichTyped, PassRecord
  <1>1. PICK r : r = Pass0 OBVIOUS
  <1>2. r \in PassRecord BY <1>0, <1>1, Pass0Is DEF PassPc
  <1>3. r.pc = "none" /\ r.file = NoAudio BY <1>1 DEF Pass0
  <1> QED BY <1>0, <1>1, <1>2, <1>3 DEF Notify, Notifying
-----------------------------------------------------------------------------
(* Every step is one of these, or leaves what the passes keep.             *)
LEMMA StepIs ==
  ASSUME EnrichTyped, FileIsInHand, [EnrichNext]_enrichVars
  PROVE  \/ \E p \in Pass, r \in PassRecord, s \in StatusRecord :
               \/ Starting(p, r, s) \/ Collecting(p, r, s) \/ Choosing(p, r, s)
               \/ Tallying(p, r, s) \/ Ending(p, r, s) \/ Notifying(p, r, s)
         \/ \E p \in Pass, r \in PassRecord : Tagging(p, r)
         \/ UNCHANGED <<pass, enrichStatus, tagged, askedKeys, untold>>
  <1>1. ASSUME NEW p \in Pass, NEW o \in Options, EnrichLibrary(p, o)
        PROVE \E r \in PassRecord, s \in StatusRecord : Starting(p, r, s)
    BY <1>1, EnrichLibraryIs
  <1>2. ASSUME NEW p \in Pass, CollectAudioFiles(p)
        PROVE \E r \in PassRecord, s \in StatusRecord : Collecting(p, r, s)
    BY <1>2, CollectIs
  <1>3. ASSUME NEW p \in Pass, NextFile(p) PROVE \E r \in PassRecord, s \in StatusRecord : Choosing(p, r, s)
    BY <1>3, NextFileIs
  <1>4. ASSUME NEW p \in Pass, Lyrics(p) \/ Genre(p) \/ Cover(p) PROVE \E r \in PassRecord : Tagging(p, r)
    <2>1. CASE Lyrics(p) BY <2>1, LyricsTagIs
    <2>2. CASE Genre(p) BY <2>2, GenreTagIs
    <2>3. CASE Cover(p) BY <2>3, CoverTagIs
    <2> QED BY <1>4, <2>1, <2>2, <2>3
  <1>5. ASSUME NEW p \in Pass, Tally(p) PROVE \E r \in PassRecord, s \in StatusRecord : Tallying(p, r, s)
    BY <1>5, TallyIs
  <1>6. ASSUME NEW p \in Pass, Ends(p) PROVE \E r \in PassRecord, s \in StatusRecord : Ending(p, r, s)
    BY <1>6, EndsIs
  <1>7. ASSUME NEW p \in Pass, Notify(p) PROVE \E r \in PassRecord, s \in StatusRecord : Notifying(p, r, s)
    BY <1>7, NotifyIs
  <1>8. StopEnrich => UNCHANGED <<pass, enrichStatus, tagged, askedKeys, untold>> BY DEF StopEnrich
  <1>9. ASSUME NEW f \in AudioFile, FileChanges(f)
        PROVE  UNCHANGED <<pass, enrichStatus, tagged, askedKeys, untold>>
    BY <1>9 DEF FileChanges
  <1>10. UNCHANGED enrichVars => UNCHANGED <<pass, enrichStatus, tagged, askedKeys, untold>>
    BY DEF enrichVars
  <1> QED BY <1>1, <1>2, <1>3, <1>4, <1>5, <1>6, <1>7, <1>8, <1>9, <1>10 DEF EnrichNext

(* A file is in hand only while the pass works, and then no other pass does. *)
LEMMA WorksAlone ==
  ASSUME OnePassAtATime, NEW p \in Pass, Working(p)
  PROVE  \A q \in Pass \ {p} : ~Working(q) /\ ~InHand(q)
  BY DEF OnePassAtATime, Working, InHand

(* Each step keeps the types.                                              *)
LEMMA EnrichTypedStep ==
  ASSUME EnrichTyped, FileIsInHand, [EnrichNext]_enrichVars
  PROVE  EnrichTyped'
  <1>1. audioDisk' \in [AudioFile -> AudioRecord]
    <2>1. ASSUME NEW p \in Pass, Lyrics(p) \/ Genre(p) \/ Cover(p)
          PROVE  audioDisk' \in [AudioFile -> AudioRecord]
      <3>1. CASE Lyrics(p) BY <3>1, LyricsTagIs
      <3>2. CASE Genre(p) BY <3>2, GenreTagIs
      <3>3. CASE Cover(p) BY <3>3, CoverTagIs
      <3> QED BY <2>1, <3>1, <3>2, <3>3
    <2>2. ASSUME NEW p \in Pass, (\E o \in Options : EnrichLibrary(p, o)) \/ CollectAudioFiles(p) \/
                   NextFile(p)
                                 \/ Tally(p) \/ Ends(p) \/ Notify(p)
          PROVE audioDisk' = audioDisk
      BY <2>2 DEF EnrichLibrary, CollectAudioFiles, NextFile, Tally, Ends, Notify
    <2>3. ASSUME NEW f \in AudioFile, FileChanges(f) PROVE audioDisk' \in [AudioFile -> AudioRecord]
      <3>1. CASE Lands(f)
        <4>1. PICK t \in StartTags :
                audioDisk' = [audioDisk EXCEPT ![f] = [present |-> TRUE, quiet |-> FALSE, tags |-> t]]
          BY <3>1 DEF Lands
        <4>2. [present |-> TRUE, quiet |-> FALSE, tags |-> t] \in AudioRecord
          BY EnrichAssumption DEF EnrichAssumption, AudioRecord
        <4> QED BY <4>1, <4>2 DEF EnrichTyped
      <3>2. CASE Settles(f) BY <3>2 DEF Settles, EnrichTyped, AudioRecord
      <3>3. CASE Leaves(f) BY <3>3 DEF Leaves, EnrichTyped, AudioRecord
      <3> QED BY <2>3, <3>1, <3>2, <3>3 DEF FileChanges
    <2>4. StopEnrich \/ UNCHANGED enrichVars => audioDisk' = audioDisk BY DEF StopEnrich, enrichVars
    <2> QED BY <2>1, <2>2, <2>3, <2>4 DEF EnrichNext, EnrichTyped
  <1>2. enrichStop' \in BOOLEAN
    BY ZenonT(40) DEF EnrichTyped, EnrichNext, enrichVars, EnrichLibrary, CollectAudioFiles, NextFile,
             Lyrics,
           Genre, Cover,
           Tally, Ends, Notify, StopEnrich, FileChanges
  <1>5. /\ enrichStatus' \in StatusRecord /\ pass' \in [Pass -> PassRecord]
        /\ tagged' \subseteq AudioFile /\ untold' \subseteq AudioFile
        /\ askedKeys' \in Seq({"genre", "cover"} \X CacheKey)
    <2>1. CASE UNCHANGED <<pass, enrichStatus, tagged, askedKeys, untold>> BY <2>1 DEF EnrichTyped
    <2>2. ASSUME NEW p \in Pass, NEW r \in PassRecord, NEW s \in StatusRecord,
                 \/ Starting(p, r, s) \/ Collecting(p, r, s) \/ Choosing(p, r, s)
                 \/ Tallying(p, r, s) \/ Ending(p, r, s) \/ Notifying(p, r, s)
          PROVE /\ enrichStatus' \in StatusRecord /\ pass' \in [Pass -> PassRecord]
                /\ tagged' \subseteq AudioFile /\ untold' \subseteq AudioFile
                /\ askedKeys' \in Seq({"genre", "cover"} \X CacheKey)
      <3>1. pass' = [pass EXCEPT ![p] = r] /\ enrichStatus' = s
        BY <2>2 DEF Starting, Collecting, Choosing, Tallying, Ending, Notifying
      <3>2. tagged' \in {tagged, {}} /\ untold' \in {untold, {}} /\
              (askedKeys' = askedKeys \/ askedKeys' = <<>>)
        BY <2>2 DEF Starting, Collecting, Choosing, Tallying, Ending, Notifying
      <3>3. pass' \in [Pass -> PassRecord] BY <3>1 DEF EnrichTyped
      <3>4. <<>> \in Seq({"genre", "cover"} \X CacheKey) OBVIOUS
      <3> QED BY <3>1, <3>2, <3>3, <3>4 DEF EnrichTyped
    <2>3. ASSUME NEW p \in Pass, NEW r \in PassRecord, Tagging(p, r)
          PROVE /\ enrichStatus' \in StatusRecord /\ pass' \in [Pass -> PassRecord]
                /\ tagged' \subseteq AudioFile /\ untold' \subseteq AudioFile
                /\ askedKeys' \in Seq({"genre", "cover"} \X CacheKey)
      <3>1. pass' \in [Pass -> PassRecord] BY <2>3 DEF Tagging, EnrichTyped
      <3>2. pass[p].file \in AudioFile BY <2>3 DEF Tagging, FileIsInHand
      <3>3. tagged' \subseteq AudioFile /\ untold' \subseteq AudioFile
        BY <2>3, <3>2 DEF Tagging, EnrichTyped
      <3>4. enrichStatus' \in StatusRecord
        <4>1. ASSUME NEW s \in StatusRecord, NEW k \in TagKind
              PROVE  [s EXCEPT !.added[k] = @ + 1] \in StatusRecord
          BY DEF StatusRecord
        <4> QED BY <2>3, <4>1 DEF Tagging, EnrichTyped
      <3>5. askedKeys' \in Seq({"genre", "cover"} \X CacheKey)
        <4>1. ASSUME NEW k \in CacheKey
              PROVE  /\ Append(askedKeys, <<"genre", k>>) \in Seq({"genre", "cover"} \X CacheKey)
                     /\ Append(askedKeys, <<"cover", k>>) \in Seq({"genre", "cover"} \X CacheKey)
          BY DEF EnrichTyped
        <4> QED BY <2>3, <4>1 DEF Tagging, EnrichTyped
      <3> QED BY <3>1, <3>3, <3>4, <3>5
    <2> QED BY <2>1, <2>2, <2>3, StepIs
  <1> QED BY <1>1, <1>2, <1>5 DEF EnrichTyped

(* A file is taken when a pass turns to it, and given back when it is done. *)
LEMMA InHandStep ==
  ASSUME EnrichInv, [EnrichNext]_enrichVars
  PROVE  FileIsInHand'
  <1> USE DEF EnrichInv
  <1>0. CASE UNCHANGED <<pass, enrichStatus, tagged, askedKeys, untold>>
    BY <1>0 DEF EnrichAssumption, FileIsInHand, InHand, EnrichTyped, PassRecord
  <1>1. ASSUME NEW p \in Pass, NEW r \in PassRecord, NEW s \in StatusRecord, Starting(p, r, s)
        PROVE  FileIsInHand'
    <2>f. \A q \in Pass : pass'[q] = IF q = p THEN r ELSE pass[q] BY <1>1 DEF Starting, EnrichTyped
    <2> QED
      BY <1>1, <2>f, EnrichAssumption DEF Starting, EnrichAssumption, FileIsInHand, InHand,
           EnrichTyped, PassRecord
  <1>2. ASSUME NEW p \in Pass, NEW r \in PassRecord, NEW s \in StatusRecord, Collecting(p, r, s)
        PROVE  FileIsInHand'
    <2>f. \A q \in Pass : pass'[q] = IF q = p THEN r ELSE pass[q]
      BY <1>2 DEF Collecting, EnrichTyped
    <2> QED
      BY <1>2, <2>f, EnrichAssumption DEF Collecting, EnrichAssumption, FileIsInHand, InHand,
           EnrichTyped, PassRecord
  <1>3. ASSUME NEW p \in Pass, NEW r \in PassRecord, NEW s \in StatusRecord, Choosing(p, r, s)
        PROVE  FileIsInHand'
    <2>f. \A q \in Pass : pass'[q] = IF q = p THEN r ELSE pass[q] BY <1>3 DEF Choosing, EnrichTyped
    <2> QED
      BY <1>3, <2>f, EnrichAssumption DEF Choosing, EnrichAssumption, FileIsInHand, InHand,
           EnrichTyped, PassRecord
  <1>4. ASSUME NEW p \in Pass, NEW r \in PassRecord, NEW s \in StatusRecord, Tallying(p, r, s)
        PROVE  FileIsInHand'
    <2>f. \A q \in Pass : pass'[q] = IF q = p THEN r ELSE pass[q] BY <1>4 DEF Tallying, EnrichTyped
    <2> QED
      BY <1>4, <2>f, EnrichAssumption, ZenonT(40)
          DEF Tallying, EnrichAssumption, FileIsInHand, InHand,
           EnrichTyped, PassRecord
  <1>5. ASSUME NEW p \in Pass, NEW r \in PassRecord, NEW s \in StatusRecord, Ending(p, r, s)
        PROVE  FileIsInHand'
    <2>f. \A q \in Pass : pass'[q] = IF q = p THEN r ELSE pass[q] BY <1>5 DEF Ending, EnrichTyped
    <2> QED
      BY <1>5, <2>f, EnrichAssumption DEF Ending, EnrichAssumption, FileIsInHand, InHand,
           EnrichTyped, PassRecord
  <1>6. ASSUME NEW p \in Pass, NEW r \in PassRecord, NEW s \in StatusRecord, Notifying(p, r, s)
        PROVE  FileIsInHand'
    <2>f. \A q \in Pass : pass'[q] = IF q = p THEN r ELSE pass[q] BY <1>6 DEF Notifying, EnrichTyped
    <2> QED
      BY <1>6, <2>f, EnrichAssumption DEF Notifying, EnrichAssumption, FileIsInHand, InHand,
           EnrichTyped, PassRecord
  <1>7. ASSUME NEW p \in Pass, NEW r \in PassRecord, Tagging(p, r) PROVE FileIsInHand'
    <2>f. \A q \in Pass : pass'[q] = IF q = p THEN r ELSE pass[q] BY <1>7 DEF Tagging, EnrichTyped
    <2> QED
      BY <1>7, <2>f, EnrichAssumption DEF Tagging, EnrichAssumption, FileIsInHand, InHand,
           EnrichTyped, PassRecord
  <1> QED BY <1>0, <1>1, <1>2, <1>3, <1>4, <1>5, <1>6, <1>7, StepIs

(* A pass begins when none is running, and ends by saying so.              *)
LEMMA OnePassStep ==
  ASSUME EnrichInv, [EnrichNext]_enrichVars
  PROVE  OnePassAtATime'
  <1> USE DEF EnrichInv
  <1>0. CASE UNCHANGED <<pass, enrichStatus, tagged, askedKeys, untold>>
    BY <1>0 DEF OnePassAtATime, Working, InHand, EnrichTyped, StatusRecord
  <1>1. ASSUME NEW p \in Pass, NEW r \in PassRecord, NEW s \in StatusRecord, Starting(p, r, s)
        PROVE  OnePassAtATime'
    <2>f. \A q \in Pass : pass'[q] = IF q = p THEN r ELSE pass[q] BY <1>1 DEF Starting, EnrichTyped
    <2> QED BY <1>1, <2>f DEF Starting, OnePassAtATime, Working, InHand, EnrichTyped, StatusRecord
  <1>2. ASSUME NEW p \in Pass, NEW r \in PassRecord, NEW s \in StatusRecord, Collecting(p, r, s)
        PROVE  OnePassAtATime'
    <2>f. \A q \in Pass : pass'[q] = IF q = p THEN r ELSE pass[q]
      BY <1>2 DEF Collecting, EnrichTyped
    <2> QED BY <1>2, <2>f DEF Collecting, OnePassAtATime, Working, InHand, EnrichTyped, StatusRecord
  <1>3. ASSUME NEW p \in Pass, NEW r \in PassRecord, NEW s \in StatusRecord, Choosing(p, r, s)
        PROVE  OnePassAtATime'
    <2>f. \A q \in Pass : pass'[q] = IF q = p THEN r ELSE pass[q] BY <1>3 DEF Choosing, EnrichTyped
    <2> QED BY <1>3, <2>f DEF Choosing, OnePassAtATime, Working, InHand, EnrichTyped, StatusRecord
  <1>4. ASSUME NEW p \in Pass, NEW r \in PassRecord, NEW s \in StatusRecord, Tallying(p, r, s)
        PROVE  OnePassAtATime'
    <2>f. \A q \in Pass : pass'[q] = IF q = p THEN r ELSE pass[q] BY <1>4 DEF Tallying, EnrichTyped
    <2> QED BY <1>4, <2>f DEF Tallying, OnePassAtATime, Working, InHand, EnrichTyped, StatusRecord
  <1>5. ASSUME NEW p \in Pass, NEW r \in PassRecord, NEW s \in StatusRecord, Ending(p, r, s)
        PROVE  OnePassAtATime'
    <2>f. \A q \in Pass : pass'[q] = IF q = p THEN r ELSE pass[q] BY <1>5 DEF Ending, EnrichTyped
    <2> QED BY <1>5, <2>f DEF Ending, OnePassAtATime, Working, InHand, EnrichTyped, StatusRecord
  <1>6. ASSUME NEW p \in Pass, NEW r \in PassRecord, NEW s \in StatusRecord, Notifying(p, r, s)
        PROVE  OnePassAtATime'
    <2>f. \A q \in Pass : pass'[q] = IF q = p THEN r ELSE pass[q] BY <1>6 DEF Notifying, EnrichTyped
    <2> QED BY <1>6, <2>f DEF Notifying, OnePassAtATime, Working, InHand, EnrichTyped, StatusRecord
  <1>7. ASSUME NEW p \in Pass, NEW r \in PassRecord, Tagging(p, r) PROVE OnePassAtATime'
    <2>f. \A q \in Pass : pass'[q] = IF q = p THEN r ELSE pass[q] BY <1>7 DEF Tagging, EnrichTyped
    <2> QED
      BY SMTT(60), <1>7, <2>f DEF Tagging, OnePassAtATime, Working, InHand, EnrichTyped,
           StatusRecord
  <1> QED BY <1>0, <1>1, <1>2, <1>3, <1>4, <1>5, <1>6, <1>7, StepIs

(* What is left has not been touched.                                      *)
LEMMA UntouchedStep ==
  ASSUME EnrichInv, [EnrichNext]_enrichVars
  PROVE  RestIsUntouched'
  <1> USE DEF EnrichInv
  <1>0. CASE UNCHANGED <<pass, enrichStatus, tagged, askedKeys, untold>>
    BY <1>0 DEF RestIsUntouched, FileIsInHand, Working, InHand, EnrichTyped, PassRecord,
           OnePassAtATime, FilesAreCounted
  <1>1. ASSUME NEW p \in Pass, NEW r \in PassRecord, NEW s \in StatusRecord, Starting(p, r, s)
        PROVE  RestIsUntouched'
    <2>f. \A q \in Pass : pass'[q] = IF q = p THEN r ELSE pass[q] BY <1>1 DEF Starting, EnrichTyped
    <2> QED
      BY <1>1, <2>f, WorksAlone DEF Starting, RestIsUntouched, FileIsInHand, Working, InHand,
           EnrichTyped, PassRecord, OnePassAtATime, FilesAreCounted
  <1>2. ASSUME NEW p \in Pass, NEW r \in PassRecord, NEW s \in StatusRecord, Collecting(p, r, s)
        PROVE  RestIsUntouched'
    <2>f. \A q \in Pass : pass'[q] = IF q = p THEN r ELSE pass[q]
      BY <1>2 DEF Collecting, EnrichTyped
    <2> QED
      BY <1>2, <2>f, WorksAlone DEF Collecting, RestIsUntouched, FileIsInHand, Working, InHand,
           EnrichTyped, PassRecord, OnePassAtATime, FilesAreCounted
  <1>3. ASSUME NEW p \in Pass, NEW r \in PassRecord, NEW s \in StatusRecord, Choosing(p, r, s)
        PROVE  RestIsUntouched'
    <2>f. \A q \in Pass : pass'[q] = IF q = p THEN r ELSE pass[q] BY <1>3 DEF Choosing, EnrichTyped
    <2> QED
      BY <1>3, <2>f, WorksAlone DEF Choosing, RestIsUntouched, FileIsInHand, Working, InHand,
           EnrichTyped, PassRecord, OnePassAtATime, FilesAreCounted
  <1>4. ASSUME NEW p \in Pass, NEW r \in PassRecord, NEW s \in StatusRecord, Tallying(p, r, s)
        PROVE  RestIsUntouched'
    <2>f. \A q \in Pass : pass'[q] = IF q = p THEN r ELSE pass[q] BY <1>4 DEF Tallying, EnrichTyped
    <2> QED
      BY <1>4, <2>f, WorksAlone DEF Tallying, RestIsUntouched, FileIsInHand, Working, InHand,
           EnrichTyped, PassRecord, OnePassAtATime, FilesAreCounted
  <1>5. ASSUME NEW p \in Pass, NEW r \in PassRecord, NEW s \in StatusRecord, Ending(p, r, s)
        PROVE  RestIsUntouched'
    <2>f. \A q \in Pass : pass'[q] = IF q = p THEN r ELSE pass[q] BY <1>5 DEF Ending, EnrichTyped
    <2> QED
      BY <1>5, <2>f, WorksAlone DEF Ending, RestIsUntouched, FileIsInHand, Working, InHand,
           EnrichTyped, PassRecord, OnePassAtATime, FilesAreCounted
  <1>6. ASSUME NEW p \in Pass, NEW r \in PassRecord, NEW s \in StatusRecord, Notifying(p, r, s)
        PROVE  RestIsUntouched'
    <2>f. \A q \in Pass : pass'[q] = IF q = p THEN r ELSE pass[q] BY <1>6 DEF Notifying, EnrichTyped
    <2> QED
      BY <1>6, <2>f, WorksAlone DEF Notifying, RestIsUntouched, FileIsInHand, Working, InHand,
           EnrichTyped, PassRecord, OnePassAtATime, FilesAreCounted
  <1>7. ASSUME NEW p \in Pass, NEW r \in PassRecord, Tagging(p, r) PROVE RestIsUntouched'
    <2>f. \A q \in Pass : pass'[q] = IF q = p THEN r ELSE pass[q] BY <1>7 DEF Tagging, EnrichTyped
    <2> QED
      BY <1>7, <2>f, WorksAlone DEF Tagging, RestIsUntouched, FileIsInHand, Working, InHand,
           EnrichTyped, PassRecord, OnePassAtATime, FilesAreCounted
  <1> QED BY <1>0, <1>1, <1>2, <1>3, <1>4, <1>5, <1>6, <1>7, StepIs

(* Each file the walk obtained is still to come, in hand or counted.          *)
LEMMA CountedStep ==
  ASSUME EnrichInv, [EnrichNext]_enrichVars
  PROVE  FilesAreCounted'
  <1> USE DEF EnrichInv
  <1>0. CASE UNCHANGED <<pass, enrichStatus, tagged, askedKeys, untold>>
    BY <1>0 DEF FilesAreCounted, Working, InHand, EnrichTyped, PassRecord, StatusRecord,
           OnePassAtATime
  <1>1. ASSUME NEW p \in Pass, NEW r \in PassRecord, NEW s \in StatusRecord, Starting(p, r, s)
        PROVE  FilesAreCounted'
    <2>f. \A q \in Pass : pass'[q] = IF q = p THEN r ELSE pass[q] BY <1>1 DEF Starting, EnrichTyped
    <2> QED
      BY <1>1, <2>f, WorksAlone DEF Starting, FilesAreCounted, Working, InHand, EnrichTyped,
           PassRecord, StatusRecord, OnePassAtATime
  <1>2. ASSUME NEW p \in Pass, NEW r \in PassRecord, NEW s \in StatusRecord, Collecting(p, r, s)
        PROVE  FilesAreCounted'
    <2>f. \A q \in Pass : pass'[q] = IF q = p THEN r ELSE pass[q]
      BY <1>2 DEF Collecting, EnrichTyped
    <2>1. Working(p) /\ pass[p].pc = "collect" BY <1>2 DEF Collecting, Working
    <2>4. \A q \in Pass \ {p} : ~Working(q)' BY <2>1, <2>f, WorksAlone DEF Working
    <2>5. enrichStatus.processed = 0 BY <2>1 DEF FilesAreCounted
    <2>6. enrichStatus'.processed = 0 /\ enrichStatus'.total = Cardinality(r.files) /\ pass'[p] = r /\
            r.pc = "next"
      BY <1>2, <2>5, <2>f DEF Collecting
    <2>7. Cardinality(r.files) \in Nat
      BY EnrichAssumption, FS_Subset, FS_CardinalityType DEF EnrichAssumption, PassRecord
    <2>8. ~InHand(p)' BY <2>6 DEF InHand
    <2> QED BY <2>4, <2>6, <2>7, <2>8 DEF FilesAreCounted
  <1>3. ASSUME NEW p \in Pass, NEW r \in PassRecord, NEW s \in StatusRecord, Choosing(p, r, s)
        PROVE  FilesAreCounted'
    <2>f. \A q \in Pass : pass'[q] = IF q = p THEN r ELSE pass[q] BY <1>3 DEF Choosing, EnrichTyped
    <2>c. IsFiniteSet(pass[p].files) /\ Cardinality(pass[p].files) \in Nat
      BY EnrichAssumption, FS_Subset, FS_CardinalityType DEF EnrichAssumption, EnrichTyped,
             PassRecord
    <2>1. PICK f \in pass[p].files :
            /\ r.files = pass[p].files \ {f}
            /\ \/ r.pc = "lyrics" /\ s = enrichStatus
               \/ r.pc = "next" /\ s.processed = enrichStatus.processed + 1
      BY <1>3 DEF Choosing
    <2>2. Cardinality(r.files) = Cardinality(pass[p].files) - 1 /\ Cardinality(r.files) \in Nat
      BY <2>1, <2>c, FS_RemoveElement, FS_CardinalityType
    <2>3. Working(p) /\ pass[p].pc = "next" BY <1>3 DEF Choosing, Working
    <2>4. \A q \in Pass \ {p} : ~Working(q)' BY <2>3, <2>f, WorksAlone DEF Working
    <2>5. enrichStatus.processed + Cardinality(pass[p].files) = enrichStatus.total
      <3>1. ~InHand(p) /\ pass[p].pc # "collect" BY <2>3 DEF InHand
      <3>2. enrichStatus.processed + Cardinality(pass[p].files) + 0 = enrichStatus.total
        BY <2>3, <3>1 DEF FilesAreCounted
      <3>3. enrichStatus.processed \in Nat BY DEF EnrichTyped, StatusRecord
      <3> QED BY <2>c, <3>2, <3>3
    <2>6. enrichStatus.processed \in Nat /\ s.processed \in Nat /\ s.total = enrichStatus.total
      BY <1>3 DEF EnrichTyped, StatusRecord, Choosing
    <2>7. enrichStatus' = s BY <1>3 DEF Choosing
    <2>8. s.processed + Cardinality(r.files) + (IF r.pc = "lyrics" THEN 1 ELSE 0) = s.total
      BY <2>c, <2>1, <2>2, <2>5, <2>6
    <2>9. pass'[p] = r BY <2>f
    <2>10. InHand(p)' <=> r.pc = "lyrics" BY <2>1, <2>9 DEF InHand
    <2>11. r.pc # "collect" BY <2>1
    <2> QED BY <2>4, <2>7, <2>8, <2>9, <2>10, <2>11 DEF FilesAreCounted
  <1>4. ASSUME NEW p \in Pass, NEW r \in PassRecord, NEW s \in StatusRecord, Tallying(p, r, s)
        PROVE  FilesAreCounted'
    <2>f. \A q \in Pass : pass'[q] = IF q = p THEN r ELSE pass[q] BY <1>4 DEF Tallying, EnrichTyped
    <2>c. IsFiniteSet(pass[p].files) /\ Cardinality(pass[p].files) \in Nat
      BY EnrichAssumption, FS_Subset, FS_CardinalityType DEF EnrichAssumption, EnrichTyped,
             PassRecord
    <2>1. Working(p) /\ InHand(p) /\ pass[p].pc = "tally" BY <1>4 DEF Tallying, Working, InHand
    <2>4. \A q \in Pass \ {p} : ~Working(q)' BY <2>1, <2>f, WorksAlone DEF Working
    <2>5. enrichStatus.processed + Cardinality(pass[p].files) + 1 = enrichStatus.total
      BY <2>1 DEF FilesAreCounted
    <2>6. /\ enrichStatus'.processed = enrichStatus.processed + 1 /\
               enrichStatus'.total = enrichStatus.total
          /\ pass'[p] = r /\ r.pc = "next" /\ r.files = pass[p].files
      BY <1>4, <2>f DEF Tallying
    <2>7. enrichStatus.processed \in Nat BY DEF EnrichTyped, StatusRecord
    <2>8. ~InHand(p)' BY <2>6 DEF InHand
    <2>9. enrichStatus'.processed + Cardinality(r.files) + 0 = enrichStatus'.total
      BY <2>c, <2>5, <2>6, <2>7
    <2> QED BY <2>4, <2>6, <2>8, <2>9 DEF FilesAreCounted
  <1>5. ASSUME NEW p \in Pass, NEW r \in PassRecord, NEW s \in StatusRecord, Ending(p, r, s)
        PROVE  FilesAreCounted'
    <2>f. \A q \in Pass : pass'[q] = IF q = p THEN r ELSE pass[q] BY <1>5 DEF Ending, EnrichTyped
    <2> QED
      BY <1>5, <2>f, WorksAlone DEF Ending, FilesAreCounted, Working, InHand, EnrichTyped,
           PassRecord, StatusRecord, OnePassAtATime
  <1>6. ASSUME NEW p \in Pass, NEW r \in PassRecord, NEW s \in StatusRecord, Notifying(p, r, s)
        PROVE  FilesAreCounted'
    <2>f. \A q \in Pass : pass'[q] = IF q = p THEN r ELSE pass[q] BY <1>6 DEF Notifying, EnrichTyped
    <2> QED
      BY <1>6, <2>f, WorksAlone DEF Notifying, FilesAreCounted, Working, InHand, EnrichTyped,
           PassRecord, StatusRecord, OnePassAtATime
  <1>7. ASSUME NEW p \in Pass, NEW r \in PassRecord, Tagging(p, r) PROVE FilesAreCounted'
    <2>f. \A q \in Pass : pass'[q] = IF q = p THEN r ELSE pass[q] BY <1>7 DEF Tagging, EnrichTyped
    <2>1. UNCHANGED enrichStatus \/ \E k \in TagKind :
            enrichStatus' = [enrichStatus EXCEPT !.added[k] = @ + 1]
      BY <1>7 DEF Tagging
    <2>2. enrichStatus'.processed = enrichStatus.processed /\ enrichStatus'.total = enrichStatus.total
      BY <2>1 DEF EnrichTyped, StatusRecord
    <2>3. Working(p) /\ Working(p)' /\ pass[p].pc # "collect" /\ r.pc # "collect" /\ InHand(p)' /\ InHand(p)
      BY <1>7, <2>f DEF Tagging, Working, InHand
    <2>4. \A q \in Pass \ {p} : ~Working(q)' BY <2>3, <2>f, WorksAlone DEF Working
    <2> QED BY <1>7, <2>2, <2>3, <2>4, <2>f DEF Tagging, FilesAreCounted
  <1> QED BY <1>0, <1>1, <1>2, <1>3, <1>4, <1>5, <1>6, <1>7, StepIs

(* A file is tagged, skipped or failed, and nothing else.                  *)
LEMMA SortedStep ==
  ASSUME EnrichInv, [EnrichNext]_enrichVars
  PROVE  DoneIsSorted'
  <1> USE DEF EnrichInv
  <1>0. CASE UNCHANGED <<pass, enrichStatus, tagged, askedKeys, untold>>
    BY <1>0 DEF DoneIsSorted, InHand
  <1>1. ASSUME NEW p \in Pass, NEW r \in PassRecord, NEW s \in StatusRecord, Starting(p, r, s)
        PROVE  DoneIsSorted'
    <2>f. \A q \in Pass : pass'[q] = IF q = p THEN r ELSE pass[q] BY <1>1 DEF Starting, EnrichTyped
    <2>1. \A q \in Pass : ~Working(q) BY <1>1 DEF Starting, OnePassAtATime
    <2>2. \A q \in Pass : ~InHand(q)' BY <1>1, <2>1, <2>f DEF Starting, Working, InHand
    <2>3. Cardinality({}) = 0 BY FS_EmptySet
    <2>4. enrichStatus'.processed = 0 /\ enrichStatus'.skipped = 0 /\ enrichStatus'.failed = 0 /\
            tagged' = {}
      BY <1>1 DEF Starting
    <2> QED BY <2>2, <2>3, <2>4 DEF DoneIsSorted
  <1>2. ASSUME NEW p \in Pass, NEW r \in PassRecord, NEW s \in StatusRecord, Collecting(p, r, s)
        PROVE  DoneIsSorted'
    <2>f. \A q \in Pass : pass'[q] = IF q = p THEN r ELSE pass[q]
      BY <1>2 DEF Collecting, EnrichTyped
    <2>n. \A q \in Pass \ {p} : ~InHand(q)'
      BY <1>2, <2>f, WorksAlone DEF Collecting, Working, InHand
    <2>t. IsFiniteSet(tagged) /\ Cardinality(tagged) \in Nat
      BY EnrichAssumption, FS_Subset, FS_CardinalityType DEF EnrichAssumption, EnrichTyped
    <2>g. (\E q \in Pass : InHand(q) /\ pass[q].wrote) <=> FALSE
      BY <1>2, WorksAlone DEF Collecting, Working, InHand
    <2>h. (\E q \in Pass : InHand(q)' /\ pass'[q].wrote) <=> FALSE
      BY <1>2, <2>f, <2>n DEF Collecting, InHand
    <2>s. /\ enrichStatus.processed \in Nat /\ enrichStatus.skipped \in Nat /\ enrichStatus.failed \in Nat
          /\ s.processed \in Nat /\ s.skipped \in Nat /\ s.failed \in Nat
      BY DEF EnrichTyped, StatusRecord
    <2>o. enrichStatus.processed + (IF FALSE THEN 1 ELSE 0)
            = enrichStatus.skipped + enrichStatus.failed + Cardinality(tagged)
      BY <2>g DEF DoneIsSorted
    <2>p. enrichStatus'.processed + (IF FALSE THEN 1 ELSE 0)
            = enrichStatus'.skipped + enrichStatus'.failed + Cardinality(tagged')
      BY <1>2, <2>o, <2>s, <2>t DEF Collecting
    <2> QED BY <2>h, <2>p DEF DoneIsSorted, InHand
  <1>3. ASSUME NEW p \in Pass, NEW r \in PassRecord, NEW s \in StatusRecord, Choosing(p, r, s)
        PROVE  DoneIsSorted'
    <2>f. \A q \in Pass : pass'[q] = IF q = p THEN r ELSE pass[q] BY <1>3 DEF Choosing, EnrichTyped
    <2>n. \A q \in Pass \ {p} : ~InHand(q)' BY <1>3, <2>f, WorksAlone DEF Choosing, Working, InHand
    <2>t. IsFiniteSet(tagged) /\ Cardinality(tagged) \in Nat
      BY EnrichAssumption, FS_Subset, FS_CardinalityType DEF EnrichAssumption, EnrichTyped
    <2>g. (\E q \in Pass : InHand(q) /\ pass[q].wrote) <=> FALSE
      BY <1>3, WorksAlone DEF Choosing, Working, InHand
    <2>h. (\E q \in Pass : InHand(q)' /\ pass'[q].wrote) <=> FALSE
      BY <1>3, <2>f, <2>n DEF Choosing, InHand
    <2>s. /\ enrichStatus.processed \in Nat /\ enrichStatus.skipped \in Nat /\ enrichStatus.failed \in Nat
          /\ s.processed \in Nat /\ s.skipped \in Nat /\ s.failed \in Nat
      BY DEF EnrichTyped, StatusRecord
    <2>o. enrichStatus.processed + (IF FALSE THEN 1 ELSE 0)
            = enrichStatus.skipped + enrichStatus.failed + Cardinality(tagged)
      BY <2>g DEF DoneIsSorted
    <2>p. enrichStatus'.processed + (IF FALSE THEN 1 ELSE 0)
            = enrichStatus'.skipped + enrichStatus'.failed + Cardinality(tagged')
      BY <1>3, <2>o, <2>s, <2>t DEF Choosing
    <2> QED BY <2>h, <2>p DEF DoneIsSorted, InHand
  <1>4. ASSUME NEW p \in Pass, NEW r \in PassRecord, NEW s \in StatusRecord, Tallying(p, r, s)
        PROVE  DoneIsSorted'
    <2>f. \A q \in Pass : pass'[q] = IF q = p THEN r ELSE pass[q] BY <1>4 DEF Tallying, EnrichTyped
    <2>n. \A q \in Pass \ {p} : ~InHand(q)' BY <1>4, <2>f, WorksAlone DEF Tallying, Working, InHand
    <2>t. IsFiniteSet(tagged) /\ Cardinality(tagged) \in Nat
      BY EnrichAssumption, FS_Subset, FS_CardinalityType DEF EnrichAssumption, EnrichTyped
    <2>g. (\E q \in Pass : InHand(q) /\ pass[q].wrote) <=> pass[p].wrote
      BY <1>4, WorksAlone DEF Tallying, Working, InHand
    <2>h. (\E q \in Pass : InHand(q)' /\ pass'[q].wrote) <=> FALSE
      BY <1>4, <2>f, <2>n DEF Tallying, InHand
    <2>s. /\ enrichStatus.processed \in Nat /\ enrichStatus.skipped \in Nat /\ enrichStatus.failed \in Nat
          /\ s.processed \in Nat /\ s.skipped \in Nat /\ s.failed \in Nat
      BY DEF EnrichTyped, StatusRecord
    <2>o. enrichStatus.processed + (IF pass[p].wrote THEN 1 ELSE 0)
            = enrichStatus.skipped + enrichStatus.failed + Cardinality(tagged)
      BY <2>g DEF DoneIsSorted
    <2>p. enrichStatus'.processed + (IF FALSE THEN 1 ELSE 0)
            = enrichStatus'.skipped + enrichStatus'.failed + Cardinality(tagged')
      BY <1>4, <2>o, <2>s, <2>t DEF Tallying
    <2> QED BY <2>h, <2>p DEF DoneIsSorted, InHand
  <1>5. ASSUME NEW p \in Pass, NEW r \in PassRecord, NEW s \in StatusRecord, Ending(p, r, s)
        PROVE  DoneIsSorted'
    <2>f. \A q \in Pass : pass'[q] = IF q = p THEN r ELSE pass[q] BY <1>5 DEF Ending, EnrichTyped
    <2>n. \A q \in Pass \ {p} : ~InHand(q)' BY <1>5, <2>f, WorksAlone DEF Ending, Working, InHand
    <2>t. IsFiniteSet(tagged) /\ Cardinality(tagged) \in Nat
      BY EnrichAssumption, FS_Subset, FS_CardinalityType DEF EnrichAssumption, EnrichTyped
    <2>g. (\E q \in Pass : InHand(q) /\ pass[q].wrote) <=> FALSE
      BY <1>5, WorksAlone DEF Ending, Working, InHand
    <2>h. (\E q \in Pass : InHand(q)' /\ pass'[q].wrote) <=> FALSE
      BY <1>5, <2>f, <2>n DEF Ending, InHand
    <2>s. /\ enrichStatus.processed \in Nat /\ enrichStatus.skipped \in Nat /\ enrichStatus.failed \in Nat
          /\ s.processed \in Nat /\ s.skipped \in Nat /\ s.failed \in Nat
      BY DEF EnrichTyped, StatusRecord
    <2>o. enrichStatus.processed + (IF FALSE THEN 1 ELSE 0)
            = enrichStatus.skipped + enrichStatus.failed + Cardinality(tagged)
      BY <2>g DEF DoneIsSorted
    <2>p. enrichStatus'.processed + (IF FALSE THEN 1 ELSE 0)
            = enrichStatus'.skipped + enrichStatus'.failed + Cardinality(tagged')
      BY <1>5, <2>o, <2>s, <2>t DEF Ending
    <2> QED BY <2>h, <2>p DEF DoneIsSorted, InHand
  <1>6. ASSUME NEW p \in Pass, NEW r \in PassRecord, NEW s \in StatusRecord, Notifying(p, r, s)
        PROVE  DoneIsSorted'
    <2>f. \A q \in Pass : pass'[q] = IF q = p THEN r ELSE pass[q] BY <1>6 DEF Notifying, EnrichTyped
    <2>1. \A q \in Pass : InHand(q)' <=> InHand(q) BY <1>6, <2>f DEF Notifying, InHand
    <2>2. \A q \in Pass : InHand(q) => pass'[q] = pass[q] BY <1>6, <2>f DEF Notifying, InHand
    <2>3. UNCHANGED <<enrichStatus, tagged>> BY <1>6 DEF Notifying
    <2> QED BY <2>1, <2>2, <2>3 DEF DoneIsSorted
  <1>7. ASSUME NEW p \in Pass, NEW r \in PassRecord, Tagging(p, r) PROVE DoneIsSorted'
    <2>f. \A q \in Pass : pass'[q] = IF q = p THEN r ELSE pass[q] BY <1>7 DEF Tagging, EnrichTyped
    <2>n. \A q \in Pass \ {p} : ~InHand(q)' BY <1>7, <2>f, WorksAlone DEF Tagging, Working, InHand
    <2>t. IsFiniteSet(tagged) /\ Cardinality(tagged) \in Nat
      BY EnrichAssumption, FS_Subset, FS_CardinalityType DEF EnrichAssumption, EnrichTyped
    <2>g. (\E q \in Pass : InHand(q) /\ pass[q].wrote) <=> pass[p].wrote
      BY <1>7, WorksAlone DEF Tagging, Working, InHand
    <2>h. (\E q \in Pass : InHand(q)' /\ pass'[q].wrote) <=> r.wrote
      BY <1>7, <2>f, <2>n DEF Tagging, InHand
    <2>s. enrichStatus.processed \in Nat /\ enrichStatus.skipped \in Nat /\ enrichStatus.failed \in Nat
      BY DEF EnrichTyped, StatusRecord
    <2>1. UNCHANGED enrichStatus \/ \E k \in TagKind :
            enrichStatus' = [enrichStatus EXCEPT !.added[k] = @ + 1]
      BY <1>7 DEF Tagging
    <2>2. /\ enrichStatus'.processed = enrichStatus.processed
          /\ enrichStatus'.skipped = enrichStatus.skipped /\ enrichStatus'.failed = enrichStatus.failed
      BY <2>1 DEF EnrichTyped, StatusRecord
    <2>o. enrichStatus.processed + (IF pass[p].wrote THEN 1 ELSE 0)
            = enrichStatus.skipped + enrichStatus.failed + Cardinality(tagged)
      BY <2>g DEF DoneIsSorted
    <2>3. pass[p].wrote <=> pass[p].file \in tagged
      BY <1>7 DEF RestIsUntouched, Tagging, Working, InHand
    <2>4. Cardinality(tagged \cup {pass[p].file}) = IF pass[p].file \in tagged THEN Cardinality(tagged)
                                                    ELSE Cardinality(tagged) + 1
      BY <2>t, FS_AddElement
    <2>5. CASE tagged' = tagged /\ r.wrote = pass[p].wrote
      BY <2>2, <2>h, <2>o, <2>5 DEF DoneIsSorted, InHand
    <2>6. CASE tagged' = tagged \cup {pass[p].file} /\ r.wrote
      <3>1. enrichStatus'.processed + 1 = enrichStatus'.skipped + enrichStatus'.failed + Cardinality(tagged')
        BY <2>2, <2>3, <2>4, <2>6, <2>o, <2>s, <2>t
      <3> QED BY <2>6, <2>h, <3>1 DEF DoneIsSorted, InHand
    <2> QED BY <1>7, <2>5, <2>6 DEF Tagging
  <1> QED BY <1>0, <1>1, <1>2, <1>3, <1>4, <1>5, <1>6, <1>7, StepIs

(* A key is asked for when the cache lacks it, and cached with its answer. *)
LEMMA AskedStep ==
  ASSUME EnrichInv, [EnrichNext]_enrichVars
  PROVE  AskedOnce' /\ AskedIsCached'
  <1> USE DEF EnrichInv
  <1>0. CASE UNCHANGED <<pass, enrichStatus, tagged, askedKeys, untold>>
    BY <1>0 DEF AskedOnce, AskedIsCached, Working, IsInjective, EnrichTyped
  <1>1. ASSUME NEW p \in Pass, NEW r \in PassRecord, NEW s \in StatusRecord, Starting(p, r, s)
        PROVE  AskedOnce' /\ AskedIsCached'
    <2>f. \A q \in Pass : pass'[q] = IF q = p THEN r ELSE pass[q] BY <1>1 DEF Starting, EnrichTyped
    <2> QED BY <1>1, <2>f DEF Starting, AskedOnce, AskedIsCached, Working, IsInjective, EnrichTyped
  <1>2. ASSUME NEW p \in Pass, NEW r \in PassRecord, NEW s \in StatusRecord, Collecting(p, r, s)
        PROVE  AskedOnce' /\ AskedIsCached'
    <2>f. \A q \in Pass : pass'[q] = IF q = p THEN r ELSE pass[q]
      BY <1>2 DEF Collecting, EnrichTyped
    <2> QED
      BY <1>2, <2>f DEF Collecting, AskedOnce, AskedIsCached, Working, IsInjective, EnrichTyped
  <1>3. ASSUME NEW p \in Pass, NEW r \in PassRecord, NEW s \in StatusRecord, Choosing(p, r, s)
        PROVE  AskedOnce' /\ AskedIsCached'
    <2>f. \A q \in Pass : pass'[q] = IF q = p THEN r ELSE pass[q] BY <1>3 DEF Choosing, EnrichTyped
    <2> QED BY <1>3, <2>f DEF Choosing, AskedOnce, AskedIsCached, Working, IsInjective, EnrichTyped
  <1>4. ASSUME NEW p \in Pass, NEW r \in PassRecord, NEW s \in StatusRecord, Tallying(p, r, s)
        PROVE  AskedOnce' /\ AskedIsCached'
    <2>f. \A q \in Pass : pass'[q] = IF q = p THEN r ELSE pass[q] BY <1>4 DEF Tallying, EnrichTyped
    <2> QED BY <1>4, <2>f DEF Tallying, AskedOnce, AskedIsCached, Working, IsInjective, EnrichTyped
  <1>5. ASSUME NEW p \in Pass, NEW r \in PassRecord, NEW s \in StatusRecord, Ending(p, r, s)
        PROVE  AskedOnce' /\ AskedIsCached'
    <2>f. \A q \in Pass : pass'[q] = IF q = p THEN r ELSE pass[q] BY <1>5 DEF Ending, EnrichTyped
    <2> QED BY <1>5, <2>f DEF Ending, AskedOnce, AskedIsCached, Working, IsInjective, EnrichTyped
  <1>6. ASSUME NEW p \in Pass, NEW r \in PassRecord, NEW s \in StatusRecord, Notifying(p, r, s)
        PROVE  AskedOnce' /\ AskedIsCached'
    <2>f. \A q \in Pass : pass'[q] = IF q = p THEN r ELSE pass[q] BY <1>6 DEF Notifying, EnrichTyped
    <2> QED BY <1>6, <2>f DEF Notifying, AskedOnce, AskedIsCached, Working, IsInjective, EnrichTyped
  <1>7. ASSUME NEW p \in Pass, NEW r \in PassRecord, Tagging(p, r) PROVE AskedOnce' /\ AskedIsCached'
    <2>f. \A q \in Pass : pass'[q] = IF q = p THEN r ELSE pass[q] BY <1>7 DEF Tagging, EnrichTyped
    <2>1. Working(p) BY <1>7 DEF Tagging, Working, InHand
    <2>2. \A q \in Pass \ {p} : ~Working(q)' BY <2>1, <2>f, WorksAlone DEF Working
    <2>3. askedKeys \in Seq({"genre", "cover"} \X CacheKey) /\ Len(askedKeys) \in Nat
      BY DEF EnrichTyped
    <2>4. /\ DOMAIN pass[p].genreCache \subseteq DOMAIN r.genreCache
          /\ DOMAIN pass[p].coverCache \subseteq DOMAIN r.coverCache /\ pass'[p] = r
      BY <1>7, <2>f DEF Tagging
    <2>5. \A i \in DOMAIN askedKeys :
            askedKeys[i][2] \in DOMAIN (IF askedKeys[i][1] = "genre" THEN pass[p].genreCache
                                        ELSE pass[p].coverCache)
      BY <2>1 DEF AskedIsCached
    <2>6. \A i \in DOMAIN askedKeys :
            askedKeys[i][2] \in DOMAIN (IF askedKeys[i][1] = "genre" THEN r.genreCache ELSE r.coverCache)
      BY <2>4, <2>5
    <2>7. CASE askedKeys' = askedKeys
      BY <2>2, <2>4, <2>6, <2>7 DEF AskedOnce, AskedIsCached, IsInjective
    <2>8. ASSUME NEW kind \in {"genre", "cover"}, NEW k \in CacheKey,
                   askedKeys' = Append(askedKeys, <<kind, k>>),
                 k \notin DOMAIN (IF kind = "genre" THEN pass[p].genreCache ELSE pass[p].coverCache),
                 k \in DOMAIN (IF kind = "genre" THEN r.genreCache ELSE r.coverCache)
          PROVE AskedOnce' /\ AskedIsCached'
      <3>1. /\ DOMAIN askedKeys = 1..Len(askedKeys) /\ DOMAIN askedKeys' = 1..(Len(askedKeys) + 1)
            /\ askedKeys'[Len(askedKeys) + 1] = <<kind, k>>
            /\ \A i \in 1..Len(askedKeys) : askedKeys'[i] = askedKeys[i]
        BY <2>3, <2>8
      <3>2. \A i \in DOMAIN askedKeys : askedKeys[i] # <<kind, k>> BY <2>5, <2>8
      <3>3. \A i, j \in DOMAIN askedKeys : askedKeys[i] = askedKeys[j] => i = j
        BY DEF AskedOnce, IsInjective
      <3>4. \A i, j \in DOMAIN askedKeys' : askedKeys'[i] = askedKeys'[j] => i = j
        <4>1. \A i \in DOMAIN askedKeys' : i \in DOMAIN askedKeys \/ i = Len(askedKeys) + 1
          BY <2>3, <3>1
        <4> QED BY <3>1, <3>2, <3>3, <4>1
      <3>5. <<kind, k>>[1] = kind /\ <<kind, k>>[2] = k OBVIOUS
      <3>6. \A i \in DOMAIN askedKeys' :
              askedKeys'[i][2] \in DOMAIN (IF askedKeys'[i][1] = "genre" THEN r.genreCache ELSE r.coverCache)
        <4>1. \A i \in DOMAIN askedKeys' : i \in DOMAIN askedKeys \/ i = Len(askedKeys) + 1
          BY <2>3, <3>1
        <4> QED BY <2>6, <2>8, <3>1, <3>5, <4>1
      <3> QED BY <2>2, <2>4, <3>4, <3>6 DEF AskedOnce, AskedIsCached, IsInjective
    <2> QED BY <1>7, <2>7, <2>8 DEF Tagging
  <1> QED BY <1>0, <1>1, <1>2, <1>3, <1>4, <1>5, <1>6, <1>7, StepIs

(* A pass takes no file when it has done as many as it may.                *)
LEMMA LimitStep ==
  ASSUME EnrichInv, [EnrichNext]_enrichVars
  PROVE  LimitHolds'
  <1> USE DEF EnrichInv
  <1>0. CASE UNCHANGED <<pass, enrichStatus, tagged, askedKeys, untold>>
    BY <1>0 DEF EnrichAssumption, LimitHolds, Working, InHand, Finished, EnrichTyped, PassRecord,
           StatusRecord, FilesAreCounted
  <1>1. ASSUME NEW p \in Pass, NEW r \in PassRecord, NEW s \in StatusRecord, Starting(p, r, s)
        PROVE  LimitHolds'
    <2>f. \A q \in Pass : pass'[q] = IF q = p THEN r ELSE pass[q] BY <1>1 DEF Starting, EnrichTyped
    <2> QED
      BY <1>1, <2>f, WorksAlone, EnrichAssumption DEF Starting, EnrichAssumption, LimitHolds,
           Working, InHand, Finished, EnrichTyped, PassRecord, StatusRecord, FilesAreCounted
  <1>2. ASSUME NEW p \in Pass, NEW r \in PassRecord, NEW s \in StatusRecord, Collecting(p, r, s)
        PROVE  LimitHolds'
    <2>f. \A q \in Pass : pass'[q] = IF q = p THEN r ELSE pass[q]
      BY <1>2 DEF Collecting, EnrichTyped
    <2> QED
      BY <1>2, <2>f, WorksAlone, EnrichAssumption DEF Collecting, EnrichAssumption, LimitHolds,
           Working, InHand, Finished, EnrichTyped, PassRecord, StatusRecord, FilesAreCounted
  <1>3. ASSUME NEW p \in Pass, NEW r \in PassRecord, NEW s \in StatusRecord, Choosing(p, r, s)
        PROVE  LimitHolds'
    <2>f. \A q \in Pass : pass'[q] = IF q = p THEN r ELSE pass[q] BY <1>3 DEF Choosing, EnrichTyped
    <2>1. Working(p) /\ pass[p].pc = "next" BY <1>3 DEF Choosing, Working
    <2>2. \A q \in Pass \ {p} : ~Working(q)' BY <2>1, <2>f, WorksAlone DEF Working
    <2>3. /\ pass'[p] = r /\ r.opts = pass[p].opts /\ enrichStatus' = s
          /\ \/ r.pc = "lyrics" /\ s = enrichStatus
             \/ r.pc = "next" /\ s.processed = enrichStatus.processed + 1
      BY <1>3, <2>f DEF Choosing
    <2>4. enrichStatus.processed \in Nat /\ pass[p].opts.limit \in Nat
      BY EnrichAssumption DEF EnrichAssumption, EnrichTyped, StatusRecord, PassRecord
    <2>5. pass[p].opts.limit > 0 => enrichStatus.processed < pass[p].opts.limit
      BY <1>3, <2>4 DEF Choosing, Finished
    <2>6. InHand(p)' <=> r.pc = "lyrics" BY <2>3 DEF InHand
    <2>7. r.opts.limit > 0 => s.processed + (IF InHand(p)' THEN 1 ELSE 0) <= r.opts.limit
      BY <2>3, <2>4, <2>5, <2>6
    <2> QED BY <2>2, <2>3, <2>7 DEF LimitHolds
  <1>4. ASSUME NEW p \in Pass, NEW r \in PassRecord, NEW s \in StatusRecord, Tallying(p, r, s)
        PROVE  LimitHolds'
    <2>f. \A q \in Pass : pass'[q] = IF q = p THEN r ELSE pass[q] BY <1>4 DEF Tallying, EnrichTyped
    <2> QED
      BY <1>4, <2>f, WorksAlone, EnrichAssumption DEF Tallying, EnrichAssumption, LimitHolds,
           Working, InHand, Finished, EnrichTyped, PassRecord, StatusRecord, FilesAreCounted
  <1>5. ASSUME NEW p \in Pass, NEW r \in PassRecord, NEW s \in StatusRecord, Ending(p, r, s)
        PROVE  LimitHolds'
    <2>f. \A q \in Pass : pass'[q] = IF q = p THEN r ELSE pass[q] BY <1>5 DEF Ending, EnrichTyped
    <2> QED
      BY <1>5, <2>f, WorksAlone, EnrichAssumption DEF Ending, EnrichAssumption, LimitHolds,
           Working, InHand, Finished, EnrichTyped, PassRecord, StatusRecord, FilesAreCounted
  <1>6. ASSUME NEW p \in Pass, NEW r \in PassRecord, NEW s \in StatusRecord, Notifying(p, r, s)
        PROVE  LimitHolds'
    <2>f. \A q \in Pass : pass'[q] = IF q = p THEN r ELSE pass[q] BY <1>6 DEF Notifying, EnrichTyped
    <2> QED
      BY <1>6, <2>f, WorksAlone, EnrichAssumption DEF Notifying, EnrichAssumption, LimitHolds,
           Working, InHand, Finished, EnrichTyped, PassRecord, StatusRecord, FilesAreCounted
  <1>7. ASSUME NEW p \in Pass, NEW r \in PassRecord, Tagging(p, r) PROVE LimitHolds'
    <2>f. \A q \in Pass : pass'[q] = IF q = p THEN r ELSE pass[q] BY <1>7 DEF Tagging, EnrichTyped
    <2> QED
      BY SMTT(60), <1>7, <2>f, WorksAlone, EnrichAssumption DEF Tagging, EnrichAssumption,
           LimitHolds, Working, InHand, Finished, EnrichTyped, PassRecord, StatusRecord,
           FilesAreCounted
  <1> QED BY <1>0, <1>1, <1>2, <1>3, <1>4, <1>5, <1>6, <1>7, StepIs

(* The pass that tags is the one that asks for the rescan, later.          *)
LEMMA TellStep ==
  ASSUME EnrichInv, [EnrichNext]_enrichVars
  PROVE  StillToTell'
  <1> USE DEF EnrichInv
  <1>0. CASE UNCHANGED <<pass, enrichStatus, tagged, askedKeys, untold>>
    BY <1>0 DEF StillToTell, Working, WroteTags, EnrichTyped, StatusRecord, OnePassAtATime,
           TagKind, InHand
  <1>1. ASSUME NEW p \in Pass, NEW r \in PassRecord, NEW s \in StatusRecord, Starting(p, r, s)
        PROVE  StillToTell'
    <2>f. \A q \in Pass : pass'[q] = IF q = p THEN r ELSE pass[q] BY <1>1 DEF Starting, EnrichTyped
    <2> QED
      BY <1>1, <2>f, WorksAlone DEF Starting, StillToTell, Working, WroteTags, EnrichTyped,
           StatusRecord, OnePassAtATime, TagKind, InHand
  <1>2. ASSUME NEW p \in Pass, NEW r \in PassRecord, NEW s \in StatusRecord, Collecting(p, r, s)
        PROVE  StillToTell'
    <2>f. \A q \in Pass : pass'[q] = IF q = p THEN r ELSE pass[q]
      BY <1>2 DEF Collecting, EnrichTyped
    <2> QED
      BY <1>2, <2>f, WorksAlone DEF Collecting, StillToTell, Working, WroteTags, EnrichTyped,
           StatusRecord, OnePassAtATime, TagKind, InHand
  <1>3. ASSUME NEW p \in Pass, NEW r \in PassRecord, NEW s \in StatusRecord, Choosing(p, r, s)
        PROVE  StillToTell'
    <2>f. \A q \in Pass : pass'[q] = IF q = p THEN r ELSE pass[q] BY <1>3 DEF Choosing, EnrichTyped
    <2> QED
      BY <1>3, <2>f, WorksAlone, SMTT(30)
          DEF Choosing, StillToTell, Working, WroteTags, EnrichTyped,
           StatusRecord, OnePassAtATime, TagKind, InHand
  <1>4. ASSUME NEW p \in Pass, NEW r \in PassRecord, NEW s \in StatusRecord, Tallying(p, r, s)
        PROVE  StillToTell'
    <2>f. \A q \in Pass : pass'[q] = IF q = p THEN r ELSE pass[q] BY <1>4 DEF Tallying, EnrichTyped
    <2> QED
      BY <1>4, <2>f, WorksAlone DEF Tallying, StillToTell, Working, WroteTags, EnrichTyped,
           StatusRecord, OnePassAtATime, TagKind, InHand
  <1>5. ASSUME NEW p \in Pass, NEW r \in PassRecord, NEW s \in StatusRecord, Ending(p, r, s)
        PROVE  StillToTell'
    <2>f. \A q \in Pass : pass'[q] = IF q = p THEN r ELSE pass[q] BY <1>5 DEF Ending, EnrichTyped
    <2> QED
      BY <1>5, <2>f, WorksAlone DEF Ending, StillToTell, Working, WroteTags, EnrichTyped,
           StatusRecord, OnePassAtATime, TagKind, InHand
  <1>6. ASSUME NEW p \in Pass, NEW r \in PassRecord, NEW s \in StatusRecord, Notifying(p, r, s)
        PROVE  StillToTell'
    <2>f. \A q \in Pass : pass'[q] = IF q = p THEN r ELSE pass[q] BY <1>6 DEF Notifying, EnrichTyped
    <2> QED
      BY <1>6, <2>f, WorksAlone DEF Notifying, StillToTell, Working, WroteTags, EnrichTyped,
           StatusRecord, OnePassAtATime, TagKind, InHand
  <1>7. ASSUME NEW p \in Pass, NEW r \in PassRecord, Tagging(p, r) PROVE StillToTell'
    <2>f. \A q \in Pass : pass'[q] = IF q = p THEN r ELSE pass[q] BY <1>7 DEF Tagging, EnrichTyped
    <2> QED
      BY <1>7, <2>f, WorksAlone DEF Tagging, StillToTell, Working, WroteTags, EnrichTyped,
           StatusRecord, OnePassAtATime, TagKind, InHand
  <1> QED BY <1>0, <1>1, <1>2, <1>3, <1>4, <1>5, <1>6, <1>7, StepIs

(* EnrichInv is an invariant.                                              *)
THEOREM EnrichInvariant == EnrichSpec => []EnrichInv
  <1>1. EnrichInit => EnrichInv
    <2> SUFFICES ASSUME EnrichInit PROVE EnrichInv OBVIOUS
    <2>1. pass = [p \in Pass |-> Pass0] /\ enrichStatus = Status0 BY DEF EnrichInit
    <2>2. Pass0 \in PassRecord
      <3>1. PICK o \in Options : TRUE BY EnrichAssumption DEF EnrichAssumption
      <3> QED BY <3>1, Pass0Is DEF PassPc
    <2>3. Pass0.pc = "none" /\ Pass0.file = NoAudio BY DEF Pass0
    <2>4. Status0 \in StatusRecord /\ ~Status0.running /\ Status0.processed = 0 /\ Status0.skipped = 0 /\
            Status0.failed = 0
      BY DEF Status0, StatusRecord
    <2>5. audioDisk \in [AudioFile -> AudioRecord]
      <3>1. {[present |-> FALSE, quiet |-> FALSE, tags |-> {}]}
              \cup {[present |-> TRUE, quiet |-> TRUE, tags |-> t] : t \in StartTags} \subseteq AudioRecord
        <4>1. [present |-> FALSE, quiet |-> FALSE, tags |-> {}] \in AudioRecord BY DEF AudioRecord
        <4>2. ASSUME NEW t \in StartTags
              PROVE  [present |-> TRUE, quiet |-> TRUE, tags |-> t] \in AudioRecord
          <5>1. t \in SUBSET TagKind BY EnrichAssumption DEF EnrichAssumption
          <5> QED BY <5>1 DEF AudioRecord
        <4> QED BY <4>1, <4>2
      <3> QED BY <3>1 DEF EnrichInit
    <2>6. EnrichTyped
      <3>1. <<>> \in Seq({"genre", "cover"} \X CacheKey) OBVIOUS
      <3> QED BY <2>1, <2>2, <2>4, <2>5, <3>1 DEF EnrichInit, EnrichTyped
    <2>7. \A p \in Pass : pass[p].pc = "none" /\ pass[p].file = NoAudio BY <2>1, <2>3
    <2>8. \A p \in Pass : ~Working(p) /\ ~InHand(p) BY <2>7 DEF Working, InHand
    <2>9. FileIsInHand BY EnrichAssumption, <2>7, <2>8 DEF EnrichAssumption, FileIsInHand
    <2>10. OnePassAtATime BY <2>1, <2>4, <2>8 DEF OnePassAtATime
    <2>11. DoneIsSorted
      <3>1. Cardinality(tagged) = 0 BY FS_EmptySet DEF EnrichInit
      <3> QED BY <2>1, <2>4, <2>8, <3>1 DEF DoneIsSorted
    <2>12. AskedOnce /\ StillToTell BY DEF EnrichInit, AskedOnce, IsInjective, StillToTell
    <2>13. RestIsUntouched /\ FilesAreCounted /\ AskedIsCached /\ LimitHolds
      BY <2>8 DEF RestIsUntouched, FilesAreCounted, AskedIsCached, LimitHolds
    <2> QED BY <2>6, <2>9, <2>10, <2>11, <2>12, <2>13 DEF EnrichInv
  <1>2. EnrichInv /\ [EnrichNext]_enrichVars => EnrichInv'
    BY EnrichTypedStep, InHandStep, OnePassStep, UntouchedStep, CountedStep, SortedStep, AskedStep,
           LimitStep, TellStep
       DEF EnrichInv
  <1> QED BY <1>1, <1>2, PTL DEF EnrichSpec

(* Types of the enrichment pass (enrich.go).                               *)
THEOREM EnrichTypeCorrect == EnrichSpec => []EnrichTypeOK
  <1>1. EnrichInv => EnrichTypeOK
    BY DEF EnrichInv, EnrichTyped, FileIsInHand, EnrichTypeOK, PassRecord, PassPc, StatusRecord,
           AudioRecord
  <1> QED BY <1>1, EnrichInvariant, PTL

(* One pass at a time works, whatever requests and ends interleave.        *)
THEOREM PassesComeOneByOne == EnrichSpec => []OnePassAtATime
  <1>1. EnrichInv => OnePassAtATime BY DEF EnrichInv
  <1> QED BY <1>1, EnrichInvariant, PTL

(* The numbers of the status add up whenever they are looked at.           *)
THEOREM NumbersAlwaysAddUp == EnrichSpec => []NumbersAddUp
  <1>1. EnrichInv => NumbersAddUp
    <2> SUFFICES ASSUME EnrichInv PROVE NumbersAddUp OBVIOUS
    <2>1. ASSUME NEW p \in Pass, Working(p), ~\E q \in Pass : pass[q].pc = "collect"
          PROVE enrichStatus.processed + Cardinality(pass[p].files) + (IF InHand(p) THEN 1 ELSE 0) = enrichStatus.total
      BY <2>1 DEF EnrichInv, FilesAreCounted
    <2> QED BY <2>1 DEF EnrichInv, DoneIsSorted, NumbersAddUp
  <1> QED BY <1>1, EnrichInvariant, PTL

(* A pass asks the services once for each artist and album.                *)
THEOREM ServicesAreAskedOnce == EnrichSpec => []AskedOnce
  <1>1. EnrichInv => AskedOnce BY DEF EnrichInv
  <1> QED BY <1>1, EnrichInvariant, PTL

(* Once every pass has ended, the library server knows of each tag.        *)
THEOREM TagsAreAlwaysTold == EnrichSpec => []TagsAreTold
  <1>1. EnrichInv => TagsAreTold BY DEF EnrichInv, StillToTell, TagsAreTold, Working
  <1> QED BY <1>1, EnrichInvariant, PTL

(* A stop and a limit hold from step to step.                              *)
THEOREM StopsAreHeeded == EnrichSpec => StopIsHeeded
  <1>1. EnrichInv /\ EnrichInv' /\ [EnrichNext]_enrichVars =>
          [\A p \in Pass : Working(p) =>
             /\ enrichStop /\ pass[p].pc # "collect" =>
                   enrichStop' /\ pass'[p].files \in {pass[p].files, {}}
             /\ pass[p].opts.limit > 0 => enrichStatus'.processed <= pass[p].opts.limit]_enrichVars
    <2> SUFFICES ASSUME EnrichInv, EnrichInv', EnrichNext, NEW p \in Pass, Working(p)
                 PROVE /\ enrichStop /\ pass[p].pc # "collect" =>
                             enrichStop' /\ pass'[p].files \in {pass[p].files, {}}
                       /\ pass[p].opts.limit > 0 => enrichStatus'.processed <= pass[p].opts.limit
      OBVIOUS
    <2> USE DEF EnrichInv
    <2>0. EnrichTyped /\ FileIsInHand /\ [EnrichNext]_enrichVars OBVIOUS
    <2>1. enrichStatus.running BY DEF OnePassAtATime
    <2>2. enrichStop => enrichStop'
      <3>1. ASSUME NEW q \in Pass, NEW o \in Options, EnrichLibrary(q, o) PROVE FALSE
        BY <2>1, <3>1 DEF EnrichLibrary, Refused
      <3>2. ASSUME NEW q \in Pass, \/ CollectAudioFiles(q) \/ NextFile(q) \/ Lyrics(q) \/ Genre(q)
                                   \/ Cover(q)
                                   \/ Tally(q) \/ Ends(q) \/ Notify(q)
            PROVE enrichStop' = enrichStop
        BY <3>2 DEF CollectAudioFiles, NextFile, Lyrics, Genre, Cover, Tally, Ends, Notify
      <3>3. StopEnrich => enrichStop' BY DEF StopEnrich
      <3>4. ASSUME NEW f \in AudioFile, FileChanges(f) PROVE enrichStop' = enrichStop
        BY <3>4 DEF FileChanges
      <3> QED BY <3>1, <3>2, <3>3, <3>4 DEF EnrichNext
    <2>3. \A q \in Pass \ {p} : ~Working(q) BY WorksAlone
    <2>4. /\ enrichStop /\ pass[p].pc # "collect" => pass'[p].files \in {pass[p].files, {}}
          /\ \/ Working(p)' /\ pass'[p].opts = pass[p].opts
             \/ enrichStatus'.processed = enrichStatus.processed
      <3>1. CASE UNCHANGED <<pass, enrichStatus, tagged, askedKeys, untold>> BY <3>1
      <3>2. ASSUME NEW q \in Pass, NEW r \in PassRecord, NEW s \in StatusRecord,
                   \/ Starting(q, r, s) \/ Collecting(q, r, s) \/ Choosing(q, r, s)
                   \/ Tallying(q, r, s) \/ Ending(q, r, s) \/ Notifying(q, r, s)
            PROVE /\ enrichStop /\ pass[p].pc # "collect" => pass'[p].files \in {pass[p].files, {}}
                  /\ \/ Working(p)' /\ pass'[p].opts = pass[p].opts
                     \/ enrichStatus'.processed = enrichStatus.processed
        <4>1. \A z \in Pass : pass'[z] = IF z = q THEN r ELSE pass[z]
          BY <3>2 DEF Starting, Collecting, Choosing, Tallying, Ending, Notifying, EnrichTyped
        <4>2. CASE Starting(q, r, s) BY <2>1, <4>2 DEF Starting
        <4>3. CASE Collecting(q, r, s) BY <2>3, <4>1, <4>3 DEF Collecting, Working
        <4>4. CASE Choosing(q, r, s) BY <2>3, <4>1, <4>4 DEF Choosing, Working, Finished
        <4>5. CASE Tallying(q, r, s) BY <2>3, <4>1, <4>5 DEF Tallying, Working
        <4>6. CASE Ending(q, r, s) BY <2>3, <4>1, <4>6 DEF Ending, Working
        <4>7. CASE Notifying(q, r, s) BY <4>1, <4>7 DEF Notifying, Working
        <4> QED BY <3>2, <4>2, <4>3, <4>4, <4>5, <4>6, <4>7
      <3>3. ASSUME NEW q \in Pass, NEW r \in PassRecord, Tagging(q, r)
            PROVE /\ enrichStop /\ pass[p].pc # "collect" => pass'[p].files \in {pass[p].files, {}}
                  /\ \/ Working(p)' /\ pass'[p].opts = pass[p].opts
                     \/ enrichStatus'.processed = enrichStatus.processed
        <4>1. \A z \in Pass : pass'[z] = IF z = q THEN r ELSE pass[z]
          BY <3>3 DEF Tagging, EnrichTyped
        <4> QED BY <2>3, <3>3, <4>1 DEF Tagging, Working, InHand
      <3> QED BY <2>0, <3>1, <3>2, <3>3, StepIs
    <2>5. enrichStatus.processed \in Nat /\ enrichStatus'.processed \in Nat /\ pass[p].opts.limit \in Nat
      BY EnrichAssumption DEF EnrichAssumption, EnrichTyped, StatusRecord, PassRecord
    <2>6. pass[p].opts.limit > 0 => enrichStatus.processed <= pass[p].opts.limit
      BY <2>5 DEF LimitHolds
    <2>7. Working(p)' /\ pass'[p].opts.limit > 0 => enrichStatus'.processed <= pass'[p].opts.limit
      <3>1. PICK l \in Nat : l = pass'[p].opts.limit
        BY EnrichAssumption DEF EnrichAssumption, EnrichTyped, PassRecord
      <3>2. Working(p)' /\ l > 0 => enrichStatus'.processed + (IF InHand(p)' THEN 1 ELSE 0) <= l
        BY <3>1 DEF LimitHolds
      <3> QED BY <2>5, <3>1, <3>2
    <2> QED BY <2>2, <2>4, <2>5, <2>6, <2>7
  <1> QED BY <1>1, EnrichInvariant, PTL DEF EnrichSpec, StopIsHeeded

-----------------------------------------------------------------------------
(* The server moves one part at a time, and that part by its own steps, so that
   whatever a part keeps, the server keeps. *)

(* The part that moves is the one that was chosen.                         *)
LEMMA PartStays == ServerSpec => [](part \in Parts)
  <1>1. ServerInit => part \in Parts BY DEF ServerInit
  <1>2. part \in Parts /\ [ServerNext]_serverVars => (part \in Parts)' BY DEF ServerNext, serverVars
  <1> QED BY <1>1, <1>2, PTL DEF ServerSpec

(* In the server the library moves by steps of its own.                   *)
LEMMA LibraryPart == ServerSpec => LibrarySpec
  <1>1. ServerInit => LibraryInit BY DEF ServerInit
  <1>2. [ServerNext]_serverVars => [LibraryNext]_libVars BY DEF ServerNext, serverVars
  <1> QED BY <1>1, <1>2, PTL DEF ServerSpec, LibrarySpec

(* In the server the promises of the facade moves by steps of its own.    *)
LEMMA FacadePart == ServerSpec => FacadeSpec
  <1>1. ServerInit => FacadeInit BY DEF ServerInit
  <1>2. [ServerNext]_serverVars => [FacadeNext]_facadeVars BY DEF ServerNext, serverVars
  <1> QED BY <1>1, <1>2, PTL DEF ServerSpec, FacadeSpec

(* In the server the enrichment moves by steps of its own.                *)
LEMMA EnrichPart == ServerSpec => EnrichSpec
  <1>1. ServerInit => EnrichInit BY DEF ServerInit
  <1>2. [ServerNext]_serverVars => [EnrichNext]_enrichVars BY DEF ServerNext, serverVars
  <1> QED BY <1>1, <1>2, PTL DEF ServerSpec, EnrichSpec

(* In the server the event hub moves by steps of its own.                 *)
LEMMA HubPart == ServerSpec => HubSpec
  <1>1. ServerInit => HubInit BY DEF ServerInit
  <1>2. [ServerNext]_serverVars => [HubNext]_hubVars BY DEF ServerNext, serverVars
  <1> QED BY <1>1, <1>2, PTL DEF ServerSpec, HubSpec

(* In the server the Spotify client moves by steps of its own.            *)
LEMMA ClientPart == ServerSpec => ClientSpec
  <1>1. ServerInit => ClientInit BY DEF ServerInit
  <1>2. [ServerNext]_serverVars => [ClientNext]_clientVars BY DEF ServerNext, serverVars
  <1> QED BY <1>1, <1>2, PTL DEF ServerSpec, ClientSpec

(* In the server a discography moves by steps of its own.                 *)
LEMMA DiscPart == ServerSpec => DiscSpec
  <1>1. ServerInit => DiscInit BY DEF ServerInit
  <1>2. [ServerNext]_serverVars => [DiscNext]_discVars BY DEF ServerNext, serverVars
  <1> QED BY <1>1, <1>2, PTL DEF ServerSpec, DiscSpec

(* In the server the histories move by steps of their own.                *)
LEMMA HistoriesPart == ServerSpec => HistorySpec
  <1>1. ServerInit => HistoryInit BY DEF ServerInit
  <1>2. [ServerNext]_serverVars => [HistoryNext]_historyVars BY DEF ServerNext, serverVars
  <1> QED BY <1>1, <1>2, PTL DEF ServerSpec, HistorySpec

(* In the server the settings move by steps of their own.                 *)
LEMMA SettingsPart == ServerSpec => SettingsSpec
  <1>1. ServerInit => SettingsInit BY DEF ServerInit
  <1>2. [ServerNext]_serverVars => [SettingsNext]_settingsVars BY DEF ServerNext, serverVars
  <1> QED BY <1>1, <1>2, PTL DEF ServerSpec, SettingsSpec

(* In the server the audio files move by steps of their own.              *)
LEMMA FilesPart == ServerSpec => FilesSpec
  <1>1. ServerInit => FilesInit BY DEF ServerInit
  <1>2. [ServerNext]_serverVars => [FilesNext]_filesVars BY DEF ServerNext, serverVars
  <1> QED BY <1>1, <1>2, PTL DEF ServerSpec, FilesSpec

(* In the server the lookups of MusicBrainz moves by steps of its own.    *)
LEMMA MbPart == ServerSpec => MbSpec
  <1>1. ServerInit => MbInit BY DEF ServerInit
  <1>2. [ServerNext]_serverVars => [MbNext]_mbVars BY DEF ServerNext, serverVars
  <1> QED BY <1>1, <1>2, PTL DEF ServerSpec, MbSpec

(* In the server the lookups of identifiers move by steps of their own.   *)
LEMMA IdPart == ServerSpec => IdSpec
  <1>1. ServerInit => IdInit BY DEF ServerInit
  <1>2. [ServerNext]_serverVars => [IdNext]_idVars BY DEF ServerNext, serverVars
  <1> QED BY <1>1, <1>2, PTL DEF ServerSpec, IdSpec

(* In the server the renaming moves by steps of its own.                  *)
LEMMA RenamingPart == ServerSpec => RenSpec
  <1>1. ServerInit => RenInit BY DEF ServerInit
  <1>2. [ServerNext]_serverVars => [RenNext]_renVars BY DEF ServerNext, serverVars
  <1> QED BY <1>1, <1>2, PTL DEF ServerSpec, RenSpec

(* In the server a search moves by steps of its own.                      *)
LEMMA SearchPart == ServerSpec => SearchSpec
  <1>1. ServerInit => SearchInit BY DEF ServerInit
  <1>2. [ServerNext]_serverVars => [SearchNext]_searchVars BY DEF ServerNext, serverVars
  <1> QED BY <1>1, <1>2, PTL DEF ServerSpec, SearchSpec

(* In the server the paging of a list moves by steps of its own.          *)
LEMMA PagesPart == ServerSpec => PagesSpec
  <1>1. ServerInit => PagesInit BY DEF ServerInit
  <1>2. [ServerNext]_serverVars => [PagesNext]_pagesVars BY DEF ServerNext, serverVars
  <1> QED BY <1>1, <1>2, PTL DEF ServerSpec, PagesSpec

(* The server's library is true to the folder: its index file parses and catches up, a
   quiet scan is exact, the trash keeps what it took, and a cleanup leaves a copy of
   every recording. *)
THEOREM ServerLibraryIsTrue == ServerSpec => []LibraryIsTrue
  <1>1. LibraryTypeOK /\ IndexFileIsWhole /\ IndexFileCatchesUp /\ QuietScanIsExact /\ TrashKeepsTheFile
        /\ CleanupLeavesACopy => LibraryIsTrue
    BY DEF LibraryIsTrue
  <1> QED
    BY <1>1, LibraryPart, LibraryTypeCorrect, IndexStaysWhole, IndexIsSaved, QuietScansAreExact,
             MovedFilesAreKept, CleanupsLeaveACopy, PTL

(* The server's passes are what their status says, and a stop or a limit holds. *)
THEOREM ServerPassesAreOrderly == ServerSpec => PassesAreOrderly
  <1>1. EnrichTypeOK /\ OnePassAtATime /\ NumbersAddUp /\ AskedOnce /\ TagsAreTold
        => (part = "enrichment" => EnrichTypeOK /\ OnePassAtATime /\ NumbersAddUp /\ AskedOnce /\
          TagsAreTold)
    OBVIOUS
  <1>2. ServerSpec => StopIsHeeded BY EnrichPart, StopsAreHeeded
  <1>3. ServerSpec => [](EnrichTypeOK /\ OnePassAtATime /\ NumbersAddUp /\ AskedOnce /\ TagsAreTold)
    BY EnrichPart, EnrichTypeCorrect, PassesComeOneByOne, NumbersAlwaysAddUp, ServicesAreAskedOnce,
       TagsAreAlwaysTold, PTL
  <1>4. ServerSpec => [](part = "enrichment" =>
                          EnrichTypeOK /\ OnePassAtATime /\ NumbersAddUp /\ AskedOnce /\ TagsAreTold)
    BY <1>1, <1>3, PTL
  <1> QED BY <1>2, <1>4 DEF PassesAreOrderly

(* The server loses no audio on its way, through tags, resampling, conversion and
   renaming. *)
THEOREM ServerKeepsFiles == ServerSpec => []FilesAreKept
  <1>1. TrackFilesTypeOK /\ AudioIsKept /\ ToldIsWhole /\ FailuresCleanUp /\ EarlierIsKept /\ LeftIsIndexed
        /\ RenTypeOK /\ NoSongIsLost /\ PreviewComesTrue => FilesAreKept
    BY DEF FilesAreKept
  <1> QED BY <1>1, FilesPart, RenamingPart, FilesTypeCorrect, AudioStaysOnDisk, ToldFilesAreWhole,
             FailedAttemptsCleanUp, ReportedFilesStay, LeftFilesAreIndexed, RenTypeCorrect, SongsAreKept,
             PreviewsHold, PTL

(* The server uses what was saved: histories, settings and recent fetches. *)
THEOREM ServerHeedsSaved == ServerSpec => []SavedIsHeeded
  <1>1. HistoryTypeOK /\ FetchedOnce /\ JustAddedIsKept /\ SettingsTypeOK /\ ChoiceIsObeyed
        /\ RecentsLoadAlways => SavedIsHeeded
    BY DEF SavedIsHeeded
  <1> QED
    BY <1>1, HistoriesPart, SettingsPart, HistoryTypeCorrect, LinksAreListedOnce, AddedRowsStay,
             SettingsTypeCorrect, SettingsAreObeyed, RecentsAlwaysLoad, PTL

(* The server's hub is orderly, its lookups are shared and its identifiers are kept. *)
THEOREM ServerSharesAndTells == ServerSpec => [](HubIsOrderly /\ LookupsAreShared /\ IdsAreKept)
  BY HubPart, MbPart, IdPart, HubCorrect, LookupsCorrect, IdsCorrect, PTL

(* The facade keeps its word: what it promises comes true, what it enqueues it
   enqueues once, and the rows of a search can be acquired. *)
THEOREM ServerKeepsItsWord == ServerSpec => []FacadeKeepsItsWord
  <1>1. FacadeTypeOK /\ PromiseIsKept /\ EnqueuedOnce /\ SearchTypeOK /\ CachesInStep
        /\ RowsAreAcquirable => FacadeKeepsItsWord
    BY DEF FacadeKeepsItsWord
  <1> QED BY <1>1, FacadePart, SearchPart, FacadeTypeCorrect, PromisesComeTrue, DownloadsAreSingle,
             SearchTypeCorrect, CachesKeepInStep, OffersAreAcquirable, PTL

(* The server reads the catalog in full: the client's token is shared and renewed, every
   goroutine of a discography gets through, and a list that is returned is whole. *)
THEOREM ServerReadsCatalog == ServerSpec => []CatalogIsRead
  <1>1. ClientTypeOK /\ TokenIsShared /\ RetriesAreFresh /\ OwnClientRecovers /\ DiscTypeOK
        /\ NobodyIsLeft /\ ReturnsWhatWasShown /\ PagesTypeOK /\ NoGaps /\ WholeListIsReturned
        /\ PagingEnds => CatalogIsRead
    BY DEF CatalogIsRead
  <1> QED BY <1>1, ClientPart, DiscPart, PagesPart, ClientTypeCorrect, TokensAreShared,
             RetriesHaveNewTokens, OwnClientsRecover, DiscTypeCorrect, EveryoneGetsThrough,
             DiscographyIsWhole, PagesTypeCorrect, PagesHaveNoGaps, ListsAreWhole,
             PagingComesToAnEnd, PTL

(* In the server, too, parts of the code that answer the same question by code of
   their own answer it alike, whatever the services, the folder and the user come with. *)
THEOREM ServerAnswersAgree == ServerSpec => []AnswersAgree
  <1> DEFINE Inv == part = "answers" => AnswersInv
  <1>1. ServerInit => Inv BY DEF ServerInit, AnswersInit, AnswersInv, Questions
  <1>2. Inv /\ [ServerNext]_serverVars => Inv'
    <2>1. [ServerNext]_serverVars => [AnswersNext]_answerVars BY DEF ServerNext, serverVars
    <2>2. [ServerNext]_serverVars => part' = part BY DEF ServerNext, serverVars
    <2> QED BY <2>1, <2>2, AnswersStep
  <1>3. Inv => AnswersAgree BY RightAnswersAgree DEF AnswersHold, AnswersAgree
  <1> HIDE DEF Inv
  <1> QED BY <1>1, <1>2, <1>3, PTL DEF ServerSpec
==============================================================================
