------------------------------ MODULE EventHub ------------------------------
(***************************************************************************)
(* The event hub (events.go): emitters broadcast under a read lock, into a *)
(* buffered channel per client, and never wait for a slow one; connecting  *)
(* and leaving take the write lock.  The stream handler writes what it     *)
(* takes from its channel to the browser.                                  *)
(***************************************************************************)
EXTENDS Integers, FiniteSets, SequencesExt

CONSTANTS
    Emitter,        \* goroutines that emit
    Client,         \* browser connections
    Buffer,         \* capacity of a client's channel
    MaxEvents       \* bound: MaxEvents[e] events of emitter e

ASSUME HubAssumption == Buffer \in Nat \ {0} /\ MaxEvents \in [Emitter -> Nat]

VARIABLES
    clients,        \* the hub's map
    channel,        \* each client's channel: [buf, closed]
    stream,         \* each connection: not opened, streaming, gone
    shown,          \* what has been written to each browser
    emit            \* each emitter: number of its event and the clients still to be served

hubVars == <<clients, channel, stream, shown, emit>>

HubInit ==
    /\ clients = {}
    /\ channel = [c \in Client |-> [buf |-> <<>>, closed |-> FALSE]]
    /\ stream = [c \in Client |-> "none"]
    /\ shown = [c \in Client |-> <<>>]
    /\ emit = [e \in Emitter |-> [locked |-> FALSE, n |-> 0, to |-> {}]]

\* mutant: clients come and go without the lock
NoReaderMatters == TRUE

(* The write lock is free when no emitter holds a read lock.               *)
NoReader == \A e \in Emitter : ~emit[e].locked

Subscribe(c) ==
    /\ stream[c] = "none"
    /\ NoReader
    /\ clients' = clients \cup {c}
    /\ stream' = [stream EXCEPT ![c] = "open"]
    /\ UNCHANGED <<channel, shown, emit>>

Unsubscribe(c) ==
    /\ stream[c] = "gone" /\ c \in clients
    /\ NoReader
    /\ clients' = clients \ {c}
    /\ channel' = [channel EXCEPT ![c].closed = TRUE]
    /\ UNCHANGED <<stream, shown, emit>>

(* broadcast takes the read lock and goes through the clients in any order. *)
Broadcast(e) ==
    /\ ~emit[e].locked /\ emit[e].n < MaxEvents[e]
    /\ emit' = [emit EXCEPT ![e] = [locked |-> TRUE, n |-> emit[e].n + 1, to |-> clients]]
    /\ UNCHANGED <<clients, channel, stream, shown>>

\* mutant: the newest event is put first
PushedFirst(buf, ev) == IF Len(buf) < Buffer THEN <<ev>> \o buf ELSE buf

\* mutant: the channel takes any number
PushedAlways(buf, ev) == Append(buf, ev)

(* A full channel drops the event rather than block the emitter.           *)
Pushed(buf, ev) == IF Len(buf) < Buffer THEN Append(buf, ev) ELSE buf

SendEvent(e, c) ==
    /\ emit[e].locked /\ c \in emit[e].to
    /\ channel' = [channel EXCEPT ![c].buf = Pushed(@, <<e, emit[e].n>>)]
    /\ emit' = [emit EXCEPT ![e].to = @ \ {c}]
    /\ UNCHANGED <<clients, stream, shown>>

Unlock(e) ==
    /\ emit[e].locked /\ emit[e].to = {}
    /\ emit' = [emit EXCEPT ![e].locked = FALSE]
    /\ UNCHANGED <<clients, channel, stream, shown>>

(* The handler's loop: an event is written, or the browser is gone.        *)
WriteSSE(c) ==
    /\ stream[c] = "open" /\ channel[c].buf # <<>>
    /\ shown' = [shown EXCEPT ![c] = Append(@, Head(channel[c].buf))]
    /\ channel' = [channel EXCEPT ![c].buf = Tail(@)]
    /\ UNCHANGED <<clients, stream, emit>>

Disconnects(c) ==
    /\ stream[c] = "open"
    /\ stream' = [stream EXCEPT ![c] = "gone"]
    /\ UNCHANGED <<clients, channel, shown, emit>>

HubNext ==
    \/ \E e \in Emitter : Broadcast(e) \/ Unlock(e) \/ \E c \in Client : SendEvent(e, c)
    \/ \E c \in Client : Subscribe(c) \/ Unsubscribe(c) \/ WriteSSE(c) \/ Disconnects(c)

HubSpec == HubInit /\ [][HubNext]_hubVars
-----------------------------------------------------------------------------
Event == Emitter \X Nat

(* Every variable keeps its type, and no channel holds more than its capacity. *)
HubTypeOK ==
    /\ clients \subseteq Client
    /\ channel \in [Client -> [buf : Seq(Event), closed : BOOLEAN]]
    /\ \A c \in Client : Len(channel[c].buf) <= Buffer
    /\ stream \in [Client -> {"none", "open", "gone"}]
    /\ shown \in [Client -> Seq(Event)]
    /\ emit \in [Emitter -> [locked : BOOLEAN, n : Nat, to : SUBSET Client]]

(* A channel that an emitter is about to send on is not closed (the send would
   panic and take the emitter, a download for one, with it), although browsers
   leave at any moment. *)
NoSendOnClosed ==
    \A e \in Emitter, c \in Client : emit[e].locked /\ c \in emit[e].to => ~channel[c].closed

(* A browser may miss events but is never shown one emitter's events out of
   order or twice: a progress bar that follows them does not jump back. *)
Sent(c) == shown[c] \o channel[c].buf
InOrder ==
    \A c \in Client : \A i, j \in DOMAIN Sent(c) :
        i < j /\ Sent(c)[i][1] = Sent(c)[j][1] => Sent(c)[i][2] < Sent(c)[j][2]

(* The hub outlives its browsers (events.go): it sends on no closed
   channel, and what it sends arrives in order and once, or not at all. *)
HubIsOrderly == HubTypeOK /\ NoSendOnClosed /\ InOrder
=============================================================================
