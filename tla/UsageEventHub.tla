---------------------------- MODULE UsageEventHub ----------------------------
(***************************************************************************)
(* UsageEventHub and the SSE handler: the processing goroutine stores a    *)
(* batch of usage events, then publishes them one by one to the hub, which *)
(* numbers them, keeps the last BufferCap and offers them to the channel   *)
(* of every subscriber without ever waiting. A browser that reconnects     *)
(* sends the last number it received and gets the rest of the window, or   *)
(* the order to read everything again.                                     *)
(*                                                                         *)
(* Events are 1, 2, ... in the order they are stored. The frames of one    *)
(* connection that are on their way when it breaks count as not sent.      *)
(***************************************************************************)
EXTENDS Naturals, SequencesExt

CONSTANTS
  Clients,       \* pages following the stream, each by one EventSource
  BufferCap,     \* notifications the hub keeps
  ChannelCap,    \* capacity of a subscriber's channel (50)
  Hidden,        \* <<client, event>>: the filter of the page excludes the event
  MaxEvents,     \* bound: events stored
  MaxBatch,      \* bound: events stored by one transaction
  MaxBreaks,     \* bound: connections that end, of each client
  MaxRestarts    \* bound: restarts of the process

HubConstants ==
  /\ BufferCap \in Nat \ {0} /\ ChannelCap \in Nat \ {0} /\ MaxBatch \in Nat \ {0}
  /\ MaxEvents \in Nat /\ MaxBreaks \in Nat /\ MaxRestarts \in Nat
  /\ Hidden \subseteq Clients \X (1..MaxEvents)

VARIABLES
  stored,        \* events committed
  published,     \* the last event the publishing loop is done with
  nextSeq,       \* the hub's counter
  buffer,        \* the hub's window of notifications
  connection,    \* client -> "off", "sync" (sync_required to write) or "on"
  replay,        \* client -> notifications the handler has to write first
  channel,       \* client -> the subscriber's channel
  last,          \* client -> Last-Event-ID, 0 when none was received
  breaks,        \* client -> connections ended
  run,           \* restarts so far
  lastRun,       \* history: client -> run of the process last[c] comes from
  lastEvent,     \* history: client -> event of the last frame received
  since,         \* history: client -> the stream was followed from this event on
  shown,         \* history: client -> events the page knows
  missed         \* history: client -> events the full channel refused

hubVars    == <<nextSeq, buffer>>
clientVars == <<last, lastRun, lastEvent, since, shown>>
vars == <<stored, published, hubVars, connection, replay, channel, breaks, run, missed,
          clientVars>>

Notification == [seq: 1..MaxEvents, event: 1..MaxEvents]

Init ==
  /\ stored = 0 /\ published = 0 /\ nextSeq = 0 /\ buffer = <<>> /\ run = 0
  /\ connection = [c \in Clients |-> "off"]
  /\ replay = [c \in Clients |-> <<>>] /\ channel = [c \in Clients |-> <<>>]
  /\ last = [c \in Clients |-> 0] /\ breaks = [c \in Clients |-> 0]
  /\ lastRun = [c \in Clients |-> 0] /\ lastEvent = [c \in Clients |-> 0]
  /\ since = [c \in Clients |-> 0] /\ shown = [c \in Clients |-> {}]
  /\ missed = [c \in Clients |-> {}]

-----------------------------------------------------------------------------
(* The processing goroutine. *)

Commit ==
  /\ published = stored
  /\ \E n \in 1..MaxBatch : stored + n <= MaxEvents /\ stored' = stored + n
  /\ UNCHANGED <<published, hubVars, connection, replay, channel, breaks, run, missed, clientVars>>

(* Faulty: the window keeps growing. *)
SlideGrowing(window, n) == Append(window, n)

Slide(window, n) == Append(IF Len(window) < BufferCap THEN window ELSE Tail(window), n)

Subscribers == {c \in Clients : connection[c] # "off"}
Slow == {c \in Subscribers : Len(channel[c]) = ChannelCap}

Publish ==
  /\ published < stored
  /\ published' = published + 1 /\ nextSeq' = nextSeq + 1
  /\ LET n == [seq |-> nextSeq', event |-> published'] IN
       /\ buffer' = Slide(buffer, n)
       /\ channel' = [c \in Clients |->
                        IF c \in Subscribers \ Slow THEN Append(channel[c], n) ELSE channel[c]]
       /\ missed' = [c \in Clients |-> IF c \in Slow THEN missed[c] \cup {n.event} ELSE missed[c]]
  /\ UNCHANGED <<stored, connection, replay, breaks, run, clientVars>>

(* The end of the process loses the hub, and the events not yet published. *)
Restart ==
  /\ run < MaxRestarts
  /\ run' = run + 1
  /\ published' = stored /\ nextSeq' = 0 /\ buffer' = <<>>
  /\ connection' = [c \in Clients |-> "off"]
  /\ replay' = [c \in Clients |-> <<>>] /\ channel' = [c \in Clients |-> <<>>]
  /\ UNCHANGED <<stored, breaks, missed, clientVars>>

-----------------------------------------------------------------------------
(* The handler. The subscription and the replay are one critical section.   *)

(* Faulty: the window may begin two notifications after the client's. *)
TooOldByOne(lastSequence, window) ==
  window # <<>> /\ lastSequence > 0 /\ lastSequence + 2 < window[1].seq

TooOld(lastSequence, window) ==
  window # <<>> /\ lastSequence > 0 /\ lastSequence + 1 < window[1].seq

(* The window is in the order of its numbers: what is new of it is its end. *)
Newest(newer, window) == IF newer = {} THEN <<>> ELSE SubSeq(window, Min(newer), Len(window))

(* Faulty: the client's notification is replayed too. *)
ReplayInclusive(lastSequence, window) ==
  Newest({i \in DOMAIN window : window[i].seq >= lastSequence}, window)

Replay(lastSequence, window) ==
  Newest({i \in DOMAIN window : window[i].seq > lastSequence}, window)

(* Numbers of an earlier process promise nothing about this one. *)
SameRun(c) == last[c] = 0 \/ lastRun[c] = run

Subscribe(c) ==
  /\ connection[c] = "off"
  /\ IF TooOld(last[c], buffer)
       THEN connection' = [connection EXCEPT ![c] = "sync"] /\ UNCHANGED replay
       ELSE /\ connection' = [connection EXCEPT ![c] = "on"]
            /\ replay' = [replay EXCEPT ![c] = Replay(last[c], buffer)]
  /\ since' = [since EXCEPT ![c] = CASE last[c] = 0 -> published - Len(buffer)
                                     [] ~SameRun(c) -> published
                                     [] OTHER       -> @]
  /\ UNCHANGED <<stored, published, hubVars, channel, breaks, run, missed, last, lastRun, lastEvent, shown>>

(* sync_required: the page reads everything that is stored. It has no id. *)
SendSyncRequired(c) ==
  /\ connection[c] = "sync"
  /\ connection' = [connection EXCEPT ![c] = "on"]
  /\ shown' = [shown EXCEPT ![c] = 1..stored]
  /\ UNCHANGED <<stored, published, hubVars, replay, channel, breaks, run, missed,
                 last, lastRun, lastEvent, since>>

Queue(c) == replay[c] \o channel[c]

(* Faulty: the handler waits for a row the filter will never return. *)
TakeVisible(c) ==
  /\ Queue(c) # <<>> /\ <<c, Head(Queue(c)).event>> \notin Hidden
  /\ IF replay[c] # <<>>
       THEN replay' = [replay EXCEPT ![c] = Tail(@)] /\ UNCHANGED channel
       ELSE channel' = [channel EXCEPT ![c] = Tail(@)] /\ UNCHANGED replay

Take(c) ==
  IF replay[c] # <<>>
    THEN replay' = [replay EXCEPT ![c] = Tail(@)] /\ UNCHANGED channel
    ELSE /\ channel[c] # <<>>
         /\ channel' = [channel EXCEPT ![c] = Tail(@)] /\ UNCHANGED replay

(* writeUsageEventNotifications: a row the filter excludes makes no frame,  *)
(* and the client's number stays where it was.                              *)
Send(c) ==
  /\ connection[c] = "on"
  /\ Take(c)
  /\ LET n == Head(Queue(c)) IN
       IF <<c, n.event>> \in Hidden
         THEN UNCHANGED clientVars
         ELSE /\ last' = [last EXCEPT ![c] = n.seq] /\ lastRun' = [lastRun EXCEPT ![c] = run]
              /\ lastEvent' = [lastEvent EXCEPT ![c] = n.event]
              /\ shown' = [shown EXCEPT ![c] = @ \cup {n.event}]
              /\ UNCHANGED since
  /\ UNCHANGED <<stored, published, hubVars, connection, breaks, run, missed>>

(* The connection breaks, or a query or a write fails: the handler returns  *)
(* and unsubscribes.                                                        *)
Disconnect(c) ==
  /\ connection[c] # "off" /\ breaks[c] < MaxBreaks
  /\ breaks' = [breaks EXCEPT ![c] = @ + 1]
  /\ connection' = [connection EXCEPT ![c] = "off"]
  /\ replay' = [replay EXCEPT ![c] = <<>>] /\ channel' = [channel EXCEPT ![c] = <<>>]
  /\ UNCHANGED <<stored, published, hubVars, run, missed, clientVars>>

Serve(c) == Subscribe(c) \/ SendSyncRequired(c) \/ Send(c)

Next ==
  \/ Commit \/ Publish \/ Restart
  \/ \E c \in Clients : Serve(c) \/ Disconnect(c)

(* The browser reconnects, the handler writes, the loop publishes.          *)
Fairness == WF_vars(Publish) /\ \A c \in Clients : WF_vars(Serve(c))

Spec == Init /\ [][Next]_vars
FairSpec == Spec /\ Fairness

-----------------------------------------------------------------------------
(* The hub's window and the channels stay within their capacities, and a    *)
(* connection with sync_required to write has nothing to replay.            *)
TypeOK ==
  /\ published \in 0..stored /\ stored \in 0..MaxEvents /\ nextSeq \in 0..published
  /\ buffer \in Seq(Notification) /\ Len(buffer) <= BufferCap
  /\ connection \in [Clients -> {"off", "sync", "on"}]
  /\ \A c \in Clients :
       /\ replay[c] \in Seq(Notification) /\ Len(replay[c]) <= BufferCap
       /\ channel[c] \in Seq(Notification) /\ Len(channel[c]) <= ChannelCap
       /\ connection[c] = "sync" => replay[c] = <<>>
       /\ connection[c] = "off" => Queue(c) = <<>>
  /\ last \in [Clients -> 0..MaxEvents] /\ breaks \in [Clients -> 0..MaxBreaks]
  /\ run \in 0..MaxRestarts /\ lastRun \in [Clients -> 0..run]
  /\ lastEvent \in [Clients -> 0..published] /\ since \in [Clients -> 0..published]
  /\ shown \in [Clients -> SUBSET (1..stored)] /\ missed \in [Clients -> SUBSET (1..published)]

Queued(c) == {n.event : n \in ToSet(Queue(c))}
Known(c, e) == e \in shown[c] \cup Queued(c) \cup missed[c] \/ <<c, e>> \in Hidden

(* Since a page follows the stream it knows, or is about to be sent, every  *)
(* event published, through any number of broken connections, unless its    *)
(* own channel was full: subscribing and taking the replay are one critical *)
(* section, and a number older than the window is answered sync_required.   *)
NoGap ==
  \A c \in Clients :
    SameRun(c) /\ connection[c] # "sync" =>
      LET horizon == IF connection[c] = "on" THEN published ELSE lastEvent[c]
      IN  \A e \in since[c] + 1 .. horizon : Known(c, e)

(* A page is sent the events of one process in their order and none twice,  *)
(* across the border between replay and channel and across reconnections.   *)
InOrder ==
  \A c \in Clients :
    LET q == Queue(c)
    IN  /\ \A i \in 2..Len(q) : q[i - 1].seq < q[i].seq
        /\ SameRun(c) => \A i \in 1..Len(q) : last[c] < q[i].seq

(* Every page ends connected with nothing left to send: the hub never waits *)
(* for a page, and the handler never for a row.                             *)
UpToDate(c) == connection[c] = "on" /\ Queue(c) = <<>> /\ published = stored
CatchesUp == \A c \in Clients : <>[]UpToDate(c)

(* A page whose number is older than what the window holds is told to read  *)
(* everything again, as SubscribeUsageEvents says. Refuted: after a restart *)
(* the numbers begin again, and an old one looks newer than the window.     *)
OldNumberNoticed ==
  \A c \in Clients :
    connection[c] = "on" /\ last[c] > 0 =>
      \A e \in lastEvent[c] + 1 .. published : Known(c, e)

(* What a page sees is the stream itself, without a gap and in order.       *)
StreamFaithful == NoGap /\ InOrder

=============================================================================
