---------------------------- MODULE UsageIngest ----------------------------
(***************************************************************************)
(* RedisIngestRunner: one goroutine that brings the usage messages of CPA  *)
(* into the inbox. It probes for a subscription, a Redis queue and an HTTP *)
(* queue in this order, and stays with the first that works; a broken      *)
(* subscription is bridged by polling, a failing Redis queue by HTTP.      *)
(*                                                                         *)
(* Messages are numbered in the order CPA sends them; control messages set *)
(* the mode of the metadata sync instead of being stored. CPA pushes to    *)
(* the subscription while there is one, and keeps messages in its queue    *)
(* otherwise; a queue is read by popping. Waiting times are left out: a    *)
(* pause ends some time, and the time for a recovery probe comes some time.*)
(***************************************************************************)
EXTENDS Naturals, FiniteSets

CONSTANTS
  MaxMessages,   \* bound: messages CPA sends
  Controls,      \* those that are control messages
  BatchSize,     \* config.BatchSize
  MaxFaults      \* bound: calls and connections that fail

ASSUME IngestConstants ==
  /\ MaxMessages \in Nat
  /\ Controls \subseteq 1 .. MaxMessages
  /\ BatchSize \in Nat \ {0}
  /\ MaxFaults \in Nat

Messages == 1 .. MaxMessages
Causes == {"write", "reply", "link", "frame"}

VARIABLES
  published,     \* messages CPA has sent
  queue,         \* messages in CPA's usage queue
  link,          \* the subscription: none, up, or broken but not yet closed
  stream,        \* messages pushed to the subscription and not yet read
  shifted,       \* the reader stands inside a message
  batch,         \* messages taken from CPA and not yet written
  inbox,         \* messages stored in redis_usage_inboxes
  consumed,      \* control messages taken out by the writer
  lost,          \* messages lost, by cause
  pc,            \* where the runner is
  via,           \* what it writes for, or what it pauses before
  retryDue,      \* the time for the next recovery probe has come
  leftBehind,    \* history: the backfill of this subscription failed
  error, warning,\* lastError and lastWarning are set
  notification,  \* the metadata sync relies on notifications
  cancelled,     \* the context of the application is done
  faults

cpaVars    == <<published, queue, link, stream, shifted>>
storeVars  == <<inbox, consumed, lost>>
statusVars == <<error, warning, notification>>
flowVars   == <<pc, via, retryDue, leftBehind>>
vars == <<cpaVars, batch, storeVars, flowVars, statusVars, cancelled, faults>>

Init ==
  /\ published = 0 /\ queue = {} /\ stream = {} /\ batch = {}
  /\ link = "none" /\ shifted = FALSE
  /\ inbox = {} /\ consumed = {} /\ lost = [c \in Causes |-> {}]
  /\ pc = "probe" /\ via = "probe" /\ retryDue = FALSE /\ leftBehind = FALSE
  /\ error = FALSE /\ warning = FALSE /\ notification = FALSE
  /\ cancelled = FALSE /\ faults = 0

-----------------------------------------------------------------------------
(* The stages that pull: which stage a failure falls back to, where the     *)
(* runner goes on after it gave up, after a success, and after the inbox    *)
(* could not be written.                                                    *)

Fallback == [probeRedis |-> "probeHTTP", backfillRedis |-> "backfillHTTP",
             backfillHTTP |-> "receive", degradedRedis |-> "degradedHTTP",
             redis |-> "redisHTTP", recoverRedis |-> "recoverHTTP"]

(* Faulty: the fixed HTTP mode ends with an error. *)
GivenUpForGood == [probeHTTP |-> "probe", degradedHTTP |-> "degraded", redisHTTP |-> "redis",
                   recoverHTTP |-> "overHTTP", http |-> "stopped"]
GivenUp == [probeHTTP |-> "probe", degradedHTTP |-> "degraded", redisHTTP |-> "redis",
            recoverHTTP |-> "overHTTP", http |-> "http"]

Pulled == [probeRedis |-> "redis", probeHTTP |-> "http",
           backfillRedis |-> "receive", backfillHTTP |-> "receive",
           degradedRedis |-> "degraded", degradedHTTP |-> "degraded",
           redis |-> "redis", redisHTTP |-> "overHTTP",
           recoverRedis |-> "redis", recoverHTTP |-> "overHTTP", http |-> "http"]

AfterWriteFailure ==
  [probeRedis |-> "probe", probeHTTP |-> "probe",
   backfillRedis |-> "probe", backfillHTTP |-> "probe", window |-> "probe",
   brokenWindow |-> "probe", degradedRedis |-> "degraded", degradedHTTP |-> "degraded",
   redis |-> "redis", redisHTTP |-> "redis", recoverRedis |-> "overHTTP",
   recoverHTTP |-> "overHTTP", http |-> "http"]

Backfills == {"backfillRedis", "backfillHTTP"}
Windows == {"window", "brokenWindow"}

(* The stages of the bridging phases, where a recovery probe is scheduled.  *)
Bridging(stage) == stage \in {"degraded", "degradedRedis", "degradedHTTP", "overHTTP",
                              "recoverRedis", "recoverHTTP"}

Fault == faults < MaxFaults /\ faults' = faults + 1

(* Faulty: the metadata sync is told of warnings only. *)
RecordUntold(final) ==
  IF cancelled THEN UNCHANGED statusVars
  ELSE IF final THEN error' = TRUE /\ warning' = FALSE /\ UNCHANGED notification
                ELSE warning' = TRUE /\ notification' = FALSE /\ UNCHANGED error

(* recordFailure: nothing is recorded of a cancelled call. *)
Record(final) ==
  IF cancelled THEN UNCHANGED statusVars
  ELSE /\ notification' = FALSE
       /\ IF final THEN error' = TRUE /\ warning' = FALSE
                   ELSE warning' = TRUE /\ UNCHANGED error

(* recordAvailable, or recordState entering a healthy state. *)
RecordHealthy == error' = FALSE /\ warning' = FALSE

Lose(cause, messages) == lost' = [lost EXCEPT ![cause] = @ \cup messages]

CloseLink == link' = "none" /\ stream' = {} /\ shifted' = FALSE

(* The oldest messages of a queue, as many as a batch holds. *)
Oldest(S) == {m \in S : Cardinality({n \in S : n < m}) < BatchSize}

-----------------------------------------------------------------------------
(* CPA and the network. What is sent on a broken connection may be lost.    *)

Publish ==
  /\ published < MaxMessages
  /\ published' = published + 1
  /\ \/ link = "up" /\ stream' = stream \cup {published'} /\ UNCHANGED <<queue, lost>>
     \/ link # "up" /\ queue' = queue \cup {published'} /\ UNCHANGED <<stream, lost>>
     \/ link = "broken" /\ Lose("link", {published'}) /\ UNCHANGED <<queue, stream>>
  /\ UNCHANGED <<link, shifted, batch, inbox, consumed, flowVars, statusVars, cancelled, faults>>

LinkBreaks ==
  /\ link = "up" /\ Fault
  /\ link' = "broken"
  /\ \E arrived \in SUBSET stream :
       /\ \A m \in arrived : \A n \in stream : n < m => n \in arrived
       /\ stream' = arrived
       /\ Lose("link", stream \ arrived)
  /\ UNCHANGED <<published, queue, shifted, batch, inbox, consumed, flowVars, statusVars,
                 cancelled>>

RetryTimeComes ==
  /\ ~retryDue
  /\ Bridging(IF pc \in {"pause", "write"} THEN via ELSE pc)
  /\ retryDue' = TRUE
  /\ UNCHANGED <<cpaVars, batch, storeVars, pc, via, leftBehind, statusVars, cancelled, faults>>

Cancel ==
  /\ ~cancelled
  /\ cancelled' = TRUE
  /\ UNCHANGED <<cpaVars, batch, storeVars, flowVars, statusVars, faults>>

-----------------------------------------------------------------------------
(* Subscribing, at the start and as the recovery probe of a broken          *)
(* subscription. Every subscription begins with a backfill.                 *)

Subscribe ==
  /\ pc = "probe" \/ (pc = "degraded" /\ retryDue)
  /\ ~cancelled
  /\ link' = "up" /\ stream' = {} /\ shifted' = FALSE
  /\ pc' = "backfillRedis" /\ retryDue' = FALSE /\ leftBehind' = FALSE
  /\ RecordHealthy
  /\ UNCHANGED <<published, queue, batch, storeVars, via, notification, cancelled, faults>>

SubscribeFails ==
  /\ pc = "probe" \/ (pc = "degraded" /\ retryDue)
  /\ Fault
  /\ pc' = IF pc = "probe" THEN "probeRedis" ELSE "degradedRedis"
  /\ retryDue' = FALSE
  /\ Record(FALSE)
  /\ UNCHANGED <<cpaVars, batch, storeVars, via, leftBehind, cancelled>>

(* A bridging round: probe for Redis if it is time, else go on polling.     *)
BridgeRound ==
  /\ ~cancelled
  /\ \/ pc = "degraded" /\ ~retryDue /\ pc' = "degradedRedis"
     \/ pc = "overHTTP" /\ pc' = IF retryDue THEN "recoverRedis" ELSE "recoverHTTP"
  /\ UNCHANGED <<cpaVars, batch, storeVars, via, retryDue, leftBehind, statusVars, cancelled,
                 faults>>

-----------------------------------------------------------------------------
(* Pulling and writing. *)

(* A full batch means that more may be waiting; or, faulty, a batch of      *)
(* which that many were stored.                                             *)
FullStored(messages) == Cardinality(messages \ Controls) >= BatchSize
Full(messages) == Cardinality(messages) >= BatchSize

(* Stage is done with the messages it took. *)
Succeed(stage, messages) ==
  LET next == Pulled[stage]
  IN  /\ IF stage \in Backfills /\ Full(messages)
           THEN pc' = stage /\ UNCHANGED <<via, error, warning>>
           ELSE /\ RecordHealthy
                /\ IF Full(messages) \/ stage \in Backfills \cup {"probeRedis", "probeHTTP"}
                     THEN pc' = next /\ UNCHANGED via
                     ELSE pc' = "pause" /\ via' = next
      /\ retryDue' = IF stage \in {"redisHTTP", "recoverRedis"} THEN FALSE ELSE retryDue

Pull ==
  /\ pc \in DOMAIN Pulled /\ ~cancelled
  /\ queue' = queue \ Oldest(queue)
  /\ batch' = Oldest(queue)
  /\ IF queue = {}
       THEN Succeed(pc, {})
       ELSE pc' = "write" /\ via' = pc /\ UNCHANGED <<retryDue, error, warning>>
  /\ UNCHANGED <<published, link, stream, shifted, storeVars, leftBehind, notification,
                 cancelled, faults>>

(* The call fails; a reply that got lost took its messages with it.         *)
PullFails ==
  /\ pc \in DOMAIN Pulled
  /\ \/ Fault /\ (\E m \in {{}, Oldest(queue)} : queue' = queue \ m /\ Lose("reply", m))
     \/ cancelled /\ UNCHANGED <<faults, queue, lost>>
  /\ IF pc \in DOMAIN Fallback
       THEN /\ pc' = Fallback[pc] /\ UNCHANGED via
            /\ IF pc = "backfillHTTP" THEN RecordHealthy /\ notification' = (notification /\ cancelled)
                                      ELSE Record(FALSE)
       ELSE pc' = "pause" /\ via' = GivenUp[pc] /\ Record(TRUE)
  /\ leftBehind' = (leftBehind \/ pc = "backfillHTTP")
  /\ retryDue' = (retryDue /\ pc # "recoverRedis")
  /\ UNCHANGED <<published, link, stream, shifted, batch, inbox, consumed, cancelled>>

(* Faulty: control messages are stored like any other. *)
WriteAll ==
  /\ pc = "write" /\ ~cancelled /\ via # "brokenWindow"
  /\ inbox' = inbox \cup batch /\ batch' = {}
  /\ IF via = "window" THEN pc' = "receive" /\ UNCHANGED <<via, retryDue, error, warning>>
                       ELSE Succeed(via, batch)
  /\ UNCHANGED <<cpaVars, consumed, lost, leftBehind, notification, cancelled, faults>>

(* Control messages are acted upon before the others are stored.            *)
Write ==
  /\ pc = "write"
  /\ cancelled => batch \subseteq Controls
  /\ inbox' = inbox \cup (batch \ Controls)
  /\ consumed' = consumed \cup (batch \cap Controls)
  /\ batch' = {}
  /\ IF via = "brokenWindow"
       THEN /\ pc' = "degraded" /\ retryDue' = FALSE /\ UNCHANGED via
            /\ CloseLink /\ Lose("link", stream)
            /\ Record(TRUE)
       ELSE /\ notification' = (notification \/ batch \cap Controls # {})
            /\ UNCHANGED <<link, stream, shifted, lost>>
            /\ IF via = "window" THEN pc' = "receive" /\ UNCHANGED <<via, retryDue, error, warning>>
                                 ELSE Succeed(via, batch)
  /\ UNCHANGED <<published, queue, leftBehind, cancelled, faults>>

(* Popped messages that cannot be stored are gone; before the next are      *)
(* taken the runner pauses, without a subscription. A cancelled context     *)
(* fails the write as well.                                                 *)
WriteFails ==
  /\ pc = "write" /\ ~ (batch \subseteq Controls)
  /\ Fault \/ (cancelled /\ UNCHANGED faults)
  /\ consumed' = consumed \cup (batch \cap Controls)
  /\ batch' = {}
  /\ lost' = [lost EXCEPT !["write"] = @ \cup (batch \ Controls), !["link"] = @ \cup stream]
  /\ pc' = "pause" /\ via' = AfterWriteFailure[via]
  /\ error' = TRUE /\ warning' = FALSE /\ notification' = FALSE
  /\ CloseLink
  /\ UNCHANGED <<published, queue, inbox, retryDue, leftBehind, cancelled>>

(* Faulty: with every pause the next recovery probe is put off. *)
WakePostponing ==
  /\ pc = "pause" /\ ~cancelled
  /\ pc' = via /\ retryDue' = FALSE
  /\ UNCHANGED <<cpaVars, batch, storeVars, via, leftBehind, statusVars, cancelled, faults>>

Wake ==
  /\ pc = "pause" /\ ~cancelled
  /\ pc' = via
  /\ UNCHANGED <<cpaVars, batch, storeVars, via, retryDue, leftBehind, statusVars, cancelled,
                 faults>>

-----------------------------------------------------------------------------
(* Receiving. The first message opens a window; what arrives in it goes     *)
(* into one batch.                                                          *)

Receive ==
  /\ pc \in {"receive", "window"} /\ ~shifted /\ stream # {} /\ ~cancelled
  /\ \E m \in stream :
       /\ \A n \in stream : m <= n
       /\ batch' = batch \cup {m}
       /\ stream' = stream \ {m}
  /\ IF Full(batch') THEN pc' = "write" /\ via' = "window"
                     ELSE pc' = "window" /\ UNCHANGED via
  /\ UNCHANGED <<published, queue, link, shifted, storeVars, retryDue, leftBehind, statusVars,
                 cancelled, faults>>

WindowEnds ==
  /\ pc = "window"
  /\ pc' = "write" /\ via' = "window"
  /\ UNCHANGED <<cpaVars, batch, storeVars, retryDue, leftBehind, statusVars, cancelled, faults>>

(* The read deadline of the window passes inside a message: what was read   *)
(* of it is dropped.                                                        *)
WindowCutsMessage ==
  /\ pc = "window" /\ stream # {} /\ ~cancelled
  /\ \E m \in stream :
       /\ \A n \in stream : m <= n
       /\ stream' = stream \ {m}
       /\ Lose("frame", {m})
  /\ shifted' = TRUE
  /\ pc' = "write" /\ via' = "window"
  /\ UNCHANGED <<published, queue, link, batch, inbox, consumed, retryDue, leftBehind,
                 statusVars, cancelled, faults>>

(* The rest of a cut message may look like messages of no interest.         *)
Resynchronize ==
  /\ pc = "receive" /\ shifted /\ ~cancelled
  /\ shifted' = FALSE
  /\ UNCHANGED <<published, queue, link, stream, batch, storeVars, flowVars, statusVars,
                 cancelled, faults>>

(* Faulty: the batch begun goes with the connection. *)
DisconnectDropping ==
  /\ link = "broken" /\ stream = {} /\ pc \in {"receive", "window"}
  /\ pc' = "degraded" /\ retryDue' = FALSE /\ batch' = {}
  /\ CloseLink /\ Record(TRUE)
  /\ UNCHANGED <<published, queue, via, storeVars, leftBehind, cancelled, faults>>

(* The end of the stream, or the rest of a cut message, is an error: poll   *)
(* until the subscription is back, after a batch begun is written.          *)
Disconnect ==
  /\ \/ link = "broken" /\ stream = {}
     \/ shifted
  /\ \/ /\ pc = "receive"
        /\ pc' = "degraded" /\ retryDue' = FALSE /\ UNCHANGED via
        /\ CloseLink /\ Lose("link", stream)
        /\ Record(TRUE)
     \/ /\ pc = "window"
        /\ pc' = "write" /\ via' = "brokenWindow"
        /\ UNCHANGED <<retryDue, link, stream, shifted, lost, statusVars>>
  /\ UNCHANGED <<published, queue, batch, inbox, consumed, leftBehind, cancelled, faults>>

(* The loops and the pauses end when the application does. *)
Stop ==
  /\ cancelled
  /\ pc \in {"probe", "degraded", "redis", "overHTTP", "http", "receive", "pause"}
  /\ pc' = "stopped"
  /\ CloseLink /\ Lose("link", stream)
  /\ UNCHANGED <<published, queue, batch, inbox, consumed, via, retryDue, leftBehind,
                 statusVars, cancelled, faults>>

Environment == Publish \/ LinkBreaks \/ Cancel
Work == \/ Subscribe \/ BridgeRound \/ Pull \/ Write \/ Wake \/ Receive \/ WindowEnds
        \/ WindowCutsMessage \/ Resynchronize \/ Disconnect \/ Stop
Fail == SubscribeFails \/ PullFails \/ WriteFails
Next == Environment \/ RetryTimeComes \/ Work \/ Fail

Spec == Init /\ [][Next]_vars

(* The runner goes on, and the clock too. *)
FairSpec == Spec /\ WF_vars(Work \/ Fail) /\ WF_vars(RetryTimeComes)

-----------------------------------------------------------------------------
Stages == DOMAIN Pulled

TypeOK ==
  /\ published \in 0 .. MaxMessages
  /\ queue \subseteq Messages /\ stream \subseteq Messages /\ batch \subseteq Messages
  /\ inbox \subseteq Messages \ Controls /\ consumed \subseteq Controls
  /\ lost \in [Causes -> SUBSET Messages]
  /\ link \in {"none", "up", "broken"} /\ shifted \in BOOLEAN
  /\ pc \in Stages \cup {"probe", "degraded", "overHTTP", "receive", "window", "write",
                         "pause", "stopped"}
  /\ via \in Stages \cup {"probe", "degraded", "overHTTP"} \cup Windows
  /\ pc = "write" => via \in Stages \cup Windows
  /\ retryDue \in BOOLEAN /\ leftBehind \in BOOLEAN
  /\ error \in BOOLEAN /\ warning \in BOOLEAN /\ notification \in BOOLEAN
  /\ cancelled \in BOOLEAN /\ faults \in 0 .. MaxFaults

Places == <<queue, stream, batch, inbox, consumed,
            lost["write"], lost["reply"], lost["link"], lost["frame"]>>

(* Every message CPA sent is in one place only: none is stored twice, none  *)
(* disappears but with a failed write, a lost reply or a connection.        *)
Accounted ==
  /\ UNION {Places[i] : i \in DOMAIN Places} = 1 .. published
  /\ \A i, j \in DOMAIN Places : i # j => Places[i] \cap Places[j] = {}

(* Subscribing comes before the backfill and the backfill goes on while     *)
(* batches are full: under a live subscription that is being read, nothing  *)
(* is left in CPA's queue unless the backfill failed.                       *)
BackfillComplete ==
  link = "up" /\ (pc \in {"receive", "window"} \/ (pc = "write" /\ via \in Windows))
    => queue = {} \/ leftBehind

(* Whenever a subscription is given up, a refresh may have been lost with   *)
(* it: the metadata sync polls again.                                       *)
LinkLossMeansPolling ==
  [][link # "none" /\ link' = "none" /\ ~cancelled => ~notification']_vars

(* Bridging ends: the subscription, or the Redis queue, is tried again and  *)
(* comes back, if nothing fails any more.                                   *)
BridgingEnds ==
  /\ pc = "degraded" ~> (link = "up" \/ cancelled)
  /\ pc = "overHTTP" ~> (pc = "redis" \/ cancelled)

(* CPA's queue does not hold a message for ever, except one that a failed   *)
(* backfill left behind.                                                    *)
QueueDrained ==
  \A m \in Messages : m \in queue ~> (m \notin queue \/ leftBehind \/ cancelled)

(* The comment in receiveSubscribeBatches: a batch begun is written before  *)
(* the window ends or the connection does, so only the inbox loses it.      *)
BatchWritten == lost["write"] # {} => faults > 0

(* The comment beside it: no message is lost because a later read times out.*)
NoLossByTimeout == lost["frame"] = {}

(* The comment on SyncRunning in Status: it turns false only when all ways  *)
(* in failed; the HTTP queue is the last of each.                           *)
ErrorOnlyIfAllFail ==
  [][error' /\ ~error => pc \in {"probeHTTP", "degradedHTTP", "redisHTTP", "recoverHTTP",
                                 "http"}]_vars

(* The ingest comes back from every detour: to the live link, and to a      *)
(* queue of CPA that it empties.                                            *)
IngestRecovers == BridgingEnds /\ QueueDrained

=============================================================================
