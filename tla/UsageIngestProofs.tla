-------------------------- MODULE UsageIngestProofs --------------------------
(***************************************************************************)
(* No message is stored twice or disappears unaccounted for, a backfill is *)
(* complete, and a subscription given up means polling: for every number   *)
(* of messages, every set of control messages, batch size and number of    *)
(* faults.                                                                 *)
(***************************************************************************)
EXTENDS UsageIngest, FiniteSetTheorems, WellFoundedInduction, TLAPS

USE DEF Causes

\* What the places hold, for the provers.
Types ==
  /\ published \in Nat
  /\ queue \in SUBSET Nat /\ stream \in SUBSET Nat /\ batch \in SUBSET Nat
  /\ inbox \in SUBSET Nat /\ consumed \in SUBSET Nat
  /\ lost \in [Causes -> SUBSET Nat]

Somewhere(m) ==
  \/ m \in queue \/ m \in stream \/ m \in batch \/ m \in inbox \/ m \in consumed
  \/ m \in lost["write"] \/ m \in lost["reply"] \/ m \in lost["link"] \/ m \in lost["frame"]

\* In no two places.
Single(m) ==
  /\ m \in queue => m \notin stream /\ m \notin batch /\ m \notin inbox /\ m \notin consumed
  /\ m \in stream => m \notin batch /\ m \notin inbox /\ m \notin consumed
  /\ m \in batch => m \notin inbox /\ m \notin consumed
  /\ m \in inbox => m \notin consumed
  /\ m \in queue \/ m \in stream \/ m \in batch \/ m \in inbox \/ m \in consumed =>
       m \notin lost["write"] /\ m \notin lost["reply"] /\ m \notin lost["link"] /\ m \notin lost["frame"]
  /\ m \in lost["write"] => m \notin lost["reply"] /\ m \notin lost["link"] /\ m \notin lost["frame"]
  /\ m \in lost["reply"] => m \notin lost["link"] /\ m \notin lost["frame"]
  /\ m \in lost["link"] => m \notin lost["frame"]

Placed == \A m \in Nat : Single(m) /\ (Somewhere(m) <=> 1 <= m /\ m <= published)

\* The stages that have a subscription.
Linked == pc \in Backfills \cup {"receive", "window"} \/ (pc = "write" /\ via \in Backfills \cup Windows)

\* Only a window or a write has messages in hand, and only a subscription some under way.
Shape ==
  /\ pc \in {"window", "write"} \/ batch = {}
  /\ link = "none" => stream = {}
  /\ link # "none" => Linked

Inv == Types /\ Placed /\ Shape

-----------------------------------------------------------------------------
\* The stages of the runner in which it has asked for messages.
LEMMA StagesAre ==
  DOMAIN Pulled = {"probeRedis", "probeHTTP", "backfillRedis", "backfillHTTP", "degradedRedis",
                   "degradedHTTP", "redis", "redisHTTP", "recoverRedis", "recoverHTTP", "http"}
BY DEF Pulled

\* A backfill that fails goes on to the next one, or to the stream.
LEMMA BackfillsFallBack ==
  /\ Backfills \subseteq DOMAIN Fallback
  /\ \A stage \in Backfills : Fallback[stage] \in Backfills \cup {"receive"}
BY DEF Fallback, Backfills

\* The start satisfies the inductive invariant: there is no message yet.
LEMMA InvInit == Init => Inv
BY DEF Init, Inv, Types, Placed, Single, Somewhere, Shape

\* A batch is taken from the queue.
LEMMA OldestOf == Oldest(queue) \subseteq queue
BY DEF Oldest

-----------------------------------------------------------------------------
(* CPA and the network.                                                     *)

\* A message of CPA is in the queue, or in the stream of a subscriber.
LEMMA PublishKeeps == Inv /\ Publish => Inv'
<1> SUFFICES ASSUME Inv, Publish PROVE Inv' OBVIOUS
<1> USE DEF Inv
<1>1. /\ published' = published + 1
      /\ \/ /\ link = "up" /\ stream' = stream \cup {published'} /\ queue' = queue /\ lost' = lost
         \/ /\ link # "up" /\ queue' = queue \cup {published'} /\ stream' = stream /\ lost' = lost
         \/ /\ link = "broken" /\ lost' = [lost EXCEPT !["link"] = @ \cup {published'}]
            /\ queue' = queue /\ stream' = stream
      /\ UNCHANGED <<link, batch, inbox, consumed, pc, via>>
  BY DEF Publish, Lose, flowVars
<1>2. Types'
  <2>1. published' \in Nat BY <1>1 DEF Types
  <2>2. lost' \in [Causes -> SUBSET Nat]
    <3>1. CASE lost' = lost BY <3>1 DEF Types
    <3>2. CASE lost' = [lost EXCEPT !["link"] = @ \cup {published'}]
      <4>1. lost["link"] \cup {published'} \in SUBSET Nat BY <2>1 DEF Types
      <4> QED BY <3>2, <4>1 DEF Types
    <3> QED BY <1>1, <3>1, <3>2
  <2>3. queue' \in SUBSET Nat /\ stream' \in SUBSET Nat BY <1>1, <2>1 DEF Types
  <2> QED BY <1>1, <2>1, <2>2, <2>3 DEF Types
<1>3. \A m \in Nat : Single(m)' /\ (Somewhere(m)' <=> 1 <= m /\ m <= published + 1)
  BY <1>1 DEF Types, Placed, Single, Somewhere
<1>4. Shape' BY <1>1 DEF Shape, Linked
<1> QED BY <1>1, <1>2, <1>3, <1>4 DEF Placed

\* With the link the messages in the stream are lost.
LEMMA LinkBreaksKeeps == Inv /\ LinkBreaks => Inv'
<1> SUFFICES ASSUME Inv, LinkBreaks PROVE Inv' OBVIOUS
<1> USE DEF Inv
<1>1. PICK arrived \in SUBSET stream :
        /\ stream' = arrived
        /\ lost' = [lost EXCEPT !["link"] = @ \cup (stream \ arrived)]
  BY DEF LinkBreaks, Lose
<1>2. /\ link = "up" /\ link' = "broken"
      /\ UNCHANGED <<published, queue, batch, inbox, consumed, pc, via>>
  BY DEF LinkBreaks, flowVars
<1>3. Types' BY <1>1, <1>2 DEF Types
<1>4. Placed' BY <1>1, <1>2 DEF Types, Placed, Single, Somewhere
<1>5. Shape' BY <1>1, <1>2 DEF Shape, Linked
<1> QED BY <1>3, <1>4, <1>5

-----------------------------------------------------------------------------
(* The runner.                                                              *)

\* What subscribing, pausing and the like leave as it is.
Idle == UNCHANGED <<published, queue, batch, inbox, consumed, lost>>

\* A subscription begins with an empty stream.
LEMMA SubscribeKeeps == Inv /\ Subscribe => Inv'
<1> SUFFICES ASSUME Inv, Subscribe PROVE Inv' OBVIOUS
<1> USE DEF Inv
<1>1. /\ pc \in {"probe", "degraded"} /\ pc' = "backfillRedis" /\ stream' = {} /\ Idle
  BY DEF Subscribe, Idle, storeVars
<1>2. stream = {} /\ batch = {} BY <1>1 DEF Shape, Linked, Backfills, Windows
<1>3. Types' BY <1>1 DEF Types, Idle
<1>4. Placed' BY <1>1, <1>2 DEF Types, Placed, Single, Somewhere, Idle
<1>5. Shape' BY <1>1, <1>2 DEF Shape, Linked, Backfills, Idle
<1> QED BY <1>3, <1>4, <1>5

\* Steps that only move pc, without a subscription or within one.
LEMMA MovesKeep ==
  ASSUME Inv, Idle, UNCHANGED <<link, stream>>, link # "none" => Linked',
         pc' \in {"window", "write"} \/ batch = {}
  PROVE  Inv'
<1> USE DEF Inv
<1>1. Types' BY DEF Types, Idle
<1>2. Placed' BY DEF Types, Placed, Single, Somewhere, Idle
<1>3. Shape' BY DEF Shape, Idle
<1> QED BY <1>1, <1>2, <1>3

\* These move no message.
LEMMA QuietKeeps ==
  ASSUME Inv, \/ SubscribeFails \/ BridgeRound \/ Wake \/ WindowEnds \/ Resynchronize
              \/ RetryTimeComes \/ Cancel
  PROVE  Inv'
<1>1. /\ Idle /\ UNCHANGED <<link, stream>>
      /\ \/ pc \in {"probe", "degraded", "overHTTP", "pause"}
         \/ pc = "window" /\ pc' = "write" /\ via' = "window"
         \/ pc' = pc /\ via' = via
  BY DEF SubscribeFails, BridgeRound, Wake, WindowEnds, Resynchronize, RetryTimeComes, Cancel,
         Idle, cpaVars, storeVars, flowVars
<1>2. link # "none" => Linked'
  BY <1>1 DEF Inv, Shape, Linked, Backfills, Windows
<1>3. pc' \in {"window", "write"} \/ batch = {}
  BY <1>1 DEF Inv, Shape
<1> QED BY <1>1, <1>2, <1>3, MovesKeep

\* Where a stage goes on that is done with its messages.
LEMMA SucceedGoesOn ==
  ASSUME NEW stage \in DOMAIN Pulled, NEW messages, Succeed(stage, messages)
  PROVE  /\ stage \in Backfills => pc' = stage \/ pc' = "receive"
         /\ Full(messages) /\ stage \in Backfills => pc' = stage
         /\ stage \notin Backfills => pc' \notin Backfills \cup {"receive", "window", "write"}
<1>1. CASE stage \in Backfills
  BY <1>1, StagesAre DEF Succeed, Pulled, Backfills
<1>2. CASE stage \notin Backfills
  <2>1. pc' = "pause" \/ pc' = Pulled[stage] BY <1>2 DEF Succeed
  <2>2. Pulled[stage] \notin Backfills \cup {"receive", "window", "write"}
    BY <1>2, StagesAre DEF Pulled, Backfills
  <2> QED BY <1>2, <2>1, <2>2 DEF Backfills
<1> QED BY <1>1, <1>2

\* A pulled batch is on its way from the queue to the inbox.
LEMMA PullKeeps == Inv /\ Pull => Inv'
<1> SUFFICES ASSUME Inv, Pull PROVE Inv' OBVIOUS
<1> USE DEF Inv
<1>1. /\ pc \in DOMAIN Pulled /\ queue' = queue \ Oldest(queue) /\ batch' = Oldest(queue)
      /\ UNCHANGED <<published, link, stream, inbox, consumed, lost>>
  BY DEF Pull, storeVars
<1>2. batch = {} BY <1>1, StagesAre DEF Shape
<1>3. Types' BY <1>1, OldestOf DEF Types
<1>4. Placed' BY <1>1, <1>2, OldestOf DEF Types, Placed, Single, Somewhere
<1>5. link # "none" => pc \in Backfills BY <1>1, StagesAre DEF Shape, Linked, Windows
<1>6. Shape'
  <2>1. CASE queue = {}
    <3>1. Succeed(pc, {}) BY <2>1 DEF Pull
    <3>2. batch' = {} BY <1>1, <2>1, OldestOf
    <3>3. link' # "none" => Linked' BY <1>1, <1>5, <3>1, SucceedGoesOn DEF Linked, Backfills
    <3> QED BY <1>1, <3>2, <3>3 DEF Shape
  <2>2. CASE queue # {}
    <3>1. pc' = "write" /\ via' = pc BY <2>2 DEF Pull
    <3> QED BY <1>1, <1>5, <3>1 DEF Shape, Linked
  <2> QED BY <2>1, <2>2
<1> QED BY <1>3, <1>4, <1>6

\* A pull that fails moves no message, or loses those CPA has given away.
LEMMA PullFailsKeeps == Inv /\ PullFails => Inv'
<1> SUFFICES ASSUME Inv, PullFails PROVE Inv' OBVIOUS
<1> USE DEF Inv
<1>1. PICK taken \in SUBSET queue :
        queue' = queue \ taken /\ lost' = [lost EXCEPT !["reply"] = @ \cup taken]
  <2>1. CASE cancelled /\ UNCHANGED <<queue, lost>>
    <3>1. lost' = [lost EXCEPT !["reply"] = @ \cup {}] BY <2>1 DEF Types
    <3> QED BY <2>1, <3>1
  <2>2. CASE \E m \in {{}, Oldest(queue)} : queue' = queue \ m /\ Lose("reply", m)
    BY <2>2, OldestOf DEF Lose
  <2> QED BY <2>1, <2>2 DEF PullFails
<1>2. pc \in DOMAIN Pulled /\ UNCHANGED <<published, link, stream, batch, inbox, consumed>>
  BY DEF PullFails
<1>3. Types' BY <1>1, <1>2 DEF Types
<1>4. Placed' BY <1>1, <1>2 DEF Types, Placed, Single, Somewhere
<1>5. batch = {} /\ (link # "none" => pc \in Backfills)
  BY <1>2, StagesAre DEF Shape, Linked, Windows
<1>6. pc \in Backfills => pc' \in Backfills \cup {"receive"}
  <2> SUFFICES ASSUME pc \in Backfills PROVE pc' \in Backfills \cup {"receive"} OBVIOUS
  <2>1. pc' = Fallback[pc] BY BackfillsFallBack DEF PullFails
  <2> QED BY <2>1, BackfillsFallBack
<1>7. Shape' BY <1>2, <1>5, <1>6 DEF Shape, Linked
<1> QED BY <1>3, <1>4, <1>7

\* A written batch is in the inbox.
LEMMA WriteKeeps == Inv /\ Write => Inv'
<1> SUFFICES ASSUME Inv, Write PROVE Inv' OBVIOUS
<1> USE DEF Inv
<1>1. /\ pc = "write" /\ batch' = {} /\ UNCHANGED <<published, queue>>
      /\ inbox' = inbox \cup (batch \ Controls) /\ consumed' = consumed \cup (batch \cap Controls)
  BY DEF Write
<1>2. PICK cut \in SUBSET stream :
        /\ stream' = stream \ cut
        /\ lost' = [lost EXCEPT !["link"] = @ \cup cut]
        /\ \/ link' = "none" /\ stream' = {}
           \/ link' = link /\ \/ via = "window" /\ pc' = "receive"
                              \/ via # "window" /\ via # "brokenWindow" /\ Succeed(via, batch)
  <2>1. CASE via = "brokenWindow"
    <3>1. link' = "none" /\ stream' = {} /\ lost' = [lost EXCEPT !["link"] = @ \cup stream]
      BY <2>1 DEF Write, CloseLink, Lose
    <3> QED BY <3>1
  <2>2. CASE via # "brokenWindow"
    <3>1. link' = link /\ stream' = stream \ {} /\ lost' = lost
      BY <2>2 DEF Write
    <3>2. lost' = [lost EXCEPT !["link"] = @ \cup {}] BY <3>1 DEF Types
    <3>3. \/ via = "window" /\ pc' = "receive"
          \/ via # "window" /\ Succeed(via, batch)
      BY <2>2 DEF Write
    <3> QED BY <2>2, <3>1, <3>2, <3>3
  <2> QED BY <2>1, <2>2
<1>3. Types' BY <1>1, <1>2 DEF Types
<1>4. Placed' BY <1>1, <1>2 DEF Types, Placed, Single, Somewhere
<1>5. link' # "none" => Linked'
  <2> SUFFICES ASSUME link' # "none" PROVE Linked' OBVIOUS
  <2>1. CASE via = "window" BY <1>2, <2>1 DEF Linked
  <2>2. CASE via # "window"
    <3>1. link' = link /\ via # "brokenWindow" /\ Succeed(via, batch) BY <1>2, <2>2
    <3>2. via \in Backfills BY <1>1, <2>2, <3>1 DEF Shape, Linked, Windows, Backfills
    <3>3. via \in DOMAIN Pulled BY <3>2, StagesAre DEF Backfills
    <3> QED BY <3>1, <3>2, <3>3, SucceedGoesOn DEF Linked
  <2> QED BY <2>1, <2>2
<1>6. link' = "none" => stream' = {} BY <1>2 DEF Shape
<1>7. Shape' BY <1>1, <1>5, <1>6 DEF Shape
<1> QED BY <1>3, <1>4, <1>7

\* A batch that cannot be written is lost, but for its control messages.
LEMMA WriteFailsKeeps == Inv /\ WriteFails => Inv'
<1> SUFFICES ASSUME Inv, WriteFails PROVE Inv' OBVIOUS
<1> USE DEF Inv
<1>1. /\ batch' = {} /\ stream' = {} /\ link' = "none"
      /\ UNCHANGED <<published, queue, inbox>>
      /\ consumed' = consumed \cup (batch \cap Controls)
  BY DEF WriteFails, CloseLink
<1>2. lost' = [c \in Causes |-> CASE c = "write" -> lost[c] \cup (batch \ Controls)
                                  [] c = "link" -> lost[c] \cup stream
                                  [] OTHER -> lost[c]]
  BY DEF WriteFails, Types
<1>3. /\ lost'["write"] = lost["write"] \cup (batch \ Controls)
      /\ lost'["link"] = lost["link"] \cup stream
      /\ lost'["reply"] = lost["reply"] /\ lost'["frame"] = lost["frame"]
  BY <1>2
<1>4. Types'
  <2>1. lost' \in [Causes -> SUBSET Nat] BY <1>2 DEF Types
  <2> QED BY <1>1, <2>1 DEF Types
<1>5. Placed' BY <1>1, <1>3 DEF Types, Placed, Single, Somewhere
<1>6. Shape' BY <1>1 DEF Shape
<1> QED BY <1>4, <1>5, <1>6

\* A received message is out of the stream.
LEMMA ReceiveKeeps == Inv /\ (Receive \/ WindowCutsMessage) => Inv'
<1> SUFFICES ASSUME Inv, Receive \/ WindowCutsMessage PROVE Inv' OBVIOUS
<1> USE DEF Inv
<1>1. CASE Receive
  <2>1. PICK m \in stream : batch' = batch \cup {m} /\ stream' = stream \ {m}
    BY <1>1 DEF Receive
  <2>2. UNCHANGED <<published, queue, link, inbox, consumed, lost>>
    BY <1>1 DEF Receive, storeVars
  <2>3. pc' = "window" \/ (pc' = "write" /\ via' = "window") BY <1>1 DEF Receive
  <2>4. Types' BY <2>1, <2>2 DEF Types
  <2>5. Placed' BY <2>1, <2>2 DEF Types, Placed, Single, Somewhere
  <2>6. Shape' BY <2>1, <2>2, <2>3 DEF Shape, Linked, Windows
  <2> QED BY <2>4, <2>5, <2>6
<1>2. CASE WindowCutsMessage
  <2>1. PICK m \in stream :
          stream' = stream \ {m} /\ lost' = [lost EXCEPT !["frame"] = @ \cup {m}]
    BY <1>2 DEF WindowCutsMessage, Lose
  <2>2. pc' = "write" /\ via' = "window" /\ UNCHANGED <<published, queue, link, batch, inbox, consumed>>
    BY <1>2 DEF WindowCutsMessage
  <2>3. Types' BY <2>1, <2>2 DEF Types
  <2>4. Placed' BY <2>1, <2>2 DEF Types, Placed, Single, Somewhere
  <2>5. Shape' BY <2>1, <2>2 DEF Shape, Linked, Windows
  <2> QED BY <2>3, <2>4, <2>5
<1> QED BY <1>1, <1>2

\* The connection is closed, and what was under way on it is lost.
LEMMA ClosedKeeps ==
  ASSUME Inv, CloseLink, Lose("link", stream), pc \notin {"window", "write"},
         UNCHANGED <<published, queue, batch, inbox, consumed>>
  PROVE  Inv'
<1> USE DEF Inv
<1>1. link' = "none" /\ stream' = {} /\ lost' = [lost EXCEPT !["link"] = @ \cup stream]
  BY DEF CloseLink, Lose
<1>2. Types' BY <1>1 DEF Types
<1>3. Placed' BY <1>1 DEF Types, Placed, Single, Somewhere
<1>4. Shape' BY <1>1 DEF Shape
<1> QED BY <1>2, <1>3, <1>4

\* What a subscription leaves in its stream is lost with it.
LEMMA DisconnectKeeps == Inv /\ (Disconnect \/ Stop) => Inv'
<1> SUFFICES ASSUME Inv, Disconnect \/ Stop PROVE Inv' OBVIOUS
<1>1. CASE Stop
  <2>1. CloseLink /\ Lose("link", stream) /\ pc \notin {"window", "write"} BY <1>1 DEF Stop
  <2> QED BY <1>1, <2>1, ClosedKeeps DEF Stop
<1>2. CASE Disconnect /\ pc = "receive"
  <2>1. CloseLink /\ Lose("link", stream) BY <1>2 DEF Disconnect
  <2> QED BY <1>2, <2>1, ClosedKeeps DEF Disconnect
<1>3. CASE Disconnect /\ pc # "receive"
  <2>1. /\ Idle /\ UNCHANGED <<link, stream>> /\ pc' = "write" /\ via' = "brokenWindow"
    BY <1>3 DEF Disconnect, Idle
  <2>2. Linked' BY <2>1 DEF Linked, Windows
  <2> QED BY <2>1, <2>2, MovesKeep
<1> QED BY <1>1, <1>2, <1>3

\* A step keeps the inductive invariant.
LEMMA InvStep == Inv /\ [Next]_vars => Inv'
<1> SUFFICES ASSUME Inv, [Next]_vars PROVE Inv' OBVIOUS
<1>1. CASE UNCHANGED vars
  BY <1>1 DEF vars, cpaVars, storeVars, flowVars, Inv, Types, Placed, Single, Somewhere, Shape, Linked
<1>2. CASE Environment \/ RetryTimeComes
  BY <1>2, PublishKeeps, LinkBreaksKeeps, QuietKeeps DEF Environment
<1>3. CASE Work
  BY <1>3, SubscribeKeeps, QuietKeeps, PullKeeps, WriteKeeps, ReceiveKeeps, DisconnectKeeps DEF Work
<1>4. CASE Fail BY <1>4, QuietKeeps, PullFailsKeeps, WriteFailsKeeps DEF Fail
<1> QED BY <1>1, <1>2, <1>3, <1>4 DEF Next

\* The messages are where the stage of the runner says they are.
THEOREM Invariance == Spec => []Inv
BY InvInit, InvStep, PTL DEF Spec

\* Where every message is at one place, it is accounted for.
LEMMA InvAccounts == Inv => Accounted
<1> SUFFICES ASSUME Inv PROVE Accounted OBVIOUS
<1> DEFINE P == Places
<1>1. /\ DOMAIN P = 1 .. 9
      /\ P[1] = queue /\ P[2] = stream /\ P[3] = batch /\ P[4] = inbox /\ P[5] = consumed
      /\ P[6] = lost["write"] /\ P[7] = lost["reply"] /\ P[8] = lost["link"]
      /\ P[9] = lost["frame"]
  BY DEF Places
<1> HIDE DEF P
<1>2. \A i \in 1 .. 9 : i \in {1, 2, 3, 4, 5, 6, 7, 8, 9} OBVIOUS
<1>3. \A i \in 1 .. 9 : P[i] \subseteq Nat BY <1>1, <1>2 DEF Inv, Types
<1>4. \A m \in Nat : Somewhere(m) <=> \E i \in 1 .. 9 : m \in P[i]
  BY <1>1, <1>2 DEF Somewhere
<1>5. UNION {P[i] : i \in DOMAIN P} = 1 .. published
  <2>1. \A m \in UNION {P[i] : i \in DOMAIN P} : m \in 1 .. published
    <3> TAKE m \in UNION {P[i] : i \in DOMAIN P}
    <3>1. PICK i \in 1 .. 9 : m \in P[i] BY <1>1
    <3>2. m \in Nat /\ Somewhere(m) BY <1>3, <1>4, <3>1
    <3> QED BY <3>2 DEF Inv, Types, Placed
  <2>2. \A m \in 1 .. published : m \in UNION {P[i] : i \in DOMAIN P}
    <3> TAKE m \in 1 .. published
    <3>1. m \in Nat /\ Somewhere(m) BY DEF Inv, Types, Placed
    <3> QED BY <1>1, <1>4, <3>1
  <2> QED BY <2>1, <2>2
<1>6. \A i, j \in DOMAIN P : i # j => P[i] \cap P[j] = {}
  <2> SUFFICES ASSUME NEW i \in 1 .. 9, NEW j \in 1 .. 9, i < j, NEW m \in P[i], m \in P[j]
               PROVE  FALSE
    BY <1>1
  <2>1. m \in Nat /\ Single(m) BY <1>3 DEF Inv, Placed
  <2> QED BY <1>1, <1>2, <2>1 DEF Single
<1> QED BY <1>5, <1>6 DEF Accounted, P

\* Every message CPA sent is in exactly one place, stored once or lost for one of the causes
\* of the model, in all stages of redis_ingest_runner.go.
THEOREM AlwaysAccounted == Spec => []Accounted
BY Invariance, InvAccounts, PTL

-----------------------------------------------------------------------------
(* The end of a subscription.                                               *)

\* Without its link the metadata sync relies on notifications no more.
LEMMA LinkLoss ==
  ASSUME [Next]_vars, link # "none", link' = "none", ~cancelled
  PROVE  ~notification'
<1>1. CASE UNCHANGED vars BY <1>1 DEF vars, cpaVars
<1>2. CASE Environment \/ RetryTimeComes \/ SubscribeFails \/ PullFails
  BY <1>2 DEF Environment, Publish, LinkBreaks, Cancel, RetryTimeComes, SubscribeFails, PullFails,
     cpaVars
<1>3. CASE Write BY <1>3 DEF Write, Record
<1>4. CASE WriteFails BY <1>4 DEF WriteFails
<1>5. CASE Disconnect BY <1>5 DEF Disconnect, Record
<1>6. CASE Stop BY <1>6 DEF Stop
<1>7. CASE Subscribe \/ BridgeRound \/ Pull \/ Wake \/ Receive \/ WindowEnds
           \/ WindowCutsMessage \/ Resynchronize
  BY <1>7 DEF Subscribe, BridgeRound, Pull, Wake, Receive, WindowEnds, WindowCutsMessage,
     Resynchronize, cpaVars
<1> QED BY <1>1, <1>2, <1>3, <1>4, <1>5, <1>6, <1>7 DEF Next, Work, Fail

\* With a subscription given up, the metadata sync polls again: each path on which
\* redis_ingest_runner.go closes one also tells it so.
THEOREM LinkLossPolls == Spec => LinkLossMeansPolling
<1>1. [Next]_vars => [link # "none" /\ link' = "none" /\ ~cancelled => ~notification']_vars
  BY LinkLoss
<1> QED BY <1>1, PTL DEF Spec, LinkLossMeansPolling

-----------------------------------------------------------------------------
(* The backfill.                                                            *)

\* A batch smaller than the most a pull takes is the whole queue.
LEMMA SmallQueueTaken ==
  ASSUME NEW S \in SUBSET Nat, IsFiniteSet(S), Cardinality(Oldest(S)) < BatchSize
  PROVE  Oldest(S) = S
<1> SUFFICES ASSUME S \ Oldest(S) # {} PROVE FALSE BY DEF Oldest
<1>1. PICK m \in S \ Oldest(S) : \A n \in S \ Oldest(S) : ~ (<<n, m>> \in OpToRel(<, Nat))
  BY NatLessThanWellFounded, WFMin
<1>2. \A n \in S : n < m => n \in Oldest(S) BY <1>1 DEF OpToRel
<1>3. {n \in S : n < m} \in SUBSET Oldest(S) BY <1>2
<1>4. Oldest(S) \in SUBSET S BY DEF Oldest
<1>5. IsFiniteSet(Oldest(S)) BY <1>4, FS_Subset
<1>6. /\ IsFiniteSet({n \in S : n < m})
      /\ Cardinality({n \in S : n < m}) <= Cardinality(Oldest(S))
  BY <1>3, <1>5, FS_Subset
<1>7. Cardinality({n \in S : n < m}) \in Nat /\ Cardinality(Oldest(S)) \in Nat
  BY <1>5, <1>6, FS_CardinalityType
<1>8. Cardinality({n \in S : n < m}) < BatchSize
  BY <1>6, <1>7, IngestConstants
<1> QED BY <1>1, <1>8 DEF Oldest

\* The queue is finite.
LEMMA QueueFinite == Inv => IsFiniteSet(queue)
<1> SUFFICES ASSUME Inv PROVE IsFiniteSet(queue) OBVIOUS
<1>1. queue \in SUBSET (1 .. published) BY DEF Inv, Types, Placed, Somewhere
<1>2. IsFiniteSet(1 .. published) BY FS_Interval DEF Inv, Types
<1> QED BY <1>1, <1>2, FS_Subset

\* A batch that is not full was all there is.
LastBatch ==
  link = "up" /\ pc = "write" /\ via \in Backfills /\ Cardinality(batch) < BatchSize
    => queue = {} \/ leftBehind

Backfilled == BackfillComplete /\ LastBatch

\* A step keeps the backfill complete.
LEMMA BackfilledStep == Inv /\ Backfilled /\ [Next]_vars => Backfilled'
<1> SUFFICES ASSUME Inv, Backfilled, [Next]_vars PROVE Backfilled' OBVIOUS
<1> USE DEF Backfilled
<1>1. CASE UNCHANGED vars
  BY <1>1 DEF vars, cpaVars, flowVars, BackfillComplete, LastBatch
<1>2. CASE Publish
  BY <1>2 DEF Publish, flowVars, BackfillComplete, LastBatch
<1>3. CASE LinkBreaks
  BY <1>3 DEF LinkBreaks, BackfillComplete, LastBatch
<1>4. CASE Cancel \/ RetryTimeComes \/ Resynchronize
  BY <1>4 DEF Cancel, RetryTimeComes, Resynchronize, cpaVars, flowVars, BackfillComplete, LastBatch
<1>5. CASE Subscribe BY <1>5 DEF Subscribe, BackfillComplete, LastBatch
<1>6. CASE SubscribeFails BY <1>6 DEF SubscribeFails, BackfillComplete, LastBatch
<1>7. CASE BridgeRound BY <1>7 DEF BridgeRound, BackfillComplete, LastBatch
<1>8. CASE Pull
  <2>1. CASE queue = {}
    <3>1. queue' = {} BY <1>8, <2>1 DEF Pull
    <3> QED BY <3>1 DEF BackfillComplete, LastBatch
  <2>2. CASE queue # {}
    <3>1. pc' = "write" /\ via' = pc /\ pc \in DOMAIN Pulled BY <1>8, <2>2 DEF Pull
    <3>2. via' \notin Windows BY <3>1, StagesAre DEF Windows
    <3>3. Cardinality(batch') < BatchSize => queue' = {}
      <4>1. queue' = queue \ Oldest(queue) /\ batch' = Oldest(queue) BY <1>8 DEF Pull
      <4> QED BY <4>1, SmallQueueTaken, QueueFinite DEF Inv, Types
    <3> QED BY <3>1, <3>2, <3>3 DEF BackfillComplete, LastBatch
  <2> QED BY <2>1, <2>2
<1>9. CASE PullFails
  <2>1. pc \in DOMAIN Pulled BY <1>9 DEF PullFails
  <2>2. CASE pc = "backfillHTTP"
    BY <1>9, <2>2 DEF PullFails, BackfillComplete, LastBatch
  <2>3. CASE pc = "backfillRedis"
    BY <1>9, <2>3 DEF PullFails, Fallback, BackfillComplete, LastBatch
  <2>4. CASE pc \notin Backfills
    BY <1>9, <2>1, <2>4, StagesAre DEF PullFails, Inv, Shape, Linked, Windows, BackfillComplete, LastBatch
  <2> QED BY <2>2, <2>3, <2>4 DEF Backfills
<1>10. CASE Write
  <2> SUFFICES ASSUME link' = "up" PROVE Backfilled' BY DEF BackfillComplete, LastBatch
  <2>1. /\ via # "brokenWindow" /\ link = "up" /\ pc = "write"
        /\ UNCHANGED <<queue, leftBehind>>
    BY <1>10 DEF Write, CloseLink
  <2>2. CASE via = "window"
    <3>1. pc' = "receive" /\ (queue = {} \/ leftBehind)
      BY <1>10, <2>1, <2>2 DEF Write, BackfillComplete, Windows
    <3> QED BY <2>1, <3>1 DEF BackfillComplete, LastBatch
  <2>3. CASE via # "window"
    <3>1. via \in Backfills /\ Succeed(via, batch)
      BY <1>10, <2>1, <2>3 DEF Write, Inv, Shape, Linked, Windows, Backfills
    <3>2. via \in DOMAIN Pulled BY <3>1, StagesAre DEF Backfills
    <3>3. pc' = via \/ (pc' = "receive" /\ ~Full(batch))
      BY <3>1, <3>2, SucceedGoesOn
    <3>4. CASE pc' = via
      BY <2>1, <3>1, <3>4 DEF BackfillComplete, LastBatch, Backfills
    <3>5. CASE pc' = "receive" /\ ~Full(batch)
      <4>1. batch \in SUBSET (1 .. published) BY DEF Inv, Types, Placed, Somewhere
      <4>2. IsFiniteSet(1 .. published) BY FS_Interval DEF Inv, Types
      <4>3. IsFiniteSet(batch) BY <4>1, <4>2, FS_Subset
      <4>4. Cardinality(batch) \in Nat BY <4>3, FS_CardinalityType
      <4>5. Cardinality(batch) < BatchSize BY <3>5, <4>4, IngestConstants DEF Full
      <4> QED BY <2>1, <3>1, <3>5, <4>5 DEF BackfillComplete, LastBatch
    <3> QED BY <3>3, <3>4, <3>5
  <2> QED BY <2>2, <2>3
<1>11. CASE WriteFails \/ Stop
  BY <1>11 DEF WriteFails, Stop, CloseLink, BackfillComplete, LastBatch
<1>12. CASE Wake
  BY <1>12 DEF Wake, Inv, Shape, Linked, cpaVars, Backfills, BackfillComplete, LastBatch
<1>13. CASE Receive \/ WindowEnds \/ WindowCutsMessage
  BY <1>13 DEF Receive, WindowEnds, WindowCutsMessage, cpaVars, Windows, Backfills,
     BackfillComplete, LastBatch
<1>14. CASE Disconnect
  BY <1>14 DEF Disconnect, CloseLink, Windows, Backfills, BackfillComplete, LastBatch
<1> QED BY <1>1, <1>2, <1>3, <1>4, <1>5, <1>6, <1>7, <1>8, <1>9, <1>10, <1>11, <1>12, <1>13,
           <1>14 DEF Next, Environment, Work, Fail

\* Under a live subscription that is being read, CPA's queue is empty unless the backfill
\* failed (drainBackfillSource goes on while batches are full).
THEOREM BackfillsComplete == Spec => []BackfillComplete
<1>1. Init => Backfilled BY DEF Init, Backfilled, BackfillComplete, LastBatch
<1>2. Spec => []Backfilled
  BY <1>1, Invariance, BackfilledStep, PTL DEF Spec
<1> QED BY <1>2, PTL DEF Backfilled

=============================================================================
