---------------------------- MODULE TasksProofs ----------------------------
(***************************************************************************)
(* What the streams of the pages, the cooldowns of auth files and the      *)
(* refreshes of quotas keep for every value of the constants: the hub      *)
(* loses and reorders nothing on its way to a page, a credential has one   *)
(* cooldown under way and is asked for its quota by one worker at a time.  *)
(***************************************************************************)
EXTENDS MCTasks, SequenceTheorems, WellFoundedInduction, TLAPS

-----------------------------------------------------------------------------
(* The streams.                                                             *)

\* A set of numbers has a least one.
LEMMA Least ==
  ASSUME NEW S, S \subseteq Nat, S # {}
  PROVE  Hub!Min(S) \in S /\ \A n \in S : Hub!Min(S) <= n
<1>1. \E m \in S : \A n \in S : ~ (<<n, m>> \in OpToRel(<, Nat))
  BY NatLessThanWellFounded, WFMin, Zenon
<1>2. PICK m \in S : \A n \in S : ~ (<<n, m>> \in OpToRel(<, Nat)) BY <1>1
<1>3. \A n \in S : ~(n < m) BY <1>2, Zenon DEF OpToRel
<1>4. \A n \in S : m <= n BY <1>3
<1> QED BY <1>4 DEF Hub!Min

\* A notification; the hub's number and the event differ by what other processes published.
Note == [seq : Nat, event : Nat]
Base == published - nextSeq
Numbered(n) == n.seq \in 1..nextSeq /\ n.event = n.seq + Base

\* The types, and the order of the hub's three counters.
HubTypes ==
  /\ stored \in Nat /\ published \in 0..stored /\ nextSeq \in 0..published /\ run \in Nat
  /\ buffer \in Seq(Note)
  /\ connection \in [Clients -> {"off", "sync", "on"}]
  /\ replay \in [Clients -> Seq(Note)] /\ channel \in [Clients -> Seq(Note)]
  /\ last \in [Clients -> Nat] /\ lastRun \in [Clients -> Nat] /\ lastEvent \in [Clients -> Nat]
  /\ since \in [Clients -> Nat] /\ shown \in [Clients -> SUBSET Nat]
  /\ missed \in [Clients -> SUBSET Nat]

\* The window holds the last notifications without a gap.
HubWindow ==
  /\ Len(buffer) <= nextSeq /\ (buffer = <<>> => nextSeq = 0)
  /\ \A i \in 1..Len(buffer) : buffer[i].seq = nextSeq - Len(buffer) + i
                               /\ buffer[i].event = buffer[i].seq + Base

\* Of sequences of notifications.
Increasing(s) == \A i, j \in 1..Len(s) : i < j => s[i].seq < s[j].seq
Before(s, t) == \A i \in 1..Len(s), j \in 1..Len(t) : s[i].seq < t[j].seq
AllNumbered(s) == \A i \in 1..Len(s) : Numbered(s[i])
AllAfter(c, s) == \A i \in 1..Len(s) : last[c] < s[i].seq

\* What waits for a page is of this process, in order, and newer than what the page has.
QueueOf(c) ==
  /\ AllNumbered(replay[c]) /\ AllNumbered(channel[c])
  /\ Increasing(replay[c]) /\ Increasing(channel[c]) /\ Before(replay[c], channel[c])
  /\ Hub!SameRun(c) => AllAfter(c, replay[c]) /\ AllAfter(c, channel[c])
  /\ connection[c] = "off" => replay[c] = <<>> /\ channel[c] = <<>>

\* The number a page remembers is that of the last event it was sent.
LastOf(c) ==
  /\ lastRun[c] <= run /\ lastEvent[c] <= published /\ since[c] <= published
  /\ last[c] = 0 => lastEvent[c] = 0
  /\ last[c] # 0 /\ lastRun[c] = run => last[c] <= nextSeq /\ lastEvent[c] = last[c] + Base

\* A page has event e, was refused it or filters it out; or e is on its way to the page.
Told(c, e) == e \in shown[c] \/ e \in missed[c] \/ <<c, e>> \in Hidden
Coming(c, e) ==
  \/ \E i \in 1..Len(replay[c]) : replay[c][i].event = e
  \/ \E i \in 1..Len(channel[c]) : channel[c][i].event = e

\* Up to its last event a page has been told everything, and a connected one all but what
\* is coming: across a broken connection the first makes the replay enough.
ToldOf(c) == Hub!SameRun(c) => \A e \in since[c] + 1 .. lastEvent[c] : Told(c, e)
KnownOf(c) ==
  connection[c] = "on" => \A e \in since[c] + 1 .. published : Told(c, e) \/ Coming(c, e)

PageInv(c) == QueueOf(c) /\ LastOf(c) /\ ToldOf(c) /\ KnownOf(c)
HubInv == HubTypes /\ HubWindow /\ \A c \in Clients : PageInv(c)

pageOf(c) == <<connection[c], replay[c], channel[c], last[c], lastRun[c], lastEvent[c], since[c],
               shown[c], missed[c]>>

\* A page keeps its part of the invariant when nothing of it and of the hub changes.
LEMMA PageUnchanged ==
  ASSUME NEW c \in Clients, PageInv(c), UNCHANGED <<pageOf(c), published, nextSeq, run>>
  PROVE  PageInv(c)'
BY DEF PageInv, QueueOf, LastOf, ToldOf, KnownOf, AllNumbered, Numbered, Base, Increasing, Before,
       AllAfter, Hub!SameRun, Told, Coming, pageOf

\* Nobody follows the stream of a hub that is empty.
LEMMA HubInvInit == Hub!Init => HubInv
<1> SUFFICES ASSUME Hub!Init PROVE HubInv OBVIOUS
<1>1. HubTypes /\ HubWindow BY DEF Hub!Init, HubTypes, HubWindow
<1>2. ASSUME NEW c \in Clients PROVE PageInv(c)
  <2>1. replay[c] = <<>> /\ channel[c] = <<>> /\ connection[c] = "off" /\ last[c] = 0
        /\ lastRun[c] = 0 /\ lastEvent[c] = 0 /\ since[c] = 0 /\ published = 0 /\ run = 0
    BY DEF Hub!Init
  <2> QED BY <2>1 DEF PageInv, QueueOf, LastOf, ToldOf, KnownOf, AllNumbered, Increasing, Before, AllAfter
<1> QED BY <1>1, <1>2 DEF HubInv

\* Events are stored before anyone hears of them.
LEMMA CommitKeeps == ASSUME HubInv, Hub!Commit PROVE HubInv'
<1>1. stored' \in Nat /\ stored <= stored'
  BY InstancesAllowed DEF HubInv, HubTypes, Hub!Commit, Hub!HubConstants
<1>2. UNCHANGED <<published, nextSeq, buffer, connection, replay, channel, run, missed, last, lastRun, lastEvent,
                  since, shown>>
  BY DEF Hub!Commit, Hub!hubVars, Hub!clientVars
<1>3. HubTypes' /\ HubWindow' BY <1>1, <1>2 DEF HubInv, HubTypes, HubWindow, Base
<1>4. ASSUME NEW c \in Clients PROVE PageInv(c)'
  BY <1>2, PageUnchanged DEF pageOf, HubInv
<1> QED BY <1>3, <1>4 DEF HubInv

\* A new process has sent nothing, and no number of a page is of it but 0.
LEMMA RestartKeeps == ASSUME HubInv, Hub!Restart PROVE HubInv'
<1> USE DEF HubInv
<1>1. HubTypes' BY DEF HubTypes, Hub!Restart, Hub!clientVars
<1>2. HubWindow' BY DEF HubWindow, Hub!Restart
<1>3. ASSUME NEW c \in Clients PROVE PageInv(c)'
  <2>1. /\ replay'[c] = <<>> /\ channel'[c] = <<>> /\ connection'[c] = "off" /\ run' = run + 1
        /\ UNCHANGED <<last[c], lastRun[c], lastEvent[c], since[c], shown[c], missed[c]>>
        /\ published' = stored
    BY DEF Hub!Restart, Hub!clientVars
  <2>2. QueueOf(c)' BY <2>1 DEF QueueOf, AllNumbered, Increasing, Before, AllAfter
  <2>3. LastOf(c)' BY <2>1 DEF PageInv, LastOf, HubTypes
  <2>4. ToldOf(c)' BY <2>1 DEF PageInv, LastOf, ToldOf, HubTypes, Hub!SameRun
  <2>5. KnownOf(c)' BY <2>1 DEF KnownOf
  <2> QED BY <2>2, <2>3, <2>4, <2>5 DEF PageInv
<1> QED BY <1>1, <1>2, <1>3

\* A page that leaves keeps what it was sent.
LEMMA DisconnectKeeps == ASSUME HubInv, NEW c \in Clients, Hub!Disconnect(c) PROVE HubInv'
<1> USE DEF HubInv
<1>1. HubTypes' BY DEF HubTypes, Hub!Disconnect, Hub!hubVars, Hub!clientVars
<1>2. HubWindow' BY DEF HubWindow, Base, Hub!Disconnect, Hub!hubVars
<1>3. UNCHANGED <<published, nextSeq, run, last, lastRun, lastEvent, since, shown, missed>>
  BY DEF Hub!Disconnect, Hub!hubVars, Hub!clientVars
<1>4. ASSUME NEW d \in Clients PROVE PageInv(d)'
  <2>1. CASE d # c
    <3>1. UNCHANGED pageOf(d) BY <1>3, <2>1 DEF pageOf, Hub!Disconnect, HubTypes
    <3> QED BY <3>1, <1>3, PageUnchanged
  <2>2. CASE d = c
    <3>1. /\ replay'[c] = <<>> /\ channel'[c] = <<>> /\ connection'[c] = "off"
      BY DEF Hub!Disconnect, HubTypes
    <3>2. QueueOf(c)' BY <3>1 DEF QueueOf, AllNumbered, Increasing, Before, AllAfter
    <3>3. LastOf(c)' BY <1>3 DEF PageInv, LastOf, Base
    <3>4. ToldOf(c)' BY <1>3 DEF PageInv, ToldOf, Hub!SameRun, Told
    <3>5. KnownOf(c)' BY <3>1 DEF KnownOf
    <3> QED BY <2>2, <3>2, <3>3, <3>4, <3>5 DEF PageInv
  <2> QED BY <2>1, <2>2
<1> QED BY <1>1, <1>2, <1>4

\* After sync_required the page has read all that is stored.
LEMMA SyncKeeps == ASSUME HubInv, NEW c \in Clients, Hub!SendSyncRequired(c) PROVE HubInv'
<1> USE DEF HubInv
<1>1. HubTypes' BY DEF HubTypes, Hub!SendSyncRequired, Hub!hubVars
<1>2. HubWindow' BY DEF HubWindow, Base, Hub!SendSyncRequired, Hub!hubVars
<1>3. UNCHANGED <<published, nextSeq, run, replay, channel, last, lastRun, lastEvent, since, missed>>
  BY DEF Hub!SendSyncRequired, Hub!hubVars
<1>4. ASSUME NEW d \in Clients PROVE PageInv(d)'
  <2>1. CASE d # c
    <3>1. UNCHANGED pageOf(d) BY <1>3, <2>1 DEF pageOf, Hub!SendSyncRequired, HubTypes
    <3> QED BY <3>1, <1>3, PageUnchanged
  <2>2. CASE d = c
    <3>1. connection'[c] = "on" /\ shown'[c] = 1..stored BY DEF Hub!SendSyncRequired, HubTypes
    <3>2. QueueOf(c)' BY <3>1, <1>3 DEF PageInv, QueueOf, AllNumbered, Numbered, Base, Increasing, Before, AllAfter, Hub!SameRun
    <3>3. LastOf(c)' BY <1>3 DEF PageInv, LastOf, Base
    <3>6. /\ since[c] \in Nat /\ lastEvent[c] \in Nat /\ published \in Nat /\ stored \in Nat
          /\ published <= stored /\ lastEvent[c] <= published
      BY DEF HubTypes, PageInv, LastOf
    <3>4. ToldOf(c)' BY <1>3, <3>1, <3>6 DEF ToldOf, Told
    <3>5. KnownOf(c)' BY <1>3, <3>1, <3>6 DEF KnownOf, Told
    <3> QED BY <2>2, <3>2, <3>3, <3>4, <3>5 DEF PageInv
  <2> QED BY <2>1, <2>2
<1> QED BY <1>1, <1>2, <1>4


\* The window slides without a gap.
LEMMA SlideFacts ==
  ASSUME HubInv, NEW n \in Note, n.seq = nextSeq + 1, n.event = published + 1
  PROVE  LET w == Hub!Slide(buffer, n)
         IN  /\ w \in Seq(Note) /\ Len(w) \in 1..nextSeq + 1
             /\ \A i \in 1..Len(w) : /\ w[i].seq = nextSeq + 1 - Len(w) + i
                                     /\ w[i].event = w[i].seq + Base
<1>0. /\ nextSeq \in Nat /\ published \in Nat /\ buffer \in Seq(Note) /\ Len(buffer) <= nextSeq
      /\ \A i \in 1..Len(buffer) : buffer[i].seq = nextSeq - Len(buffer) + i
                                    /\ buffer[i].event = buffer[i].seq + Base
      /\ n.event = n.seq + Base
  BY DEF HubInv, HubTypes, HubWindow, Base
<1>9. nextSeq \in Nat /\ Base \in Int BY <1>0 DEF Base
<1> DEFINE Follows(t) ==
      /\ t \in Seq(Note) /\ Len(t) <= nextSeq
      /\ \A i \in 1..Len(t) : t[i].seq = nextSeq - Len(t) + i /\ t[i].event = t[i].seq + Base
<1>3. ASSUME NEW t, Follows(t)
      PROVE  /\ Append(t, n) \in Seq(Note) /\ Len(Append(t, n)) \in 1..nextSeq + 1
             /\ \A i \in 1..Len(Append(t, n)) :
                  /\ Append(t, n)[i].seq = nextSeq + 1 - Len(Append(t, n)) + i
                  /\ Append(t, n)[i].event = Append(t, n)[i].seq + Base
  <2> DEFINE w == Append(t, n)
  <2>1. /\ w \in Seq(Note) /\ Len(w) = Len(t) + 1 /\ Len(t) \in Nat /\ w[Len(t) + 1] = n
        /\ \A i \in 1..Len(t) : w[i] = t[i]
    BY <1>3
  <2> HIDE DEF w
  <2>2. \A i \in 1..Len(w) : i \in 1..Len(t) \/ i = Len(t) + 1 BY <2>1
  <2>3. \A i \in 1..Len(t) : /\ w[i].seq = nextSeq + 1 - Len(w) + i
                             /\ w[i].event = w[i].seq + Base
    BY <1>9, <1>3, <2>1
  <2>4. w[Len(t) + 1].seq = nextSeq + 1 - Len(w) + (Len(t) + 1)
        /\ w[Len(t) + 1].event = w[Len(t) + 1].seq + Base
    BY <1>0, <1>3, <2>1
  <2>5. Len(w) \in 1..nextSeq + 1 BY <1>0, <1>3, <2>1
  <2> QED BY <2>1, <2>2, <2>3, <2>4, <2>5 DEF w
<1>1. CASE Len(buffer) < BufferCap BY <1>0, <1>1, <1>3 DEF Hub!Slide
<1>2. CASE ~(Len(buffer) < BufferCap)
  <2>1. Len(buffer) >= 1 /\ buffer # <<>>
    BY <1>0, <1>2, InstancesAllowed DEF Hub!HubConstants
  <2>2. /\ Tail(buffer) \in Seq(Note) /\ Len(Tail(buffer)) = Len(buffer) - 1
        /\ \A i \in 1..Len(buffer) - 1 : Tail(buffer)[i] = buffer[i + 1]
    BY <1>0, <2>1
  <2>3. \A i \in 1..Len(buffer) - 1 : buffer[i + 1].seq = nextSeq - (Len(buffer) - 1) + i
                                      /\ buffer[i + 1].event = buffer[i + 1].seq + Base
    BY <1>0
  <2>4. Follows(Tail(buffer)) BY <1>0, <2>2, <2>3
  <2> QED BY <1>2, <1>3, <2>4 DEF Hub!Slide
<1> QED BY <1>1, <1>2

\* A notification reaches every channel with room; the others are marked.
LEMMA PublishKeeps == ASSUME HubInv, Hub!Publish PROVE HubInv'
<1>0. PICK n : n = [seq |-> nextSeq + 1, event |-> published + 1] OBVIOUS
<1>1. /\ published' = published + 1 /\ nextSeq' = nextSeq + 1 /\ published < stored
      /\ buffer' = Hub!Slide(buffer, n)
      /\ UNCHANGED <<stored, connection, replay, run, last, lastRun, lastEvent, since, shown>>
  BY <1>0 DEF Hub!Publish, Hub!clientVars
<1>2. /\ published \in Nat /\ nextSeq \in Nat /\ stored \in Nat /\ n \in Note /\ nextSeq <= published
  BY <1>0 DEF HubInv, HubTypes, Note
<1>n. n.seq = nextSeq + 1 /\ n.event = published + 1 BY <1>0
<1>3. channel' = [c \in Clients |-> IF c \in Hub!Subscribers \ Hub!Slow THEN Append(channel[c], n) ELSE channel[c]]
  BY <1>0, <1>1 DEF Hub!Publish
<1>4. missed' = [c \in Clients |-> IF c \in Hub!Slow THEN missed[c] \cup {published + 1} ELSE missed[c]]
  BY <1>0, <1>1 DEF Hub!Publish
<1>w. buffer' \in Seq(Note) /\ Len(buffer') \in 1..nextSeq + 1
      /\ \A i \in 1..Len(buffer') : buffer'[i].seq = nextSeq + 1 - Len(buffer') + i
                                    /\ buffer'[i].event = buffer'[i].seq + Base
  BY <1>1, <1>2, <1>n, SlideFacts
<1>b. Base' = Base /\ n.event = n.seq + Base BY <1>1, <1>2, <1>n DEF Base
<1>5. HubTypes'
  <2>1. channel' \in [Clients -> Seq(Note)] BY <1>2, <1>3 DEF HubInv, HubTypes
  <2>2. missed' \in [Clients -> SUBSET Nat] BY <1>2, <1>4 DEF HubInv, HubTypes
  <2>3. stored' \in Nat /\ published' \in 0..stored' /\ nextSeq' \in 0..published' /\ run' \in Nat
    BY <1>1, <1>2 DEF HubInv, HubTypes
  <2> QED BY <1>1, <1>w, <2>1, <2>2, <2>3 DEF HubInv, HubTypes
<1>6. HubWindow' BY <1>1, <1>2, <1>w, <1>b DEF HubWindow
<1>7. ASSUME NEW c \in Clients PROVE PageInv(c)'
  <2>1. PageInv(c) BY DEF HubInv
  <2>2. /\ replay[c] \in Seq(Note) /\ channel[c] \in Seq(Note) /\ last[c] \in Nat /\ since[c] \in Nat
        /\ lastEvent[c] \in Nat /\ connection[c] \in {"off", "sync", "on"}
    BY DEF HubInv, HubTypes
  <2>3. \A m : Numbered(m) => Numbered(m)' BY <1>1, <1>2, <1>b DEF Numbered
  <2>4. Numbered(n)' BY <1>1, <1>2, <1>b, <1>n DEF Numbered
  <2>5. CASE c \in Hub!Subscribers \ Hub!Slow
    <3>1. channel'[c] = Append(channel[c], n) /\ missed'[c] = missed[c] BY <1>3, <1>4, <2>5
    <3>2. /\ Len(channel'[c]) = Len(channel[c]) + 1 /\ channel'[c][Len(channel[c]) + 1] = n
          /\ \A i \in 1..Len(channel[c]) : channel'[c][i] = channel[c][i]
      BY <2>2, <3>1
    <3>o. \A i \in 1..Len(channel'[c]) : i \in 1..Len(channel[c]) \/ i = Len(channel[c]) + 1
      BY <2>2, <3>2
    <3>q. QueueOf(c) BY <2>1 DEF PageInv
    <3>r. AllNumbered(replay[c])' BY <1>1, <2>3, <3>q DEF QueueOf, AllNumbered
    <3>3. AllNumbered(channel[c])' BY <2>3, <2>4, <3>2, <3>o, <3>q DEF QueueOf, AllNumbered
    <3>4. \A m : Numbered(m) => m.seq < n.seq BY <1>2, <1>n DEF Numbered
    <3>s. \A i \in 1..Len(channel[c]) : channel[c][i].seq < n.seq BY <3>4, <3>q DEF QueueOf, AllNumbered
    <3>t. \A i \in 1..Len(replay[c]) : replay[c][i].seq < n.seq BY <3>4, <3>q DEF QueueOf, AllNumbered
    <3>u. Increasing(channel'[c])
      <4> SUFFICES ASSUME NEW i \in 1..Len(channel'[c]), NEW j \in 1..Len(channel'[c]), i < j
                   PROVE  channel'[c][i].seq < channel'[c][j].seq
        BY DEF Increasing
      <4>1. i \in 1..Len(channel[c]) BY <2>2, <3>2
      <4>2. CASE j \in 1..Len(channel[c]) BY <3>2, <3>q, <4>1, <4>2 DEF QueueOf, Increasing
      <4>3. CASE j = Len(channel[c]) + 1 BY <3>2, <3>s, <4>1, <4>3
      <4> QED BY <3>o, <4>2, <4>3
    <3>5. Before(replay'[c], channel'[c])
      BY <1>1, <3>2, <3>o, <3>q, <3>t DEF QueueOf, Before
    <3>6. Hub!SameRun(c)' => AllAfter(c, replay[c])' /\ AllAfter(c, channel[c])'
      <4> SUFFICES ASSUME Hub!SameRun(c)' PROVE AllAfter(c, replay[c])' /\ AllAfter(c, channel[c])' OBVIOUS
      <4>1. Hub!SameRun(c) BY <1>1 DEF Hub!SameRun
      <4>2. last[c] < n.seq BY <1>2, <1>n, <2>1, <2>2, <4>1 DEF PageInv, LastOf, Hub!SameRun
      <4>3. AllAfter(c, replay[c])' BY <1>1, <3>q, <4>1 DEF QueueOf, AllAfter
      <4>4. AllAfter(c, channel[c])' BY <1>1, <3>2, <3>o, <3>q, <4>1, <4>2 DEF QueueOf, AllAfter
      <4> QED BY <4>3, <4>4
    <3>7. connection[c] # "off" BY <2>5 DEF Hub!Subscribers
    <3>8. QueueOf(c)' BY <1>1, <3>3, <3>5, <3>6, <3>7, <3>q, <3>r, <3>u DEF QueueOf
    <3>9. LastOf(c)' BY <1>1, <1>2, <1>b, <2>1, <2>2 DEF PageInv, LastOf, HubInv, HubTypes
    <3>10. ToldOf(c)' BY <1>1, <2>1, <3>1 DEF PageInv, ToldOf, Told, Hub!SameRun
    <3>11. ASSUME NEW e, Coming(c, e) PROVE Coming(c, e)'
      <4>1. CASE \E i \in 1..Len(replay[c]) : replay[c][i].event = e BY <1>1, <4>1 DEF Coming
      <4>2. CASE \E i \in 1..Len(channel[c]) : channel[c][i].event = e
        <5>1. PICK i \in 1..Len(channel[c]) : channel[c][i].event = e BY <4>2
        <5>2. i \in 1..Len(channel'[c]) /\ channel'[c][i].event = e BY <2>2, <3>2, <5>1
        <5> QED BY <5>2 DEF Coming
      <4> QED BY <3>11, <4>1, <4>2 DEF Coming
    <3>12. Coming(c, n.event)'
      <4>1. Len(channel[c]) + 1 \in 1..Len(channel'[c]) BY <2>2, <3>2
      <4> QED BY <3>2, <4>1 DEF Coming
    <3>13. KnownOf(c)'
      <4> SUFFICES ASSUME connection[c] = "on", NEW e \in since[c] + 1 .. published + 1
                   PROVE  (Told(c, e) \/ Coming(c, e))'
        BY <1>1 DEF KnownOf
      <4>1. CASE e = published + 1 BY <1>n, <3>12, <4>1
      <4>2. CASE e # published + 1
        <5>1. e \in since[c] + 1 .. published BY <1>2, <2>2, <4>2
        <5>2. Told(c, e) \/ Coming(c, e) BY <2>1, <5>1 DEF PageInv, KnownOf
        <5> QED BY <1>1, <3>1, <3>11, <5>2 DEF Told
      <4> QED BY <4>1, <4>2
    <3> QED BY <3>8, <3>9, <3>10, <3>13 DEF PageInv
  <2>6. CASE c \notin Hub!Subscribers \ Hub!Slow
    <3>1. channel'[c] = channel[c] /\ missed[c] \subseteq missed'[c] BY <1>3, <1>4, <2>6
    <3>2. connection[c] = "on" => published + 1 \in missed'[c]
      BY <1>4, <2>6 DEF Hub!Subscribers
    <3>3. QueueOf(c)' BY <1>1, <2>1, <2>3, <3>1
      DEF PageInv, QueueOf, AllNumbered, Increasing, Before, AllAfter, Hub!SameRun
    <3>9. LastOf(c)' BY <1>1, <1>2, <1>b, <2>1, <2>2 DEF PageInv, LastOf, HubInv, HubTypes
    <3>10. ToldOf(c)' BY <1>1, <2>1, <3>1 DEF PageInv, ToldOf, Told, Hub!SameRun
    <3>11. \A e : Coming(c, e) => Coming(c, e)' BY <1>1, <3>1 DEF Coming
    <3>13. KnownOf(c)' BY <1>1, <1>2, <2>1, <2>2, <3>1, <3>2, <3>11 DEF PageInv, KnownOf, Told
    <3> QED BY <3>3, <3>9, <3>10, <3>13 DEF PageInv
  <2> QED BY <2>5, <2>6
<1> QED BY <1>5, <1>6, <1>7 DEF HubInv


\* The replay is the end of a window in order: everything newer, nothing else.
\* r is the end of w, from the first notification newer than l.
EndOf(w, l, r) ==
  /\ r \in Seq(Note)
  /\ \E k \in Nat :
       /\ Len(w) = Len(r) + k
       /\ \A i \in 1..Len(r) : r[i] = w[i + k] /\ l < w[i + k].seq
       /\ \A i \in 1..Len(w) : l < w[i].seq => k < i

\* A replay after an id is an end of the window, the part of greater ids.
LEMMA ReplayFacts ==
  ASSUME NEW w \in Seq(Note), NEW l \in Nat, Increasing(w)
  PROVE  EndOf(w, l, Hub!Replay(l, w))
<1> DEFINE newer == {i \in DOMAIN w : w[i].seq > l}
<1>0. DOMAIN w = 1..Len(w) /\ Len(w) \in Nat /\ \A i \in 1..Len(w) : w[i].seq \in Nat
  <2>1. \A n \in Note : n.seq \in Nat BY DEF Note
  <2> QED BY <2>1
<1>1. CASE newer = {}
  <2>1. Hub!Replay(l, w) = <<>> BY <1>1, Zenon DEF Hub!Replay, Hub!Newest
  <2>2. \A i \in 1..Len(w) : ~(l < w[i].seq) BY <1>0, <1>1
  <2> HIDE DEF newer
  <2>3. <<>> \in Seq(Note) /\ Len(w) = Len(<<>>) + Len(w) /\ 1..Len(<<>>) = {} BY <1>0
  <2>4. EndOf(w, l, <<>>) BY <1>0, <2>2, <2>3 DEF EndOf
  <2> QED BY <2>1, <2>4
<1>2. CASE newer # {}
  <2> DEFINE m == Hub!Min(newer)
  <2>1. Hub!Replay(l, w) = SubSeq(w, m, Len(w)) BY <1>2, Zenon DEF Hub!Replay, Hub!Newest
  <2>2. m \in newer /\ \A i \in newer : m <= i
    <3>1. newer \subseteq Nat BY <1>0
    <3> QED BY <1>2, <3>1, Least
  <2> HIDE DEF m
  <2>3. m \in 1..Len(w) /\ l < w[m].seq BY <1>0, <2>2
  <2>4. \A i \in 1..Len(w) : l < w[i].seq => m <= i BY <1>0, <2>2
  <2>5. \A i \in m..Len(w) : l < w[i].seq BY <1>0, <2>3 DEF Increasing
  <2> DEFINE r == SubSeq(w, m, Len(w))
  <2>6. /\ r \in Seq(Note) /\ Len(r) = Len(w) - m + 1
        /\ \A i \in 1..Len(r) : r[i] = w[i + (m - 1)]
    BY <1>0, <2>3
  <2> HIDE DEF r
  <2>7. \A i \in 1..Len(r) : l < w[i + (m - 1)].seq BY <1>0, <2>3, <2>5, <2>6
  <2>8. m - 1 \in Nat /\ Len(w) = Len(r) + (m - 1) /\ \A i \in 1..Len(w) : l < w[i].seq => m - 1 < i
    BY <1>0, <2>3, <2>4, <2>6
  <2>9. EndOf(w, l, r) BY <2>6, <2>7, <2>8 DEF EndOf
  <2> QED BY <2>1, <2>9 DEF r
<1> QED BY <1>1, <1>2

\* Unless it is sent sync_required, the window holds all a page has still to see.
LEMMA SubscribeKeeps == ASSUME HubInv, NEW c \in Clients, Hub!Subscribe(c) PROVE HubInv'
<1>1. UNCHANGED <<stored, published, nextSeq, buffer, channel, run, missed, last, lastRun, lastEvent, shown>>
  BY DEF Hub!Subscribe, Hub!hubVars
<1>0. /\ connection[c] = "off" /\ published \in Nat /\ nextSeq \in Nat /\ nextSeq <= published
      /\ buffer \in Seq(Note) /\ Len(buffer) <= nextSeq /\ Len(buffer) \in Nat
      /\ last[c] \in Nat /\ lastEvent[c] \in Nat /\ since[c] \in Nat /\ since[c] <= published
      /\ PageInv(c) /\ Base \in Nat /\ since \in [Clients -> Nat]
      /\ connection \in [Clients -> {"off", "sync", "on"}] /\ replay \in [Clients -> Seq(Note)]
  BY DEF HubInv, HubTypes, HubWindow, Hub!Subscribe, PageInv, LastOf, Base
<1>9. channel[c] = <<>> /\ replay[c] = <<>> BY <1>0 DEF PageInv, QueueOf
<1>2. /\ since' = [since EXCEPT ![c] = since'[c]]
      /\ last[c] = 0 => since'[c] = published - Len(buffer)
      /\ last[c] # 0 /\ ~Hub!SameRun(c) => since'[c] = published
      /\ last[c] # 0 /\ Hub!SameRun(c) => since'[c] = since[c]
  BY <1>0 DEF Hub!Subscribe, Hub!SameRun
<1>3. since'[c] \in Nat /\ since'[c] <= published BY <1>0, <1>2
<1>w. /\ \A i \in 1..Len(buffer) : buffer[i].seq = nextSeq - Len(buffer) + i
                                   /\ buffer[i].event = buffer[i].seq + Base
      /\ buffer = <<>> => nextSeq = 0
  BY DEF HubInv, HubWindow
<1>i. Increasing(buffer) BY <1>0, <1>w DEF Increasing
<1>n. \A i \in 1..Len(buffer) : Numbered(buffer[i]) BY <1>0, <1>w DEF Numbered
<1>4. HubWindow' BY <1>1 DEF HubInv, HubWindow, Base
<1>5. ASSUME NEW d \in Clients, d # c, connection'[d] = connection[d], replay'[d] = replay[d]
      PROVE  PageInv(d)'
  <2>1. UNCHANGED pageOf(d) BY <1>0, <1>1, <1>2, <1>5 DEF pageOf
  <2> QED BY <1>1, <2>1, PageUnchanged DEF HubInv
<1>6. LastOf(c)' BY <1>0, <1>1, <1>3 DEF PageInv, LastOf, Base
<1>7. ToldOf(c)'
  <2> SUFFICES ASSUME Hub!SameRun(c), NEW e \in since'[c] + 1 .. lastEvent[c] PROVE Told(c, e)
    BY <1>1 DEF ToldOf, Told, Hub!SameRun
  <2>1. CASE last[c] = 0
    <3>1. lastEvent[c] = 0 BY <1>0, <2>1 DEF PageInv, LastOf
    <3> QED BY <1>3, <3>1
  <2>2. CASE last[c] # 0 BY <1>0, <1>2, <2>2 DEF PageInv, ToldOf
  <2> QED BY <2>1, <2>2
<1>8. CASE Hub!TooOld(last[c], buffer)
  <2>1. connection' = [connection EXCEPT ![c] = "sync"] /\ replay' = replay
    BY <1>8 DEF Hub!Subscribe
  <2>2. HubTypes' BY <1>0, <1>1, <1>2, <1>3, <2>1 DEF HubInv, HubTypes
  <2>3. QueueOf(c)'
    BY <1>0, <1>1, <1>9, <2>1 DEF QueueOf, AllNumbered, Increasing, Before, AllAfter
  <2>4. KnownOf(c)' BY <1>0, <2>1 DEF KnownOf
  <2>5. \A d \in Clients : PageInv(d)' BY <1>0, <1>5, <1>6, <1>7, <2>1, <2>3, <2>4 DEF PageInv
  <2> QED BY <1>4, <2>2, <2>5 DEF HubInv
<1>10. CASE ~Hub!TooOld(last[c], buffer)
  <2>1. connection' = [connection EXCEPT ![c] = "on"]
        /\ replay' = [replay EXCEPT ![c] = Hub!Replay(last[c], buffer)]
    BY <1>10 DEF Hub!Subscribe
  <2> DEFINE r == Hub!Replay(last[c], buffer)
  <2>2. r \in Seq(Note) BY <1>0, <1>i, ReplayFacts DEF EndOf
  <2>3. PICK k \in Nat :
          /\ Len(buffer) = Len(r) + k
          /\ \A i \in 1..Len(r) : r[i] = buffer[i + k] /\ last[c] < buffer[i + k].seq
          /\ \A i \in 1..Len(buffer) : last[c] < buffer[i].seq => k < i
    BY <1>0, <1>i, ReplayFacts DEF EndOf
  <2> HIDE DEF r
  <2>4. replay'[c] = r /\ connection'[c] = "on" BY <1>0, <2>1 DEF r
  <2>5. HubTypes' BY <1>0, <1>1, <1>2, <1>3, <2>1, <2>2 DEF HubInv, HubTypes, r
  <2>6. \A i \in 1..Len(r) : i + k \in 1..Len(buffer) BY <1>0, <2>2, <2>3
  <2>7. QueueOf(c)'
    <3>1. AllNumbered(replay[c])' BY <1>1, <1>n, <2>3, <2>4, <2>6 DEF AllNumbered, Numbered, Base
    <3>2. Increasing(r)
      <4>0. k \in Nat /\ Len(r) \in Nat BY <2>2
      <4> SUFFICES ASSUME NEW i \in 1..Len(r), NEW j \in 1..Len(r), i < j PROVE r[i].seq < r[j].seq
        BY DEF Increasing
      <4>1. i + k \in 1..Len(buffer) /\ j + k \in 1..Len(buffer) /\ i + k < j + k BY <2>6, <4>0
      <4> QED BY <1>i, <2>3, <4>1 DEF Increasing
    <3>3. AllAfter(c, replay[c])' BY <1>1, <2>3, <2>4 DEF AllAfter
    <3>4. channel'[c] = <<>> BY <1>1, <1>9
    <3> QED BY <2>4, <3>1, <3>2, <3>3, <3>4 DEF QueueOf, AllNumbered, Increasing, Before, AllAfter
  <2>8. KnownOf(c)'
    <3> SUFFICES ASSUME NEW e \in since'[c] + 1 .. published PROVE Told(c, e)' \/ Coming(c, e)'
      BY <1>1 DEF KnownOf
    <3> DEFINE i == e - published + Len(buffer)
    <3>0. e \in Nat /\ e <= published /\ since'[c] < e /\ published = nextSeq + Base BY <1>0, <1>3 DEF Base
    <3>9. i = e - published + Len(buffer) /\ i \in Int BY <1>0, <3>0
    <3> HIDE DEF i
    <3>1. ASSUME i \in 1..Len(buffer), last[c] < buffer[i].seq PROVE Coming(c, e)'
      <4>0. k \in Nat /\ Len(r) \in Nat /\ i \in Int /\ Len(buffer) = Len(r) + k /\ k < i /\ i <= Len(buffer)
        BY <1>0, <2>2, <2>3, <3>1, <3>9
      <4>1. i - k \in 1..Len(r) /\ (i - k) + k = i BY ONLY <4>0
      <4>2. r[i - k] = buffer[i] BY <2>3, <4>1
      <4>3. buffer[i].seq = nextSeq - Len(buffer) + i /\ buffer[i].event = buffer[i].seq + Base
        BY <1>w, <3>1
      <4>4. buffer[i].event = e BY <1>0, <3>0, <3>9, <4>3
      <4> QED BY <2>4, <4>1, <4>2, <4>4 DEF Coming
    <3>2. CASE last[c] = 0
      <4>1. i \in 1..Len(buffer) BY <1>0, <1>2, <3>0, <3>2, <3>9
      <4>2. buffer[i].seq > 0 BY <1>0, <1>w, <4>1
      <4> QED BY <3>1, <3>2, <4>1, <4>2
    <3>3. CASE last[c] # 0 /\ ~Hub!SameRun(c) BY <1>0, <1>2, <3>0, <3>3
    <3>4. CASE last[c] # 0 /\ Hub!SameRun(c) /\ e <= lastEvent[c]
      <4>1. e \in since[c] + 1 .. lastEvent[c] BY <1>0, <1>2, <3>0, <3>4
      <4>2. Told(c, e) BY <1>0, <3>4, <4>1 DEF PageInv, ToldOf
      <4> QED BY <1>1, <4>2 DEF Told
    <3>5. CASE last[c] # 0 /\ Hub!SameRun(c) /\ e > lastEvent[c]
      <4>1. last[c] <= nextSeq /\ lastEvent[c] = last[c] + Base
        BY <1>0, <3>5 DEF PageInv, LastOf, Hub!SameRun
      <4>2. buffer # <<>> /\ Len(buffer) >= 1 BY <1>0, <1>w, <3>5, <4>1
      <4>3. ~(last[c] + 1 < buffer[1].seq) BY <1>0, <1>10, <3>5, <4>2 DEF Hub!TooOld
      <4>4. buffer[1].seq = nextSeq - Len(buffer) + 1 BY <1>0, <1>w, <4>2
      <4>t. /\ Base \in Nat /\ nextSeq \in Nat /\ Len(buffer) \in Nat /\ last[c] \in Nat
            /\ published = nextSeq + Base /\ e > last[c] + Base /\ e <= published
        BY <1>0, <3>0, <3>5, <4>1
      <4>5. i \in 1..Len(buffer)
        <5>1. last[c] >= nextSeq - Len(buffer) BY <4>t, <4>3, <4>4
        <5>2. i = e - Base - nextSeq + Len(buffer) BY <3>0, <3>9, <4>t
        <5> QED BY <3>0, <4>t, <5>1, <5>2
      <4>7. buffer[i].seq = nextSeq - Len(buffer) + i BY <1>w, <4>5
      <4>6. last[c] < buffer[i].seq BY <3>0, <3>9, <4>t, <4>7
      <4> QED BY <3>1, <4>5, <4>6
    <3> QED BY <1>0, <3>0, <3>2, <3>3, <3>4, <3>5
  <2>9. \A d \in Clients : PageInv(d)' BY <1>0, <1>5, <1>6, <1>7, <2>1, <2>7, <2>8 DEF PageInv
  <2> QED BY <1>4, <2>5, <2>9 DEF HubInv
<1> QED BY <1>8, <1>10

\* The head of what waits for a page leaves it, and is the smallest number there.
LEMMA TakeFacts ==
  ASSUME HubInv, NEW c \in Clients, Hub!Take(c), UNCHANGED <<published, nextSeq>>
  PROVE  /\ replay' \in [Clients -> Seq(Note)] /\ channel' \in [Clients -> Seq(Note)]
         /\ \A d \in Clients \ {c} : UNCHANGED <<replay[d], channel[d]>>
         /\ Hub!Queue(c) # <<>> /\ Numbered(Head(Hub!Queue(c))) /\ Head(Hub!Queue(c)) \in Note
         /\ AllNumbered(replay[c])' /\ AllNumbered(channel[c])'
         /\ Increasing(replay'[c]) /\ Increasing(channel'[c]) /\ Before(replay'[c], channel'[c])
         /\ AllAfter(c, replay[c]) /\ AllAfter(c, channel[c]) =>
              /\ last[c] < Head(Hub!Queue(c)).seq
              /\ \A i \in 1..Len(replay'[c]) : last[c] < replay'[c][i].seq
              /\ \A i \in 1..Len(channel'[c]) : last[c] < channel'[c][i].seq
         /\ \A i \in 1..Len(replay'[c]) : Head(Hub!Queue(c)).seq < replay'[c][i].seq
         /\ \A i \in 1..Len(channel'[c]) : Head(Hub!Queue(c)).seq < channel'[c][i].seq
         /\ \A e : Coming(c, e) => Coming(c, e)' \/ e = Head(Hub!Queue(c)).event
<1>0. /\ replay \in [Clients -> Seq(Note)] /\ channel \in [Clients -> Seq(Note)]
      /\ replay[c] \in Seq(Note) /\ channel[c] \in Seq(Note)
      /\ PageInv(c) /\ QueueOf(c)
  BY DEF HubInv, HubTypes, PageInv
<1> DEFINE h == Head(Hub!Queue(c))
<1>t. ASSUME NEW s \in Seq(Note), s # <<>>
      PROVE  /\ Tail(s) \in Seq(Note) /\ Len(s) = Len(Tail(s)) + 1 /\ Head(s) = s[1] /\ s[1] \in Note
             /\ \A i \in 1..Len(Tail(s)) : Tail(s)[i] = s[i + 1] /\ i + 1 \in 1..Len(s)
  BY <1>t
<1>i. ASSUME NEW s \in Seq(Note), s # <<>>, Increasing(s)
      PROVE  /\ Increasing(Tail(s)) /\ \A i \in 1..Len(Tail(s)) : s[1].seq < Tail(s)[i].seq
  <2> DEFINE u == Tail(s)
  <2>1. /\ u \in Seq(Note) /\ Len(s) = Len(u) + 1
        /\ \A i \in 1..Len(u) : u[i] = s[i + 1] /\ i + 1 \in 1..Len(s)
    BY <1>i, <1>t
  <2> HIDE DEF u
  <2>2. 1 \in 1..Len(s) /\ \A i \in 1..Len(u) : 1 < i + 1 /\ \A j \in 1..Len(u) : i < j => i + 1 < j + 1
    BY <2>1
  <2>3. Increasing(u) /\ \A i \in 1..Len(u) : s[1].seq < u[i].seq BY <1>i, <2>1, <2>2 DEF Increasing
  <2> QED BY <2>3 DEF u
<1>1. CASE replay[c] # <<>>
  <2>1. replay' = [replay EXCEPT ![c] = Tail(replay[c])] /\ channel' = channel BY <1>1 DEF Hub!Take
  <2>2. h = replay[c][1] /\ Hub!Queue(c) # <<>> BY <1>0, <1>1 DEF Hub!Queue
  <2> DEFINE u == Tail(replay[c])
  <2>3. /\ u \in Seq(Note) /\ Len(replay[c]) = Len(u) + 1 /\ replay[c][1] \in Note
        /\ \A i \in 1..Len(u) : u[i] = replay[c][i + 1] /\ i + 1 \in 1..Len(replay[c])
    BY <1>0, <1>1, <1>t
  <2>4. Increasing(u) /\ \A i \in 1..Len(u) : replay[c][1].seq < u[i].seq
    BY <1>0, <1>1, <1>i DEF QueueOf
  <2>5. replay'[c] = u /\ channel'[c] = channel[c] BY <1>0, <2>1
  <2> HIDE DEF u, h
  <2>6. 1 \in 1..Len(replay[c]) BY <2>3
  <2>7. /\ AllNumbered(replay[c])' /\ AllNumbered(channel[c])' /\ Numbered(h)
    BY <1>0, <2>2, <2>3, <2>5, <2>6 DEF QueueOf, AllNumbered, Numbered, Base
  <2>8. Before(u, channel[c]) /\ \A i \in 1..Len(channel[c]) : h.seq < channel[c][i].seq
    BY <1>0, <2>2, <2>3, <2>6 DEF QueueOf, Before
  <2>9. AllAfter(c, replay[c]) => /\ last[c] < h.seq
                                  /\ \A i \in 1..Len(u) : last[c] < u[i].seq
    BY <2>2, <2>3, <2>6 DEF AllAfter
  <2>10. ASSUME NEW e, Coming(c, e) PROVE Coming(c, e)' \/ e = h.event
    <3>1. CASE \E i \in 1..Len(replay[c]) : replay[c][i].event = e
      <4>1. PICK i \in 1..Len(replay[c]) : replay[c][i].event = e BY <3>1
      <4>2. CASE i = 1 BY <2>2, <4>1, <4>2
      <4>3. CASE i # 1
        <5>1. i - 1 \in 1..Len(u) /\ u[i - 1] = replay[c][i] BY <2>3, <4>3
        <5> QED BY <2>5, <4>1, <5>1 DEF Coming
      <4> QED BY <4>2, <4>3
    <3>2. CASE \E i \in 1..Len(channel[c]) : channel[c][i].event = e BY <2>5, <3>2 DEF Coming
    <3> QED BY <2>10, <3>1, <3>2 DEF Coming
  <2>11. replay' \in [Clients -> Seq(Note)] /\ channel' \in [Clients -> Seq(Note)]
         /\ \A d \in Clients \ {c} : UNCHANGED <<replay[d], channel[d]>>
    BY <1>0, <2>1, <2>3 DEF u
  <2>12. Increasing(channel[c]) /\ (AllAfter(c, channel[c]) => \A i \in 1..Len(channel[c]) : last[c] < channel[c][i].seq)
    BY <1>0 DEF QueueOf, AllAfter
  <2> QED BY <2>2, <2>3, <2>4, <2>5, <2>7, <2>8, <2>9, <2>10, <2>11, <2>12 DEF h
<1>2. CASE replay[c] = <<>>
  <2>1. channel[c] # <<>> /\ channel' = [channel EXCEPT ![c] = Tail(channel[c])] /\ replay' = replay
    BY <1>2 DEF Hub!Take
  <2>2. h = channel[c][1] /\ Hub!Queue(c) # <<>> BY <1>0, <1>2, <2>1 DEF Hub!Queue
  <2> DEFINE u == Tail(channel[c])
  <2>3. /\ u \in Seq(Note) /\ Len(channel[c]) = Len(u) + 1 /\ channel[c][1] \in Note
        /\ \A i \in 1..Len(u) : u[i] = channel[c][i + 1] /\ i + 1 \in 1..Len(channel[c])
    BY <1>0, <2>1, <1>t
  <2>4. Increasing(u) /\ \A i \in 1..Len(u) : channel[c][1].seq < u[i].seq
    BY <1>0, <2>1, <1>i DEF QueueOf
  <2>5. replay'[c] = <<>> /\ channel'[c] = u BY <1>0, <1>2, <2>1
  <2> HIDE DEF u, h
  <2>6. 1 \in 1..Len(channel[c]) BY <2>3
  <2>7. /\ AllNumbered(replay[c])' /\ AllNumbered(channel[c])' /\ Numbered(h)
    <3>1. \A m : Numbered(m) => Numbered(m)' BY DEF Numbered, Base
    <3>2. AllNumbered(replay[c])' BY <2>5 DEF AllNumbered
    <3>3. AllNumbered(channel[c])' /\ Numbered(h)
      BY <1>0, <2>2, <2>3, <2>5, <2>6, <3>1 DEF QueueOf, AllNumbered
    <3> QED BY <3>2, <3>3
  <2>8. Before(<<>>, u) /\ Increasing(<<>>) BY DEF Before, Increasing
  <2>9. AllAfter(c, channel[c]) => /\ last[c] < h.seq
                                   /\ \A i \in 1..Len(u) : last[c] < u[i].seq
    BY <2>2, <2>3, <2>6 DEF AllAfter
  <2>10. ASSUME NEW e, Coming(c, e) PROVE Coming(c, e)' \/ e = h.event
    <3>1. PICK i \in 1..Len(channel[c]) : channel[c][i].event = e BY <1>2, <2>10 DEF Coming
    <3>2. CASE i = 1 BY <2>2, <3>1, <3>2
    <3>3. CASE i # 1
      <4>1. i - 1 \in 1..Len(u) /\ u[i - 1] = channel[c][i] BY <2>3, <3>3
      <4> QED BY <2>5, <3>1, <4>1 DEF Coming
    <3> QED BY <3>2, <3>3
  <2>11. replay' \in [Clients -> Seq(Note)] /\ channel' \in [Clients -> Seq(Note)]
         /\ \A d \in Clients \ {c} : UNCHANGED <<replay[d], channel[d]>>
    BY <1>0, <2>1, <2>3 DEF u
  <2> QED BY <2>2, <2>3, <2>4, <2>5, <2>7, <2>8, <2>9, <2>10, <2>11 DEF h
<1> QED BY <1>1, <1>2


\* A frame moves the page's number; what waits behind it is newer.
LEMMA SendKeeps == ASSUME HubInv, NEW c \in Clients, Hub!Send(c) PROVE HubInv'
<1>1. UNCHANGED <<stored, published, nextSeq, buffer, connection, run, missed>> /\ Hub!Take(c)
      /\ connection[c] = "on"
  BY DEF Hub!Send, Hub!hubVars
<1> DEFINE h == Head(Hub!Queue(c))
<1>2. /\ replay' \in [Clients -> Seq(Note)] /\ channel' \in [Clients -> Seq(Note)]
      /\ \A d \in Clients \ {c} : UNCHANGED <<replay[d], channel[d]>>
      /\ Numbered(h) /\ h \in Note
      /\ AllNumbered(replay[c])' /\ AllNumbered(channel[c])'
      /\ Increasing(replay'[c]) /\ Increasing(channel'[c]) /\ Before(replay'[c], channel'[c])
      /\ AllAfter(c, replay[c]) /\ AllAfter(c, channel[c]) =>
           /\ \A i \in 1..Len(replay'[c]) : last[c] < replay'[c][i].seq
           /\ \A i \in 1..Len(channel'[c]) : last[c] < channel'[c][i].seq
      /\ \A i \in 1..Len(replay'[c]) : h.seq < replay'[c][i].seq
      /\ \A i \in 1..Len(channel'[c]) : h.seq < channel'[c][i].seq
      /\ \A e : Coming(c, e) => Coming(c, e)' \/ e = h.event
  BY <1>1, TakeFacts
<1>3. CASE <<c, h.event>> \in Hidden
  <2>1. UNCHANGED <<last, lastRun, lastEvent, since, shown>> BY <1>3 DEF Hub!Send, Hub!clientVars
  <2> HIDE DEF h
  <2>2. HubTypes' BY <1>1, <1>2, <2>1 DEF HubInv, HubTypes
  <2>3. HubWindow' BY <1>1 DEF HubInv, HubWindow, Base
  <2>4. ASSUME NEW d \in Clients PROVE PageInv(d)'
    <3>1. PageInv(d) BY DEF HubInv
    <3>2. CASE d # c
      <4>1. UNCHANGED pageOf(d) BY <1>1, <1>2, <2>1, <3>2 DEF pageOf
      <4> QED BY <1>1, <3>1, <4>1, PageUnchanged
    <3>3. CASE d = c
      <4>1. Hub!SameRun(c)' => AllAfter(c, replay[c])' /\ AllAfter(c, channel[c])'
        BY <1>1, <1>2, <2>1, <3>1, <3>3 DEF PageInv, QueueOf, AllAfter, Hub!SameRun
      <4>2. QueueOf(c)' BY <1>1, <1>2, <4>1 DEF QueueOf
      <4>3. LastOf(c)' BY <1>1, <2>1, <3>1, <3>3 DEF PageInv, LastOf, Base
      <4>4. ToldOf(c)' BY <1>1, <2>1, <3>1, <3>3 DEF PageInv, ToldOf, Told, Hub!SameRun
      <4>5. KnownOf(c)' BY <1>1, <1>2, <1>3, <2>1, <3>1, <3>3 DEF PageInv, KnownOf, Told
      <4> QED BY <3>3, <4>2, <4>3, <4>4, <4>5 DEF PageInv
    <3> QED BY <3>2, <3>3
  <2> QED BY <2>2, <2>3, <2>4 DEF HubInv
<1>4. CASE <<c, h.event>> \notin Hidden
  <2>1. /\ last' = [last EXCEPT ![c] = h.seq] /\ lastRun' = [lastRun EXCEPT ![c] = run]
        /\ lastEvent' = [lastEvent EXCEPT ![c] = h.event]
        /\ shown' = [shown EXCEPT ![c] = @ \cup {h.event}] /\ since' = since
    BY <1>4 DEF Hub!Send
  <2> HIDE DEF h
  <2>0. h.seq \in Nat /\ h.event \in Nat BY <1>2 DEF Note
  <2>2. HubTypes' BY <1>1, <1>2, <2>0, <2>1 DEF HubInv, HubTypes
  <2>3. HubWindow' BY <1>1 DEF HubInv, HubWindow, Base
  <2>4. ASSUME NEW d \in Clients PROVE PageInv(d)'
    <3>1. PageInv(d) BY DEF HubInv
    <3>2. CASE d # c
      <4>1. UNCHANGED pageOf(d) BY <1>1, <1>2, <2>1, <3>2 DEF pageOf, HubInv, HubTypes
      <4> QED BY <1>1, <3>1, <4>1, PageUnchanged
    <3>3. CASE d = c
      <4>0. /\ last'[c] = h.seq /\ lastRun'[c] = run /\ lastEvent'[c] = h.event /\ since'[c] = since[c]
            /\ shown'[c] = shown[c] \cup {h.event} /\ missed'[c] = missed[c]
        BY <1>1, <2>1 DEF HubInv, HubTypes
      <4>t. published \in Nat /\ nextSeq \in Nat /\ nextSeq <= published /\ run \in Nat /\ since[c] \in Nat
        BY DEF HubInv, HubTypes
      <4>n. h.seq \in 1..nextSeq /\ h.event = h.seq + (published - nextSeq) BY <1>2 DEF Numbered, Base
      <4>1. AllAfter(c, replay[c])' /\ AllAfter(c, channel[c])' BY <1>2, <4>0 DEF AllAfter
      <4>2. QueueOf(c)' BY <1>1, <1>2, <4>1 DEF QueueOf
      <4>3. LastOf(c)' BY <1>1, <3>1, <3>3, <4>0, <4>t, <4>n DEF PageInv, LastOf, Base
      <4>4. ToldOf(c)'
        <5> SUFFICES ASSUME NEW e \in since[c] + 1 .. h.event PROVE Told(c, e)'
          BY <4>0 DEF ToldOf
        <5>1. e \in since[c] + 1 .. published BY <4>t, <4>n
        <5>2. Told(c, e) \/ Coming(c, e) BY <1>1, <3>1, <3>3, <5>1 DEF PageInv, KnownOf
        <5>3. CASE Told(c, e) BY <4>0, <5>3 DEF Told
        <5>4. CASE e = h.event BY <4>0, <5>4 DEF Told
        <5>5. CASE Coming(c, e)'
          <6>1. \A m \in Note : h.seq < m.seq /\ Numbered(m)' => m.event > h.event
            BY <1>1, <4>t, <4>n DEF Numbered, Base, Note
          <6>2. PICK m : h.seq < m.seq /\ Numbered(m)' /\ m.event = e /\ m \in Note
            <7>1. CASE \E i \in 1..Len(replay'[c]) : replay'[c][i].event = e
              BY <1>2, <7>1 DEF AllNumbered
            <7>2. CASE \E i \in 1..Len(channel'[c]) : channel'[c][i].event = e
              BY <1>2, <7>2 DEF AllNumbered
            <7> QED BY <5>5, <7>1, <7>2 DEF Coming
          <6> QED BY <4>t, <4>n, <6>1, <6>2
        <5> QED BY <1>2, <5>2, <5>3, <5>4, <5>5
      <4>5. KnownOf(c)' BY <1>1, <1>2, <3>1, <3>3, <4>0 DEF PageInv, KnownOf, Told
      <4> QED BY <3>3, <4>2, <4>3, <4>4, <4>5 DEF PageInv
    <3> QED BY <3>2, <3>3
  <2> QED BY <2>2, <2>3, <2>4 DEF HubInv
<1> QED BY <1>3, <1>4

\* A step of the others leaves the streams alone.
LEMMA HubUnchanged == HubInv /\ UNCHANGED Hub!vars => HubInv'
<1> SUFFICES ASSUME HubInv, UNCHANGED Hub!vars PROVE HubInv' OBVIOUS
<1>1. UNCHANGED <<stored, published, nextSeq, buffer, connection, replay, channel, run, missed, last, lastRun,
                  lastEvent, since, shown>>
  BY DEF Hub!vars, Hub!hubVars, Hub!clientVars
<1>2. HubTypes' /\ HubWindow' BY <1>1 DEF HubInv, HubTypes, HubWindow, Base
<1>3. \A c \in Clients : PageInv(c)' BY <1>1, PageUnchanged DEF HubInv, pageOf
<1> QED BY <1>2, <1>3 DEF HubInv

\* Every step of the hub, the handler and the pages keeps the invariant.
LEMMA HubInvStep == HubInv /\ [Hub!Next]_(Hub!vars) => HubInv'
<1> SUFFICES ASSUME HubInv, [Hub!Next]_(Hub!vars) PROVE HubInv' OBVIOUS
<1>1. CASE Hub!Commit BY <1>1, CommitKeeps
<1>2. CASE Hub!Publish BY <1>2, PublishKeeps
<1>3. CASE Hub!Restart BY <1>3, RestartKeeps
<1>4. ASSUME NEW c \in Clients, Hub!Serve(c) PROVE HubInv'
  BY <1>4, SubscribeKeeps, SyncKeeps, SendKeeps DEF Hub!Serve
<1>5. ASSUME NEW c \in Clients, Hub!Disconnect(c) PROVE HubInv' BY <1>5, DisconnectKeeps
<1> QED BY <1>1, <1>2, <1>3, <1>4, <1>5, HubUnchanged DEF Hub!Next

\* A queue is its replay, then its channel.
LEMMA QueueIs ==
  ASSUME NEW c, replay[c] \in Seq(Note), channel[c] \in Seq(Note)
  PROVE  /\ Len(replay[c]) \in Nat /\ Len(channel[c]) \in Nat
         /\ Hub!Queue(c) \in Seq(Note)
         /\ Len(Hub!Queue(c)) = Len(replay[c]) + Len(channel[c])
         /\ DOMAIN Hub!Queue(c) = 1..Len(replay[c]) + Len(channel[c])
         /\ \A i \in 1..Len(replay[c]) : Hub!Queue(c)[i] = replay[c][i]
         /\ \A i \in 1..Len(channel[c]) : Hub!Queue(c)[Len(replay[c]) + i] = channel[c][i]
<1>0. PICK n, m : n = Len(replay[c]) /\ m = Len(channel[c]) OBVIOUS
<1> DEFINE q == replay[c] \o channel[c]
<1>1. n \in Nat /\ m \in Nat BY <1>0
<1>2. /\ q \in Seq(Note) /\ Len(q) = n + m
      /\ \A i \in 1..n + m : q[i] = IF i <= n THEN replay[c][i] ELSE channel[c][i - n]
  BY <1>0, ConcatProperties
<1> HIDE DEF q
<1>3. ASSUME NEW i \in 1..n PROVE q[i] = replay[c][i]
  <2>1. i \in 1..n + m /\ i <= n BY ONLY <1>1, n \in Nat, i \in 1..n
  <2> QED BY <1>2, <2>1
<1>4. ASSUME NEW i \in 1..m PROVE q[n + i] = channel[c][i]
  <2>1. n + i \in 1..n + m /\ ~(n + i <= n) /\ (n + i) - n = i BY ONLY <1>1, i \in 1..m
  <2> QED BY <1>2, <2>1
<1>5. DOMAIN q = 1..n + m BY <1>2
<1> QED BY <1>0, <1>1, <1>2, <1>3, <1>4, <1>5 DEF Hub!Queue, q

\* The invariant is what a page is promised.
LEMMA HubInvFaithful == HubInv => Hub!StreamFaithful
<1> SUFFICES ASSUME HubInv PROVE Hub!NoGap /\ Hub!InOrder BY DEF Hub!StreamFaithful
<1>1. ASSUME NEW c \in Clients PROVE /\ PageInv(c) /\ QueueOf(c) /\ replay[c] \in Seq(Note) /\ channel[c] \in Seq(Note)
                                     /\ last[c] \in Nat
  BY DEF HubInv, HubTypes, PageInv
<1>2. Hub!NoGap
  <2> SUFFICES ASSUME NEW c \in Clients, Hub!SameRun(c), connection[c] # "sync",
                      NEW e \in since[c] + 1 .. IF connection[c] = "on" THEN published ELSE lastEvent[c]
               PROVE  Hub!Known(c, e)
    BY DEF Hub!NoGap
  <2>1. ASSUME Coming(c, e) PROVE e \in Hub!Queued(c)
    <3> DEFINE q == Hub!Queue(c)
               n == Len(replay[c])
               m == Len(channel[c])
    <3>1. /\ n \in Nat /\ DOMAIN q = 1..n + m /\ m \in Nat
          /\ \A i \in 1..n : q[i] = replay[c][i]
          /\ \A j \in 1..m : q[n + j] = channel[c][j]
      BY <1>1, QueueIs
    <3> HIDE DEF q, n, m
    <3>2. \E i \in DOMAIN q : q[i].event = e
      <4>1. CASE \E i \in 1..n : replay[c][i].event = e
        <5>1. PICK j \in 1..n : replay[c][j].event = e BY <4>1
        <5>2. j \in DOMAIN q BY <3>1
        <5> QED BY <3>1, <5>1, <5>2
      <4>2. CASE \E i \in 1..m : channel[c][i].event = e
        <5>1. PICK j \in 1..m : channel[c][j].event = e BY <4>2
        <5>2. n + j \in DOMAIN q BY <3>1
        <5> QED BY <3>1, <5>1, <5>2
      <4> QED BY <2>1, <4>1, <4>2 DEF Coming, n, m
    <3> QED BY <3>2 DEF Hub!Queued, Hub!ToSet, q
  <2>2. Told(c, e) => Hub!Known(c, e) BY DEF Told, Hub!Known
  <2>3. CASE connection[c] = "on" BY <1>1, <2>1, <2>2, <2>3 DEF PageInv, KnownOf, Hub!Known
  <2>4. CASE connection[c] # "on" BY <1>1, <2>2, <2>4 DEF PageInv, ToldOf
  <2> QED BY <2>3, <2>4
<1>3. Hub!InOrder
  <2> SUFFICES ASSUME NEW c \in Clients
               PROVE  /\ \A i \in 2..Len(Hub!Queue(c)) : Hub!Queue(c)[i - 1].seq < Hub!Queue(c)[i].seq
                      /\ Hub!SameRun(c) => \A i \in 1..Len(Hub!Queue(c)) : last[c] < Hub!Queue(c)[i].seq
    BY DEF Hub!InOrder
  <2> DEFINE q == Hub!Queue(c)
             n == Len(replay[c])
             m == Len(channel[c])
  <2>1. /\ n \in Nat /\ Len(q) = n + m /\ m \in Nat
        /\ \A i \in 1..n : q[i] = replay[c][i]
        /\ \A i \in 1..m : q[n + i] = channel[c][i]
    BY <1>1, QueueIs
  <2> HIDE DEF q, n, m
  <2>2. \A i \in 1..Len(q) : i \in 1..n \/ \E j \in 1..m : i = n + j
    <3> SUFFICES ASSUME NEW i \in 1..Len(q), i \notin 1..n PROVE \E j \in 1..m : i = n + j OBVIOUS
    <3>1. i - n \in 1..m /\ i = n + (i - n) BY <2>1
    <3> QED BY <3>1
  <2>3. ASSUME NEW i \in 1..Len(q), NEW k \in 1..Len(q), i < k PROVE q[i].seq < q[k].seq
    <3>1. CASE i \in 1..n /\ k \in 1..n BY <1>1, <2>1, <2>3, <3>1 DEF QueueOf, Increasing, n
    <3>2. CASE i \in 1..n /\ \E j \in 1..m : k = n + j
      <4>1. PICK b \in 1..m : k = n + b BY <3>2
      <4> QED BY <1>1, <2>1, <3>2, <4>1 DEF QueueOf, Before, n, m
    <3>3. CASE (\E j \in 1..m : i = n + j) /\ \E j \in 1..m : k = n + j
      <4>1. PICK a \in 1..m, b \in 1..m : i = n + a /\ k = n + b BY <3>3
      <4>2. a < b BY <2>1, <2>3, <4>1
      <4> QED BY <1>1, <2>1, <4>1, <4>2 DEF QueueOf, Increasing, m
    <3>4. ~((\E j \in 1..m : i = n + j) /\ k \in 1..n) BY <2>1, <2>3
    <3> QED BY <2>2, <3>1, <3>2, <3>3, <3>4
  <2>4. ASSUME Hub!SameRun(c), NEW i \in 1..Len(q) PROVE last[c] < q[i].seq
    <3>1. CASE i \in 1..n BY <1>1, <2>1, <2>4, <3>1 DEF QueueOf, AllAfter, n
    <3>2. CASE \E j \in 1..m : i = n + j BY <1>1, <2>1, <2>4, <3>2 DEF QueueOf, AllAfter, m
    <3> QED BY <2>2, <3>1, <3>2
  <2>5. \A i \in 2..Len(q) : i - 1 \in 1..Len(q) /\ i \in 1..Len(q) /\ i - 1 < i BY <2>1
  <2> QED BY <2>3, <2>4, <2>5 DEF q
<1> QED BY <1>2, <1>3

-----------------------------------------------------------------------------
(* The cooldowns.                                                           *)

\* The table is a sequence of something.
CooldownIsTable == \E S : rows \in Seq(S)

\* OneActive of anything, credential or not.
CooldownAlone == \A a : \A i, j \in Cooldown!Active(a) : i = j

CooldownInv == CooldownIsTable /\ CooldownAlone

-----------------------------------------------------------------------------
(* What can happen to the table.                                            *)

\* An inactive row takes the place of one that is there.
LEMMA MarkedKeeps ==
  ASSUME CooldownInv, NEW i, NEW r, r.active = FALSE, rows' = [rows EXCEPT ![i] = r]
  PROVE  CooldownInv'
<1>1. PICK S : rows \in Seq(S) BY DEF CooldownInv, CooldownIsTable
<1>2. rows' \in Seq(S \cup {r})
  <2>1. PICK n \in Nat : rows \in [1..n -> S] BY <1>1, SeqDef
  <2>2. rows' \in [1..n -> S \cup {r}] BY <2>1
  <2>3. Seq(S \cup {r}) = UNION {[1..m -> S \cup {r}] : m \in Nat} BY SeqDef
  <2> QED BY <2>2, <2>3
<1>3. DOMAIN rows' = DOMAIN rows /\ \A j \in DOMAIN rows : rows'[j] = IF j = i THEN r ELSE rows[j]
  BY <1>1
<1>4. \A a : Cooldown!Active(a)' \subseteq Cooldown!Active(a) BY <1>3 DEF Cooldown!Active
<1> QED BY <1>2, <1>4 DEF CooldownInv, CooldownIsTable, CooldownAlone

\* A row is added for a credential that has none active.
LEMMA AddedKeeps ==
  ASSUME CooldownInv, NEW r, Cooldown!Active(r.auth) = {}, rows' = Append(rows, r)
  PROVE  CooldownInv'
<1>1. PICK S : rows \in Seq(S) BY DEF CooldownInv, CooldownIsTable
<1>2. rows' \in Seq(S \cup {r}) BY <1>1
<1>3. /\ DOMAIN rows = 1..Len(rows) /\ DOMAIN rows' = 1..(Len(rows) + 1) /\ Len(rows) \in Nat
      /\ \A j \in DOMAIN rows : rows'[j] = rows[j]
      /\ rows'[Len(rows) + 1] = r
  BY <1>1
<1>4. \A a : a # r.auth => Cooldown!Active(a)' \subseteq Cooldown!Active(a) BY <1>3 DEF Cooldown!Active
<1>5. Cooldown!Active(r.auth)' \subseteq {Len(rows) + 1} BY <1>3 DEF Cooldown!Active
<1>6. CooldownAlone'
  <2> SUFFICES ASSUME NEW a, NEW i \in Cooldown!Active(a)', NEW j \in Cooldown!Active(a)' PROVE i = j
    BY DEF CooldownAlone
  <2>1. CASE a = r.auth BY <1>5, <2>1
  <2>2. CASE a # r.auth BY <1>4, <2>2 DEF CooldownInv, CooldownAlone
  <2> QED BY <2>1, <2>2
<1> QED BY <1>2, <1>6 DEF CooldownInv, CooldownIsTable

\* The active row of a credential is extended.
LEMMA ExtendedKeeps ==
  ASSUME CooldownInv, NEW r, NEW i \in Cooldown!Active(r.auth), rows' = [rows EXCEPT ![i] = r]
  PROVE  CooldownInv'
<1>1. PICK S : rows \in Seq(S) BY DEF CooldownInv, CooldownIsTable
<1>2. rows' \in Seq(S \cup {r})
  <2>1. PICK n \in Nat : rows \in [1..n -> S] BY <1>1, SeqDef
  <2>2. rows' \in [1..n -> S \cup {r}] BY <2>1
  <2>3. Seq(S \cup {r}) = UNION {[1..m -> S \cup {r}] : m \in Nat} BY SeqDef
  <2> QED BY <2>2, <2>3
<1>3. DOMAIN rows' = DOMAIN rows /\ \A j \in DOMAIN rows : rows'[j] = IF j = i THEN r ELSE rows[j]
  BY <1>1
<1>4. \A a : Cooldown!Active(a)' \subseteq Cooldown!Active(a) BY <1>3 DEF Cooldown!Active
<1> QED BY <1>2, <1>4 DEF CooldownInv, CooldownIsTable, CooldownAlone

-----------------------------------------------------------------------------
\* The table begins empty.
LEMMA CooldownInvInit == Cooldown!Init => CooldownInv
<1> SUFFICES ASSUME Cooldown!Init PROVE CooldownInv OBVIOUS
<1>1. rows = <<>> BY DEF Cooldown!Init
<1>2. rows \in Seq({}) BY <1>1
<1> QED BY <1>1, <1>2 DEF CooldownInv, CooldownIsTable, CooldownAlone, Cooldown!Active

\* A start saves its cooldown in one transaction, whoever else has told CPA of one.
LEMMA SaveKeeps ==
  ASSUME NEW c, CooldownInv, Cooldown!Save(c)
  PROVE  CooldownInv'
<1> DEFINE a == row[c].auth
<1>1. Cooldown!New(c).auth = a BY DEF Cooldown!New
<1>2. CASE Cooldown!Active(a) = {}
  <2>1. rows' = Append(rows, Cooldown!New(c)) BY <1>2 DEF Cooldown!Save
  <2> QED BY <1>1, <1>2, <2>1, AddedKeeps
<1>3. CASE Cooldown!Active(a) # {}
  <2>1. rows' = [rows EXCEPT ![Cooldown!First(Cooldown!Active(a))] = Cooldown!New(c)] BY <1>3 DEF Cooldown!Save
  <2>2. Cooldown!First(Cooldown!Active(a)) \in Cooldown!Active(a)
    <3>1. PICK S : rows \in Seq(S) BY DEF CooldownInv, CooldownIsTable
    <3>2. Cooldown!Active(a) \subseteq Nat BY <3>1 DEF Cooldown!Active
    <3>3. \E i \in Cooldown!Active(a) : \A j \in Cooldown!Active(a) : i <= j
      BY <1>3, <3>2 DEF CooldownInv, CooldownAlone
    <3> QED BY <3>3 DEF Cooldown!First
  <2> QED BY <1>1, <2>1, <2>2, ExtendedKeeps
<1> QED BY <1>2, <1>3

\* A restore writes its row back as inactive.
LEMMA MarkKeeps ==
  ASSUME NEW c, CooldownInv, Cooldown!Mark(c)
  PROVE  CooldownInv'
<1> DEFINE r == [auth |-> row[c].auth, active |-> FALSE, restoreAt |-> row[c].restoreAt]
<1>1. r.active = FALSE /\ rows' = [rows EXCEPT ![row[c].id] = r] BY DEF Cooldown!Mark
<1> QED BY <1>1, MarkedKeeps

\* The other steps of a restore leave the table alone.
LEMMA RestoreKeeps ==
  ASSUME NEW c, CooldownInv, Cooldown!Restore(c)
  PROVE  CooldownInv'
<1>1. CASE Cooldown!Mark(c) BY <1>1, MarkKeeps
<1>2. CASE UNCHANGED rows BY <1>2 DEF CooldownInv, CooldownIsTable, CooldownAlone, Cooldown!Active
<1> QED BY <1>1, <1>2 DEF Cooldown!Restore, Cooldown!Enable, Cooldown!EnableFails, Cooldown!MarkFails

\* Every step of the cooldowns keeps the invariant.
LEMMA CooldownInvStep == CooldownInv /\ [Cooldown!Next]_(Cooldown!vars) => CooldownInv'
<1> SUFFICES ASSUME CooldownInv, [Cooldown!Next]_(Cooldown!vars) PROVE CooldownInv' OBVIOUS
<1>1. CASE UNCHANGED rows BY <1>1 DEF CooldownInv, CooldownIsTable, CooldownAlone, Cooldown!Active
<1>2. CASE UNCHANGED Cooldown!vars BY <1>1, <1>2 DEF Cooldown!vars
<1>3. ASSUME NEW c \in Starters, Cooldown!Start(c) PROVE CooldownInv'
  <2>1. CASE Cooldown!Save(c) BY <2>1, SaveKeeps
  <2> QED BY <1>1, <1>3, <2>1 DEF Cooldown!Start, Cooldown!Disable, Cooldown!DisableUnanswered, Cooldown!SaveFails
<1>4. ASSUME NEW c \in Restorers, Cooldown!Find(c) \/ Cooldown!Restore(c) PROVE CooldownInv'
  BY <1>1, <1>4, RestoreKeeps DEF Cooldown!Find
<1>5. CASE Cooldown!RunJob BY <1>1, <1>5, RestoreKeeps DEF Cooldown!RunJob, Cooldown!FindDue, Cooldown!NextDue
<1>6. ASSUME NEW a \in Credentials, Cooldown!SetByHand(a) \/ Cooldown!Delete(a) PROVE CooldownInv'
  BY <1>1, <1>6 DEF Cooldown!SetByHand, Cooldown!Delete
<1>7. CASE Cooldown!Tick \/ Cooldown!Restart BY <1>1, <1>7 DEF Cooldown!Tick, Cooldown!Restart
<1> QED BY <1>2, <1>3, <1>4, <1>5, <1>6, <1>7 DEF Cooldown!Next

-----------------------------------------------------------------------------
(* Both, side by side.                                                      *)

\* Each part keeps its own invariant.
TasksInv == (part = "hub" => HubInv) /\ (part = "cooldown" => CooldownInv)

\* Every part starts in its invariant.
LEMMA TasksInvInit == TasksInit => TasksInv
BY HubInvInit, CooldownInvInit DEF TasksInit, TasksInv

\* A step is one of its part, and leaves the others alone.
LEMMA TasksInvStep == TasksInv /\ [TasksNext]_allVars => TasksInv'
<1> SUFFICES ASSUME TasksInv, [TasksNext]_allVars PROVE TasksInv' OBVIOUS
<1>1. part' = part BY DEF TasksNext, allVars
<1>2. CASE part = "hub"
  <2>1. [Hub!Next]_(Hub!vars)
    BY <1>2 DEF TasksNext, allVars, hubVars, Hub!vars, Hub!hubVars, Hub!clientVars
  <2> QED BY <1>1, <1>2, <2>1, HubInvStep DEF TasksInv
<1>3. CASE part = "cooldown"
  <2>1. [Cooldown!Next]_(Cooldown!vars)
    BY <1>3 DEF TasksNext, allVars, cooldownOwn, vars, sourceVars, roundVars, Cooldown!vars, Cooldown!callVars
  <2> QED BY <1>1, <1>3, <2>1, CooldownInvStep DEF TasksInv
<1> QED BY <1>1, <1>2, <1>3 DEF TasksInv

(* service/hub.go, api/stream.go: a page that follows the stream knows, is   *)
(* about to be sent or was refused by its own full channel every event since *)
(* it follows it, and is sent the events of one process in their order.      *)
THEOREM StreamsFaithful == TasksSpec => []StreamFaithful
<1>1. TasksInv => StreamFaithful BY HubInvFaithful DEF TasksInv, StreamFaithful
<1> QED BY TasksInvInit, TasksInvStep, <1>1, PTL DEF TasksSpec

(* service/auth_file_cooldown.go, StartAuthFileCooldown and restoreCooldown: *)
(* a credential never has two cooldowns under way.                           *)
THEOREM OneCooldownEach == TasksSpec => []OneActive
<1>1. CooldownInv => Cooldown!OneActive BY DEF CooldownInv, CooldownAlone, Cooldown!OneActive
<1>2. TasksInv => OneActive BY <1>1 DEF TasksInv, OneActive
<1> QED BY TasksInvInit, TasksInvStep, <1>2, PTL DEF TasksSpec

-----------------------------------------------------------------------------
(* The refreshes of quotas, of QuotaRefresh for any credentials, sources    *)
(* and tokens.                                                              *)

(* The constructors of tasks. *)
LEMMA TaskTypes ==
  /\ NoTask \in Task
  /\ \A k \in {"manual", "auto", "inspection"} : Queued(k) \in Task
  /\ \A s : Kind(s) \in {"manual", "auto", "inspection"}
  /\ \A t \in Task, n \in Nat : Completed(t.by, n) \in Task
  /\ \A n \in Nat : Completed("usage_header", n) \in Task
  /\ \A t \in Task, e \in {"http", "other"} : Failed(t, e) \in Task
  /\ \A t \in Task : [t EXCEPT !.status = "running"] \in Task
<1>1. NoTask \in Task BY DEF NoTask, Task
<1>2. \A k \in {"manual", "auto", "inspection"} : Queued(k) \in Task BY DEF Queued, NoTask, Task
<1>3. \A s : Kind(s) \in {"manual", "auto", "inspection"} BY DEF Kind
<1>4. \A t \in Task, n \in Nat : Completed(t.by, n) \in Task BY DEF Completed, NoTask, Task
<1>5. \A n \in Nat : Completed("usage_header", n) \in Task BY DEF Completed, NoTask, Task
<1>6. \A t \in Task, e \in {"http", "other"} : Failed(t, e) \in Task BY DEF Failed, Task
<1>7. \A t \in Task : [t EXCEPT !.status = "running"] \in Task BY DEF Task
<1> QED BY <1>1, <1>2, <1>3, <1>4, <1>5, <1>6, <1>7

(* Next, action by action. *)
LEMMA Actions ==
  ASSUME [Next]_vars
  PROVE  \/ UNCHANGED vars
         \/ \E s \in Sources : Refresh(s) /\ s \in Manual
         \/ \E s \in Sources : DbError(s)
         \/ \E s \in Sources : BeginAuto(s) /\ s \in Automatic
         \/ \E s \in Sources : ClearSettled(s) /\ s \in Inspection
         \/ \E s \in Sources : SetRound(s) \/ StartDispatcher(s) \/ GiveUp(s) \/ Refused(s)
                               \/ Dispatched(s) \/ WaitEnds(s) \/ ResetRound(s)
         \/ \E s \in Sources, a \in Auths : Ensure(s, a)
         \/ \E s \in Sources, a \in Auths : FailQueued(s, a)
         \/ \E s \in Sources, a \in Auths, w \in Tokens : Spawn(s, a, w)
         \/ \E w \in Tokens : StartWork(w)
         \/ \E w \in Tokens : Answer(w)
         \/ \E w \in Tokens : Release(w)
         \/ \E a \in Auths : Expire(a)
         \/ \E a \in Auths : Observe(a) \/ ApplySnapshot(a)
         \/ \E a \in Auths : MergeSnapshot(a)
         \/ IntervalPasses \/ ReadStatus \/ Cancel \/ Close
<1>1. Manual \subseteq Sources /\ Automatic \subseteq Sources /\ Inspection \subseteq Sources
  BY DEF Sources
<1>2. CASE \E s \in Manual : Refresh(s) \/ DbError(s) BY <1>1, <1>2, Zenon
<1>3. CASE \E s \in Automatic : BeginAuto(s) BY <1>1, <1>3, Zenon
<1>4. CASE \E s \in Inspection : ClearSettled(s) BY <1>1, <1>4, Zenon
<1>5. CASE \E s \in Sources : Source(s)
  <2>1. PICK s \in Sources : Source(s) BY <1>5, Zenon
  <2>2. \/ SetRound(s) \/ StartDispatcher(s) \/ GiveUp(s) \/ Refused(s)
        \/ Dispatched(s) \/ WaitEnds(s) \/ ResetRound(s)
        \/ \E a \in Auths : Ensure(s, a) \/ FailQueued(s, a) \/ \E w \in Tokens : Spawn(s, a, w)
    BY <2>1, Zenon DEF Source
  <2> QED BY <2>2, Zenon
<1>6. CASE \E w \in Tokens : Worker(w) BY <1>6, Zenon DEF Worker
<1>7. CASE \E a \in Auths : Expire(a) \/ Header(a) BY <1>7, Zenon DEF Header
<1> QED BY <1>2, <1>3, <1>4, <1>5, <1>6, <1>7, Zenon DEF Next

(* The steps that leave alone the map, the lists and the workers. *)
flightVars == <<tasks, list, stage, job>>

\* They do leave these alone.
LEMMA OtherSteps ==
  ASSUME \/ UNCHANGED vars
         \/ \E s \in Sources : Refresh(s) /\ s \in Manual
         \/ \E s \in Sources : BeginAuto(s) /\ s \in Automatic
         \/ \E s \in Sources : SetRound(s) \/ StartDispatcher(s) \/ GiveUp(s) \/ Refused(s)
                               \/ Dispatched(s) \/ WaitEnds(s) \/ ResetRound(s)
         \/ \E a \in Auths : Observe(a) \/ ApplySnapshot(a)
         \/ IntervalPasses \/ ReadStatus \/ Cancel \/ Close
  PROVE  UNCHANGED flightVars
<1> USE DEF flightVars, sourceVars, workerVars, roundVars, headerVars, lifeVars
<1>1. CASE UNCHANGED vars BY <1>1 DEF vars
<1>2. CASE \E s \in Sources : Refresh(s) /\ s \in Manual BY <1>2 DEF Refresh
<1>3. CASE \E s \in Sources : BeginAuto(s) /\ s \in Automatic BY <1>3 DEF BeginAuto
<1>4. ASSUME NEW s \in Sources, SetRound(s) \/ StartDispatcher(s) \/ GiveUp(s) \/ Refused(s)
  PROVE UNCHANGED flightVars
  BY <1>4 DEF SetRound, StartDispatcher, GiveUp, Refused
<1>5. ASSUME NEW s \in Sources, Dispatched(s) \/ WaitEnds(s) \/ ResetRound(s)
  PROVE UNCHANGED flightVars
  BY <1>5 DEF Dispatched, WaitEnds, ResetRound
<1>6. CASE \E a \in Auths : Observe(a) \/ ApplySnapshot(a) BY <1>6 DEF Observe, ApplySnapshot
<1>7. CASE IntervalPasses \/ ReadStatus \/ Cancel \/ Close
  BY <1>7 DEF IntervalPasses, ReadStatus, Cancel, Close
<1> QED BY <1>1, <1>2, <1>3, <1>4, <1>5, <1>6, <1>7

-----------------------------------------------------------------------------
(* What the map, the lists and the workers hold. *)
FlightTypes ==
  /\ tasks \in [Auths -> Task] /\ list \in [Sources -> SUBSET Auths]
  /\ stage \in [Tokens -> {"free", "spawned", "running", "cooling"}]
  /\ job \in [Tokens -> Auths \cup {NoAuth}]
  /\ \A w \in Tokens : job[w] = NoAuth <=> stage[w] = "free"
  /\ clock \in Nat /\ applying \in [Auths -> Nat] /\ pending \in [Auths -> Nat]

\* A step keeps the types of the tasks and of the workers.
LEMMA FlightTypesStep == FlightTypes /\ [Next]_vars => FlightTypes'
<1> SUFFICES ASSUME FlightTypes, [Next]_vars PROVE FlightTypes' OBVIOUS
<1> USE DEF sourceVars, workerVars, roundVars, headerVars, lifeVars
<1>1. CASE \/ UNCHANGED vars
           \/ \E s \in Sources : Refresh(s) /\ s \in Manual
           \/ \E s \in Sources : BeginAuto(s) /\ s \in Automatic
           \/ \E s \in Sources : SetRound(s) \/ StartDispatcher(s) \/ GiveUp(s) \/ Refused(s)
                                 \/ Dispatched(s) \/ WaitEnds(s) \/ ResetRound(s)
           \/ IntervalPasses \/ ReadStatus \/ Cancel \/ Close
  <2>1. UNCHANGED flightVars BY <1>1, OtherSteps, Zenon
  <2>2. UNCHANGED <<clock, applying, pending>>
    <3>1. ASSUME NEW s \in Sources, SetRound(s) \/ StartDispatcher(s) \/ GiveUp(s) \/ Refused(s)
          PROVE UNCHANGED <<clock, applying, pending>>
      BY <3>1 DEF SetRound, StartDispatcher, GiveUp, Refused
    <3>2. ASSUME NEW s \in Sources, Dispatched(s) \/ WaitEnds(s) \/ ResetRound(s)
          PROVE UNCHANGED <<clock, applying, pending>>
      BY <3>2 DEF Dispatched, WaitEnds, ResetRound
    <3>3. ASSUME NEW s \in Sources, Refresh(s) \/ BeginAuto(s)
          PROVE UNCHANGED <<clock, applying, pending>>
      BY <3>3 DEF Refresh, BeginAuto
    <3>4. CASE UNCHANGED vars \/ IntervalPasses \/ ReadStatus \/ Cancel \/ Close
      BY <3>4 DEF vars, IntervalPasses, ReadStatus, Cancel, Close
    <3> QED BY <1>1, <3>1, <3>2, <3>3, <3>4
  <2> QED BY <2>1, <2>2 DEF FlightTypes, flightVars
<1> USE TaskTypes DEF FlightTypes
<1>2. CASE \E s \in Sources : DbError(s) BY <1>2 DEF DbError
<1>3. CASE \E s \in Sources : ClearSettled(s) /\ s \in Inspection BY <1>3 DEF ClearSettled
<1>4. CASE \E s \in Sources, a \in Auths : Ensure(s, a)
  <2>1. PICK s \in Sources, a \in Auths : Ensure(s, a) BY <1>4
  <2>2. Kind(s) \in {"manual", "auto", "inspection"} OBVIOUS
  <2>3. Queued(Kind(s)) \in Task BY <2>2
  <2>4. UNCHANGED <<stage, job, clock, applying, pending>> BY <2>1 DEF Ensure
  <2>5. CASE tasks' = tasks /\ list' = list BY <2>4, <2>5
  <2>6. CASE /\ tasks' = [tasks EXCEPT ![a] = Queued(Kind(s))]
             /\ list' = [list EXCEPT ![s] = @ \cup {a}]
    BY <2>3, <2>4, <2>6
  <2> QED BY <2>1, <2>5, <2>6 DEF Ensure
<1>5. CASE \E s \in Sources, a \in Auths : FailQueued(s, a)
  <2>1. PICK s \in Sources, a \in Auths : FailQueued(s, a) BY <1>5
  <2>2. Failed(tasks[a], "other") \in Task OBVIOUS
  <2> QED BY <2>1, <2>2 DEF FailQueued
<1>6. CASE \E s \in Sources, a \in Auths, w \in Tokens : Spawn(s, a, w)
  <2>1. PICK s \in Sources, a \in Auths, w \in Tokens : Spawn(s, a, w) BY <1>6
  <2>2. UNCHANGED <<tasks, clock, applying, pending>> BY <2>1 DEF Spawn
  <2>3. CASE UNCHANGED <<list, stage, job>> BY <2>2, <2>3
  <2>4. CASE list' = [list EXCEPT ![s] = @ \ {a}] /\ TakeToken(w, a)
    BY <2>2, <2>4, QuotaConstants DEF TakeToken
  <2> QED BY <2>1, <2>3, <2>4 DEF Spawn
<1>7. CASE \E w \in Tokens : StartWork(w)
  <2>1. PICK w \in Tokens : StartWork(w) BY <1>7
  <2>2. job[w] \in Auths BY <2>1 DEF StartWork
  <2>3. [tasks[job[w]] EXCEPT !.status = "running"] \in Task BY <2>2
  <2> QED BY <2>1, <2>2, <2>3 DEF StartWork
<1>8. CASE \E w \in Tokens : Answer(w)
  <2>1. PICK w \in Tokens : Answer(w) BY <1>8
  <2> DEFINE a == job[w]
  <2>2. a \in Auths BY <2>1 DEF Answer
  <2>3. tasks[a] \in Task /\ clock + 1 \in Nat BY <2>2
  <2>4. \E t \in Task : tasks' = [tasks EXCEPT ![a] = t]
    <3>1. CASE tasks' = [tasks EXCEPT ![a] = Completed(@.by, clock + 1)]
      <4>1. Completed(tasks[a].by, clock + 1) \in Task BY <2>3
      <4> QED BY <3>1, <4>1
    <3>2. ASSUME NEW e \in {"http", "other"}, tasks' = [tasks EXCEPT ![a] = Failed(@, e)]
          PROVE \E t \in Task : tasks' = [tasks EXCEPT ![a] = t]
      <4>1. Failed(tasks[a], e) \in Task BY <2>3
      <4> QED BY <3>2, <4>1
    <3>3. CASE tasks' = [tasks EXCEPT ![a] = NoTask] BY <3>3
    <3> QED BY <2>1, <3>1, <3>2, <3>3 DEF Answer
  <2>5. /\ UNCHANGED <<list, job, applying, pending>> /\ clock' \in Nat
        /\ stage[w] = "running" /\ stage' = [stage EXCEPT ![w] = "cooling"]
    BY <2>1, <2>3 DEF Answer
  <2>6. tasks' \in [Auths -> Task] BY <2>4
  <2> HIDE DEF a
  <2> QED BY <2>5, <2>6
<1>9. CASE \E w \in Tokens : Release(w) BY <1>9, QuotaConstants DEF Release
<1>10. CASE \E a \in Auths : Expire(a) BY <1>10 DEF Expire
<1>11. CASE \E a \in Auths : Observe(a) \/ ApplySnapshot(a)
  <2>1. UNCHANGED flightVars BY <1>11, OtherSteps, Zenon
  <2>2. ASSUME NEW a \in Auths, Observe(a)
        PROVE  clock' \in Nat /\ pending' \in [Auths -> Nat] /\ applying' \in [Auths -> Nat]
    <3>1. PICK n \in 1..clock + 1 :
            /\ pending' = [pending EXCEPT ![a] = IF n >= @ THEN n ELSE @]
            /\ clock' = IF n > clock THEN n ELSE clock
      BY <2>2 DEF Observe
    <3>2. n \in Nat OBVIOUS
    <3>3. applying' = applying BY <2>2 DEF Observe
    <3> QED BY <3>1, <3>2, <3>3
  <2>3. ASSUME NEW a \in Auths, ApplySnapshot(a)
        PROVE  clock' \in Nat /\ pending' \in [Auths -> Nat] /\ applying' \in [Auths -> Nat]
    BY <2>3 DEF ApplySnapshot
  <2> QED BY <1>11, <2>1, <2>2, <2>3 DEF flightVars
<1>12. CASE \E a \in Auths : MergeSnapshot(a)
  <2>1. PICK a \in Auths : MergeSnapshot(a) BY <1>12
  <2>2. Completed("usage_header", applying[a]) \in Task OBVIOUS
  <2> QED BY <2>1, <2>2 DEF MergeSnapshot
<1> QED BY Actions, <1>1, <1>2, <1>3, <1>4, <1>5, <1>6, <1>7, <1>8, <1>9, <1>10, <1>11, <1>12, Zenon

\* The start has them.
LEMMA FlightTypesInit == Init => FlightTypes
BY TaskTypes, QuotaConstants DEF Init, FlightTypes

\* The tasks, the lists and the workers always have their types.
THEOREM FlightTypesHold == Spec => []FlightTypes
BY FlightTypesInit, FlightTypesStep, PTL DEF Spec

-----------------------------------------------------------------------------
(* SingleFlight is inductive: a list or a worker holds a credential only    *)
(* while its task is under way, and nothing but its holder writes a task    *)
(* that is under way.                                                       *)
LEMMA SingleFlightStep == FlightTypes /\ SingleFlight /\ [Next]_vars => SingleFlight'
<1> SUFFICES ASSUME FlightTypes, SingleFlight, [Next]_vars PROVE SingleFlight' OBVIOUS
<1> USE DEF FlightTypes
<1>1. CASE UNCHANGED flightVars
  BY <1>1 DEF flightVars, SingleFlight, Working
<1>2. CASE \E s \in Sources : DbError(s)
  BY <1>2 DEF DbError, SingleFlight, Working, workerVars
<1>3. CASE \E s \in Sources : ClearSettled(s) /\ s \in Inspection
  BY <1>3 DEF ClearSettled, SingleFlight, Working, workerVars, Active
<1>4. CASE \E s \in Sources, a \in Auths : Ensure(s, a)
  <2>1. PICK s \in Sources, a \in Auths : Ensure(s, a) BY <1>4
  <2>2. UNCHANGED <<stage, job>> BY <2>1 DEF Ensure, workerVars
  <2>3. CASE tasks' = tasks /\ list' = list
    BY <2>2, <2>3 DEF SingleFlight, Working
  <2>4. CASE /\ ~Active(tasks[a]) /\ tasks' = [tasks EXCEPT ![a] = Queued(Kind(s))]
             /\ list' = [list EXCEPT ![s] = @ \cup {a}]
    <3>1. \A r \in Sources : a \notin list[r] BY <2>4 DEF SingleFlight, Active
    <3>2. \A w \in Tokens : ~Working(w, a) BY <2>4 DEF SingleFlight, Active, Working
    <3>3. Queued(Kind(s)).status = "queued" BY DEF Queued, NoTask
    <3> QED BY <2>2, <2>4, <3>1, <3>2, <3>3 DEF SingleFlight, Working
  <2> QED BY <2>1, <2>3, <2>4 DEF Ensure, UnderWay
<1>5. CASE \E s \in Sources, a \in Auths : FailQueued(s, a)
  <2>1. PICK s \in Sources, a \in Auths : FailQueued(s, a) BY <1>5
  <2>2. UNCHANGED <<stage, job>> /\ a \in list[s] BY <2>1 DEF FailQueued, workerVars
  <2>3. \A r \in Sources : a \in list[r] => r = s BY <2>2 DEF SingleFlight
  <2>4. \A w \in Tokens : ~Working(w, a) BY <2>2 DEF SingleFlight
  <2> QED BY <2>1, <2>2, <2>3, <2>4 DEF FailQueued, SingleFlight, Working
<1>6. CASE \E s \in Sources, a \in Auths, w \in Tokens : Spawn(s, a, w)
  <2>1. PICK s \in Sources, a \in Auths, w \in Tokens : Spawn(s, a, w) BY <1>6
  <2>2. tasks' = tasks /\ a \in list[s] BY <2>1 DEF Spawn
  <2>3. CASE UNCHANGED <<list, stage, job>> BY <2>2, <2>3 DEF SingleFlight, Working
  <2>4. CASE list' = [list EXCEPT ![s] = @ \ {a}] /\ TakeToken(w, a)
    <3>1. \A r \in Sources : a \in list[r] => r = s BY <2>2 DEF SingleFlight
    <3>2. tasks[a].status = "queued" /\ \A v \in Tokens : ~Working(v, a)
      BY <2>2 DEF SingleFlight
    <3> QED BY <2>2, <2>4, <3>1, <3>2 DEF TakeToken, SingleFlight, Working
  <2> QED BY <2>1, <2>3, <2>4 DEF Spawn, workerVars
<1>7. CASE \E w \in Tokens : StartWork(w)
  <2>1. PICK w \in Tokens : StartWork(w) BY <1>7
  <2>2. job[w] \in Auths BY <2>1 DEF StartWork
  <2>3. Working(w, job[w]) BY <2>1 DEF StartWork, Working
  <2>4. \A s \in Sources : job[w] \notin list[s] BY <2>2, <2>3 DEF SingleFlight
  <2>5. tasks[job[w]].status = "queued" BY <2>1, <2>2, <2>3 DEF SingleFlight, StartWork
  <2>6. \A v \in Tokens : Working(v, job[w]) => v = w BY <2>2, <2>3 DEF SingleFlight
  <2>7. tasks' = [tasks EXCEPT ![job[w]].status = "running"] /\ UNCHANGED <<job, list>>
        /\ stage' = [stage EXCEPT ![w] = "running"]
    BY <2>1, <2>5 DEF StartWork, sourceVars
  <2>8. tasks'[job[w]].status = "running" /\ \A a \in Auths : a # job[w] => tasks'[a] = tasks[a]
    BY <2>2, <2>7 DEF Task
  <2> QED BY <2>2, <2>4, <2>6, <2>7, <2>8 DEF SingleFlight, Working
<1>8. CASE \E w \in Tokens : Answer(w)
  <2>1. PICK w \in Tokens : Answer(w) BY <1>8
  <2>2. job[w] \in Auths BY <2>1 DEF Answer
  <2>3. Working(w, job[w]) BY <2>1 DEF Answer, Working
  <2>4. \A s \in Sources : job[w] \notin list[s] BY <2>2, <2>3 DEF SingleFlight
  <2>5. \A v \in Tokens : Working(v, job[w]) => v = w BY <2>2, <2>3 DEF SingleFlight
  <2>6. \A a \in Auths : a # job[w] => tasks'[a] = tasks[a] BY <2>1, <2>2 DEF Answer
  <2>7. UNCHANGED <<job, list>> /\ stage' = [stage EXCEPT ![w] = "cooling"]
    BY <2>1 DEF Answer, sourceVars
  <2> QED BY <2>2, <2>4, <2>5, <2>6, <2>7 DEF SingleFlight, Working
<1>9. CASE \E w \in Tokens : Release(w)
  BY <1>9 DEF Release, SingleFlight, Working, sourceVars
<1>10. CASE \E a \in Auths : Expire(a)
  <2>1. PICK a \in Auths : Expire(a) BY <1>10
  <2>2. (\A s \in Sources : a \notin list[s]) /\ \A w \in Tokens : ~Working(w, a)
    BY <2>1 DEF Expire, SingleFlight, Working
  <2> QED BY <2>1, <2>2 DEF Expire, SingleFlight, Working, sourceVars, workerVars
<1>11. CASE \E a \in Auths : MergeSnapshot(a)
  <2>1. PICK a \in Auths : MergeSnapshot(a) BY <1>11
  <2>2. UNCHANGED <<list, stage, job>> BY <2>1 DEF MergeSnapshot, sourceVars, workerVars
  <2>3. CASE tasks' = tasks BY <2>2, <2>3 DEF SingleFlight, Working
  <2>4. CASE ~Active(tasks[a]) /\ \A b \in Auths : b # a => tasks'[b] = tasks[b]
    <3>1. (\A s \in Sources : a \notin list[s]) /\ \A w \in Tokens : ~Working(w, a)
      BY <2>4 DEF SingleFlight, Working, Active
    <3> QED BY <2>2, <2>4, <3>1 DEF SingleFlight, Working
  <2> QED BY <2>1, <2>3, <2>4 DEF MergeSnapshot, MayWrite
<1> QED BY Actions, OtherSteps, <1>1, <1>2, <1>3, <1>4, <1>5, <1>6, <1>7, <1>8, <1>9, <1>10, <1>11, Zenon

(* The provider is asked once at a time for a credential, whoever queued    *)
(* it: tasks are created by Ensure, given to a worker by Spawn and settled  *)
(* by that worker or by the dispatcher that gives them up.                  *)
THEOREM SingleFlightHolds == Spec => []SingleFlight
<1>1. Init => SingleFlight BY DEF Init, SingleFlight, Working
<1> QED BY <1>1, FlightTypesHold, SingleFlightStep, PTL DEF Spec

(* A cached result is never replaced by an older one: a worker writes only  *)
(* a running task, and mergeHeaderQuotaCache looks at the time again.       *)
THEOREM CacheNeverOlder == Spec => CacheNotOlder
<1> DEFINE NotOlder == \A a \in Auths :
       tasks[a].status = "completed" /\ tasks'[a].status = "completed" =>
         tasks'[a].at >= tasks[a].at
<1>1. ASSUME FlightTypes, SingleFlight, [Next]_vars PROVE NotOlder
  <2> USE <1>1 DEF FlightTypes
  <2>0. \A a \in Auths : tasks[a].at \in Nat BY DEF Task
  <2>1. CASE tasks' = tasks BY <2>0, <2>1
  <2>2. ASSUME NEW a \in Auths, \A b \in Auths : b # a => tasks'[b] = tasks[b],
               \/ tasks[a].status # "completed" \/ tasks'[a].status # "completed"
               \/ tasks'[a].at >= tasks[a].at
        PROVE  NotOlder
    BY <2>0, <2>2
  <2>3. CASE \E s \in Sources : ClearSettled(s) /\ s \in Inspection
    BY <2>0, <2>3 DEF ClearSettled, NoTask
  <2>4. CASE \E s \in Sources, a \in Auths : Ensure(s, a)
    <3>1. PICK s \in Sources, a \in Auths : Ensure(s, a) BY <2>4
    <3>2. tasks' = tasks \/ tasks' = [tasks EXCEPT ![a] = Queued(Kind(s))] BY <3>1 DEF Ensure
    <3>3. Queued(Kind(s)).status = "queued" BY DEF Queued, NoTask
    <3> QED BY <2>1, <2>2, <3>2, <3>3
  <2>5. CASE \E s \in Sources, a \in Auths : FailQueued(s, a)
    <3>1. PICK s \in Sources, a \in Auths : FailQueued(s, a) BY <2>5
    <3>2. tasks[a].status = "queued" BY <3>1 DEF FailQueued, SingleFlight
    <3> QED BY <2>2, <3>1, <3>2 DEF FailQueued
  <2>6. CASE \E w \in Tokens : StartWork(w)
    <3>1. PICK w \in Tokens : StartWork(w) BY <2>6
    <3>2. job[w] \in Auths BY <3>1 DEF StartWork
    <3>3. \/ tasks' = tasks
          \/ /\ tasks[job[w]].status = "queued"
             /\ tasks' = [tasks EXCEPT ![job[w]].status = "running"]
      BY <3>1 DEF StartWork
    <3> QED BY <2>1, <2>2, <3>2, <3>3
  <2>7. CASE \E w \in Tokens : Answer(w)
    <3>1. PICK w \in Tokens : Answer(w) BY <2>7
    <3>2. job[w] \in Auths BY <3>1 DEF Answer
    <3>3. tasks[job[w]].status = "running" BY <3>1, <3>2 DEF Answer, SingleFlight, Working
    <3>4. \A b \in Auths : b # job[w] => tasks'[b] = tasks[b] BY <3>1, <3>2 DEF Answer
    <3> QED BY <2>2, <3>2, <3>3, <3>4
  <2>8. CASE \E a \in Auths : Expire(a)
    <3>1. PICK a \in Auths : Expire(a) BY <2>8
    <3> QED BY <2>2, <3>1 DEF Expire
  <2>9. CASE \E a \in Auths : MergeSnapshot(a)
    <3>1. PICK a \in Auths : MergeSnapshot(a) BY <2>9
    <3>2. CASE tasks' = tasks BY <2>1, <3>2
    <3>3. CASE /\ MayWrite(tasks[a], applying[a])
               /\ tasks' = [tasks EXCEPT ![a] = Completed("usage_header", applying[a])]
      <4>1. Completed("usage_header", applying[a]).at = applying[a] BY DEF Completed, NoTask
      <4>2. tasks[a].status = "completed" => applying[a] >= tasks[a].at
        BY <2>0, <3>3 DEF MayWrite
      <4> QED BY <2>2, <3>3, <4>1, <4>2
    <3> QED BY <3>1, <3>2, <3>3 DEF MergeSnapshot
  <2>10. CASE \E s \in Sources : DbError(s) BY <2>1, <2>10 DEF DbError
  <2>11. CASE \E s \in Sources, a \in Auths, w \in Tokens : Spawn(s, a, w)
    BY <2>1, <2>11 DEF Spawn
  <2>12. CASE \E w \in Tokens : Release(w) BY <2>1, <2>12 DEF Release
  <2>13. CASE UNCHANGED flightVars BY <2>1, <2>13 DEF flightVars
  <2> HIDE DEF NotOlder
  <2> QED BY Actions, OtherSteps, <2>3, <2>4, <2>5, <2>6, <2>7, <2>8, <2>9, <2>10, <2>11, <2>12,
             <2>13, Zenon
<1> QED BY <1>1, FlightTypesHold, SingleFlightHolds, PTL DEF Spec, CacheNotOlder

-----------------------------------------------------------------------------
(* The rest of TypeOK, in parts that few actions disturb. That an idle      *)
(* source has left nothing behind needs what the places on its way leave.   *)
SourceTypes ==
  /\ pc \in [Sources -> {"idle", "reset", "queue", "start", "dispatch", "fail", "refused", "wait"}]
  /\ todo \in [Sources -> SUBSET Auths]
  /\ \A s \in Sources : pc[s] \in {"idle", "reset", "wait"} => list[s] = {}
  /\ \A s \in Sources : pc[s] # "queue" => todo[s] = {}
RoundTypes ==
  /\ round \in [Sources -> SUBSET Auths] /\ rounds \in 0..MaxRounds
  /\ dbErrors \in 0..MaxDbErrors
FlagTypes ==
  /\ autoRunning \in BOOLEAN /\ due \in BOOLEAN /\ cancelled \in BOOLEAN /\ closing \in BOOLEAN
  /\ inspection \in [active : BOOLEAN, set : SUBSET Auths, completed : BOOLEAN]
TimeTypes ==
  /\ pending \in [Auths -> 0..clock] /\ applying \in [Auths -> 0..clock]
  /\ snapshots \in 0..MaxSnapshots

Types == FlightTypes /\ SourceTypes /\ RoundTypes /\ FlagTypes /\ TimeTypes

\* The parts of the types together are those of the state.
LEMMA TypeParts == Types => TypeOK
BY DEF Types, TypeOK, FlightTypes, SourceTypes, RoundTypes, FlagTypes, TimeTypes

\* A step keeps the types of what the callers of a refresh know.
LEMMA SourceTypesStep == FlightTypes /\ SourceTypes /\ [Next]_vars => SourceTypes'
<1> SUFFICES ASSUME FlightTypes, SourceTypes, [Next]_vars PROVE SourceTypes' OBVIOUS
<1> USE DEF FlightTypes, SourceTypes, sourceVars
<1>1. CASE UNCHANGED sourceVars BY <1>1
<1>2. ASSUME NEW s \in Sources, Refresh(s) \/ BeginAuto(s) PROVE SourceTypes'
  BY <1>2 DEF Refresh, BeginAuto, Begin, LookAt, Goto
<1>3. ASSUME NEW s \in Sources, DbError(s) \/ ClearSettled(s) \/ SetRound(s) PROVE SourceTypes'
  BY <1>3 DEF DbError, ClearSettled, SetRound, Begin, Goto
<1>4. ASSUME NEW s \in Sources, StartDispatcher(s) PROVE SourceTypes'
  <2>1. \/ list[s] = {} /\ pc' = [pc EXCEPT ![s] = "idle"]
        \/ pc' = [pc EXCEPT ![s] = "refused"] \/ pc' = [pc EXCEPT ![s] = "dispatch"]
    BY <1>4 DEF StartDispatcher, Goto
  <2>2. todo[s] = {} /\ UNCHANGED <<todo, list>> BY <1>4 DEF StartDispatcher
  <2> QED BY <2>1, <2>2
<1>5. ASSUME NEW s \in Sources, GiveUp(s) \/ Refused(s) \/ Dispatched(s) \/ WaitEnds(s)
      PROVE SourceTypes'
  <2>1. UNCHANGED <<todo, list>> /\ pc[s] \in {"dispatch", "refused", "fail", "wait"}
    BY <1>5 DEF GiveUp, Refused, Dispatched, WaitEnds
  <2>2. \/ pc' = [pc EXCEPT ![s] = "fail"]
        \/ list[s] = {} /\ pc' = [pc EXCEPT ![s] = "wait"]
        \/ list[s] = {} /\ pc' = [pc EXCEPT ![s] = "idle"]
    BY <1>5 DEF GiveUp, Refused, Dispatched, WaitEnds, Goto
  <2> QED BY <2>1, <2>2
<1>6. ASSUME NEW s \in Sources, ResetRound(s) PROVE SourceTypes'
  BY <1>6 DEF ResetRound, LookAt, Goto
<1>7. ASSUME NEW s \in Sources, NEW a \in Auths, Ensure(s, a) PROVE SourceTypes'
  <2>1. pc[s] = "queue" /\ pc' = pc /\ todo' = [todo EXCEPT ![s] = @ \ {a}] BY <1>7 DEF Ensure
  <2>2. \A r \in Sources : r # s => list'[r] = list[r]
    <3>1. list' = list \/ list' = [list EXCEPT ![s] = @ \cup {a}] BY <1>7 DEF Ensure
    <3> QED BY <3>1
  <2> QED BY <2>1, <2>2
<1>8. ASSUME NEW s \in Sources, NEW a \in Auths, FailQueued(s, a) PROVE SourceTypes'
  BY <1>8 DEF FailQueued
<1>9. ASSUME NEW s \in Sources, NEW a \in Auths, NEW w \in Tokens, Spawn(s, a, w)
      PROVE SourceTypes'
  BY <1>9 DEF Spawn, Goto
<1>10. CASE \E w \in Tokens : StartWork(w) \/ Answer(w) \/ Release(w)
  BY <1>1, <1>10 DEF StartWork, Answer, Release
<1>11. CASE \E a \in Auths : Expire(a) \/ Observe(a) \/ ApplySnapshot(a) \/ MergeSnapshot(a)
  BY <1>1, <1>11 DEF Expire, Observe, ApplySnapshot, MergeSnapshot
<1>12. CASE UNCHANGED vars \/ IntervalPasses \/ ReadStatus \/ Cancel \/ Close
  BY <1>1, <1>12 DEF vars, IntervalPasses, ReadStatus, Cancel, Close
<1> QED BY Actions, <1>2, <1>3, <1>4, <1>5, <1>6, <1>7, <1>8, <1>9, <1>10, <1>11, <1>12, Zenon

\* A step keeps the types of the rounds of automatic refresh and of inspection.
LEMMA RoundTypesStep == FlightTypes /\ RoundTypes /\ [Next]_vars => RoundTypes'
<1> SUFFICES ASSUME FlightTypes, RoundTypes, [Next]_vars PROVE RoundTypes' OBVIOUS
<1> USE QuotaConstants DEF FlightTypes, RoundTypes, sourceVars
<1>1. CASE UNCHANGED <<round, rounds, dbErrors>> BY <1>1
<1>2. ASSUME NEW s \in Sources, Refresh(s) \/ BeginAuto(s) PROVE RoundTypes'
  BY <1>2 DEF Refresh, BeginAuto, Begin, LookAt
<1>3. ASSUME NEW s \in Sources, DbError(s) \/ ClearSettled(s) PROVE RoundTypes'
  BY <1>3 DEF DbError, ClearSettled, Begin
<1>4. ASSUME NEW s \in Sources, ResetRound(s) PROVE RoundTypes' BY <1>4 DEF ResetRound, LookAt
<1>5. ASSUME NEW s \in Sources, NEW a \in Auths, Ensure(s, a) PROVE RoundTypes'
  <2>1. UNCHANGED <<rounds, dbErrors>> BY <1>5 DEF Ensure
  <2>2. \/ round' = [round EXCEPT ![s] = @ \cup {x \in {a} : tasks[a].by = Kind(s)}]
        \/ round' = round
        \/ round' = [round EXCEPT ![s] = @ \cup {a}]
    BY <1>5 DEF Ensure
  <2> QED BY <2>1, <2>2
<1>6. ASSUME NEW s \in Sources, SetRound(s) \/ StartDispatcher(s) \/ GiveUp(s) \/ Refused(s)
      PROVE RoundTypes'
  BY <1>1, <1>6 DEF SetRound, StartDispatcher, GiveUp, Refused
<1>7. ASSUME NEW s \in Sources, Dispatched(s) \/ WaitEnds(s) PROVE RoundTypes'
  BY <1>1, <1>7 DEF Dispatched, WaitEnds
<1>8. ASSUME NEW s \in Sources, NEW a \in Auths, FailQueued(s, a) PROVE RoundTypes'
  BY <1>1, <1>8 DEF FailQueued
<1>9. ASSUME NEW s \in Sources, NEW a \in Auths, NEW w \in Tokens, Spawn(s, a, w)
      PROVE RoundTypes'
  BY <1>1, <1>9 DEF Spawn
<1>10. CASE \E w \in Tokens : StartWork(w) \/ Answer(w) \/ Release(w)
  BY <1>1, <1>10 DEF StartWork, Answer, Release
<1>11. CASE \E a \in Auths : Expire(a) \/ Observe(a) \/ ApplySnapshot(a) \/ MergeSnapshot(a)
  BY <1>1, <1>11 DEF Expire, Observe, ApplySnapshot, MergeSnapshot
<1>12. CASE UNCHANGED vars \/ IntervalPasses \/ ReadStatus \/ Cancel \/ Close
  BY <1>1, <1>12 DEF vars, IntervalPasses, ReadStatus, Cancel, Close
<1> QED BY Actions, <1>2, <1>3, <1>4, <1>5, <1>6, <1>7, <1>8, <1>9, <1>10, <1>11, <1>12, Zenon

\* A step keeps the types of the flags that end the workers and the rounds.
LEMMA FlagTypesStep == FlagTypes /\ RoundTypes /\ [Next]_vars => FlagTypes'
<1> SUFFICES ASSUME FlagTypes, RoundTypes, [Next]_vars PROVE FlagTypes' OBVIOUS
<1> USE DEF FlagTypes, roundVars, lifeVars
<1>1. CASE UNCHANGED <<autoRunning, due, inspection, cancelled, closing>> BY <1>1
<1>2. ASSUME NEW s \in Sources, BeginAuto(s) PROVE FlagTypes' BY <1>2 DEF BeginAuto
<1>3. ASSUME NEW s \in Sources, SetRound(s) PROVE FlagTypes'
  BY <1>3 DEF SetRound, RoundTypes
<1>4. ASSUME NEW s \in Sources, ResetRound(s) PROVE FlagTypes' BY <1>4 DEF ResetRound
<1>5. ASSUME NEW s \in Sources, StartDispatcher(s) PROVE FlagTypes'
  <2>1. UNCHANGED <<due, inspection, cancelled, closing>> BY <1>5 DEF StartDispatcher
  <2>2. autoRunning' = autoRunning \/ autoRunning' = (autoRunning /\ s \notin Automatic)
    BY <1>5 DEF StartDispatcher, Finish
  <2> QED BY <2>1, <2>2
<1>6. ASSUME NEW s \in Sources, Refused(s) \/ WaitEnds(s) PROVE FlagTypes'
  BY <1>6 DEF Refused, WaitEnds, Finish
<1>7. ASSUME NEW s \in Sources, Refresh(s) \/ DbError(s) \/ ClearSettled(s) PROVE FlagTypes'
  BY <1>1, <1>7 DEF Refresh, DbError, ClearSettled
<1>8. ASSUME NEW s \in Sources, GiveUp(s) \/ Dispatched(s) PROVE FlagTypes'
  BY <1>1, <1>8 DEF GiveUp, Dispatched
<1>9. ASSUME NEW s \in Sources, NEW a \in Auths, Ensure(s, a) \/ FailQueued(s, a) PROVE FlagTypes'
  BY <1>1, <1>9 DEF Ensure, FailQueued
<1>10. ASSUME NEW s \in Sources, NEW a \in Auths, NEW w \in Tokens, Spawn(s, a, w)
       PROVE FlagTypes'
  BY <1>1, <1>10 DEF Spawn
<1>11. CASE \E w \in Tokens : StartWork(w) \/ Answer(w) \/ Release(w)
  BY <1>1, <1>11 DEF StartWork, Answer, Release
<1>12. CASE \E a \in Auths : Expire(a) \/ Observe(a) \/ ApplySnapshot(a) \/ MergeSnapshot(a)
  BY <1>1, <1>12 DEF Expire, Observe, ApplySnapshot, MergeSnapshot
<1>13. CASE UNCHANGED vars \/ IntervalPasses \/ ReadStatus \/ Cancel \/ Close
  BY <1>13 DEF vars, IntervalPasses, ReadStatus, Cancel, Close
<1> QED BY Actions, <1>2, <1>3, <1>4, <1>5, <1>6, <1>7, <1>8, <1>9, <1>10, <1>11, <1>12, <1>13,
           Zenon

\* A step keeps the times of the tasks and of the headers.
LEMMA TimeTypesStep == FlightTypes /\ TimeTypes /\ [Next]_vars => TimeTypes'
<1> SUFFICES ASSUME FlightTypes, TimeTypes, [Next]_vars PROVE TimeTypes' OBVIOUS
<1> USE QuotaConstants DEF TimeTypes, headerVars
<1>0. clock \in Nat BY DEF FlightTypes
<1>1. CASE UNCHANGED <<clock, pending, applying, snapshots>> BY <1>1
<1>2. ASSUME NEW w \in Tokens, Answer(w) PROVE TimeTypes'
  <2>1. UNCHANGED <<pending, applying, snapshots>> BY <1>2 DEF Answer
  <2>2. clock' = clock \/ clock' = clock + 1 BY <1>2 DEF Answer
  <2>3. 0..clock \subseteq 0..clock' BY <1>0, <2>2
  <2> QED BY <2>1, <2>3
<1>3. ASSUME NEW a \in Auths, Observe(a) PROVE TimeTypes'
  <2>1. PICK n \in 1..clock + 1 :
          /\ pending' = [pending EXCEPT ![a] = IF n >= @ THEN n ELSE @]
          /\ clock' = IF n > clock THEN n ELSE clock
    BY <1>3 DEF Observe
  <2>2. n \in Nat /\ clock' \in Nat /\ 0..clock \subseteq 0..clock' /\ n \in 0..clock'
    BY <1>0, <2>1
  <2>3. applying' = applying /\ snapshots < MaxSnapshots /\ snapshots' = snapshots + 1
    BY <1>3 DEF Observe
  <2>4. pending[a] \in 0..clock' BY <2>2
  <2> QED BY <2>1, <2>2, <2>3, <2>4
<1>4. ASSUME NEW a \in Auths, ApplySnapshot(a) PROVE TimeTypes'
  BY <1>0, <1>4 DEF ApplySnapshot
<1>5. ASSUME NEW a \in Auths, MergeSnapshot(a) PROVE TimeTypes'
  BY <1>0, <1>5 DEF MergeSnapshot
<1>6. ASSUME NEW s \in Sources, Refresh(s) \/ DbError(s) \/ BeginAuto(s) \/ ClearSettled(s)
      PROVE TimeTypes'
  BY <1>1, <1>6 DEF Refresh, DbError, BeginAuto, ClearSettled
<1>7. ASSUME NEW s \in Sources, SetRound(s) \/ StartDispatcher(s) \/ GiveUp(s) \/ Refused(s)
      PROVE TimeTypes'
  BY <1>1, <1>7 DEF SetRound, StartDispatcher, GiveUp, Refused
<1>8. ASSUME NEW s \in Sources, Dispatched(s) \/ WaitEnds(s) \/ ResetRound(s) PROVE TimeTypes'
  BY <1>1, <1>8 DEF Dispatched, WaitEnds, ResetRound
<1>9. ASSUME NEW s \in Sources, NEW a \in Auths, Ensure(s, a) \/ FailQueued(s, a) PROVE TimeTypes'
  BY <1>1, <1>9 DEF Ensure, FailQueued
<1>10. ASSUME NEW s \in Sources, NEW a \in Auths, NEW w \in Tokens, Spawn(s, a, w)
       PROVE TimeTypes'
  BY <1>1, <1>10 DEF Spawn
<1>11. CASE \E w \in Tokens : StartWork(w) \/ Release(w) BY <1>1, <1>11 DEF StartWork, Release
<1>12. CASE \E a \in Auths : Expire(a) BY <1>1, <1>12 DEF Expire
<1>13. CASE UNCHANGED vars \/ IntervalPasses \/ ReadStatus \/ Cancel \/ Close
  BY <1>1, <1>13 DEF vars, IntervalPasses, ReadStatus, Cancel, Close
<1> QED BY Actions, <1>2, <1>3, <1>4, <1>5, <1>6, <1>7, <1>8, <1>9, <1>10, <1>11, <1>12, <1>13,
           Zenon

(* The inductive invariant of the types. *)
THEOREM TypesHold == Spec => []Types
<1>1. Init => SourceTypes BY DEF Init, SourceTypes
<1>2. Init => RoundTypes
  <2>1. 0 \in 0..MaxRounds /\ 0 \in 0..MaxDbErrors BY QuotaConstants
  <2>2. SUFFICES ASSUME Init PROVE RoundTypes OBVIOUS
  <2>3. /\ rounds = 0 /\ dbErrors = 0 /\ round = [s \in Sources |-> {}]
    BY <2>2 DEF Init
  <2> QED BY <2>1, <2>3 DEF RoundTypes
<1>3. Init => FlagTypes
  <2> SUFFICES ASSUME Init PROVE FlagTypes OBVIOUS
  <2>1. /\ autoRunning = FALSE /\ due = TRUE /\ cancelled = FALSE /\ closing = FALSE
        /\ inspection = [active |-> FALSE, set |-> {}, completed |-> FALSE]
    BY DEF Init
  <2> QED BY <2>1 DEF FlagTypes
<1>4. Init => TimeTypes
  <2>1. 0 \in 0..MaxSnapshots /\ 0 \in 0..0 BY QuotaConstants
  <2> QED BY <2>1 DEF Init, TimeTypes
<1>5. Types /\ [Next]_vars => Types'
  BY FlightTypesStep, SourceTypesStep, RoundTypesStep, FlagTypesStep, TimeTypesStep DEF Types
<1> QED BY <1>1, <1>2, <1>3, <1>4, <1>5, FlightTypesInit, PTL DEF Spec, Types

(* The state of the service keeps its type whatever the sources, workers    *)
(* and snapshots do; a source that is through has left nothing behind.      *)
THEOREM TypeCorrect == Spec => []TypeOK
BY TypesHold, TypeParts, PTL

-----------------------------------------------------------------------------
(* OneAutoRound is inductive: beginAutoRefreshRound starts a round only     *)
(* while no other is under way, and every way out of a round finishes it.   *)
LEMMA OneAutoRoundStep ==
  SourceTypes /\ FlagTypes /\ OneAutoRound /\ [Next]_vars => OneAutoRound'
<1> SUFFICES ASSUME SourceTypes, FlagTypes, OneAutoRound, [Next]_vars PROVE OneAutoRound' OBVIOUS
<1> USE QuotaConstants DEF SourceTypes, FlagTypes, Sources, sourceVars, roundVars, Goto
<1>1. CASE UNCHANGED <<pc, autoRunning>> BY <1>1 DEF OneAutoRound
<1>2. ASSUME NEW s \in Sources, NEW where, s \notin Automatic \/ (pc[s] # "idle" /\ where # "idle"),
             pc' = [pc EXCEPT ![s] = where], autoRunning' <=> autoRunning
      PROVE OneAutoRound'
  <2>1. \A r \in Automatic : pc'[r] # "idle" <=> pc[r] # "idle" BY <1>2
  <2> QED BY <1>2, <2>1 DEF OneAutoRound
<1>3. ASSUME NEW s \in Sources, pc[s] # "idle", pc' = [pc EXCEPT ![s] = "idle"], Finish(s)
      PROVE OneAutoRound'
  <2>1. CASE s \notin Automatic
    <3>1. autoRunning' <=> autoRunning BY <1>3, <2>1, Zenon DEF Finish
    <3> QED BY <1>2, <1>3, <2>1, <3>1
  <2>2. CASE s \in Automatic
    <3>1. ~autoRunning' BY <1>3, <2>2, Zenon DEF Finish
    <3>2. \A r \in Automatic : pc'[r] = "idle" BY <1>3, <2>2 DEF OneAutoRound
    <3> QED BY <3>1, <3>2 DEF OneAutoRound
  <2> QED BY <2>1, <2>2
<1>4. ASSUME NEW s \in Sources, Refresh(s), s \in Manual PROVE OneAutoRound'
  <2>1. s \notin Automatic BY <1>4
  <2>2. pc' = [pc EXCEPT ![s] = "queue"] /\ autoRunning' = autoRunning
    BY <1>4 DEF Refresh, Begin
  <2> QED BY <1>2, <2>1, <2>2
<1>5. ASSUME NEW s \in Sources, DbError(s) PROVE OneAutoRound' BY <1>2, <1>5 DEF DbError
<1>6. ASSUME NEW s \in Sources, BeginAuto(s), s \in Automatic PROVE OneAutoRound'
  <2>1. autoRunning' = TRUE /\ ~autoRunning /\ pc' = [pc EXCEPT ![s] = "queue"]
    BY <1>6 DEF BeginAuto, Begin
  <2>2. \A r \in Automatic : pc[r] = "idle" BY <2>1 DEF OneAutoRound
  <2> QED BY <1>6, <2>1, <2>2 DEF OneAutoRound
<1>7. ASSUME NEW s \in Inspection, ClearSettled(s) PROVE OneAutoRound'
  BY <1>2, <1>7 DEF ClearSettled, Begin
<1>8. ASSUME NEW s \in Sources, SetRound(s) \/ ResetRound(s) \/ GiveUp(s) PROVE OneAutoRound'
  <2>1. pc[s] # "idle" /\ autoRunning' = autoRunning BY <1>8 DEF SetRound, ResetRound, GiveUp
  <2>2. \E where \in {"start", "queue", "fail"} : pc' = [pc EXCEPT ![s] = where]
    BY <1>8 DEF SetRound, ResetRound, GiveUp
  <2> QED BY <1>2, <2>1, <2>2
<1>9. ASSUME NEW s \in Sources, StartDispatcher(s) PROVE OneAutoRound'
  <2>1. pc[s] # "idle" BY <1>9 DEF StartDispatcher
  <2>2. \/ pc' = [pc EXCEPT ![s] = "idle"] /\ Finish(s)
        \/ pc' = [pc EXCEPT ![s] = "refused"] /\ autoRunning' = autoRunning
        \/ pc' = [pc EXCEPT ![s] = "dispatch"] /\ autoRunning' = autoRunning
    BY <1>9 DEF StartDispatcher
  <2>3. CASE pc' = [pc EXCEPT ![s] = "idle"] /\ Finish(s) BY <1>3, <2>1, <2>3, Zenon
  <2>4. ASSUME NEW where \in {"refused", "dispatch"},
               pc' = [pc EXCEPT ![s] = where], autoRunning' = autoRunning
        PROVE  OneAutoRound'
    BY <1>2, <2>1, <2>4
  <2> QED BY <2>2, <2>3, <2>4
<1>10. ASSUME NEW s \in Sources, Refused(s) \/ WaitEnds(s) PROVE OneAutoRound'
  <2>1. pc[s] # "idle" /\ pc' = [pc EXCEPT ![s] = "idle"] BY <1>10 DEF Refused, WaitEnds
  <2>2. Finish(s) BY <1>10, Zenon DEF Refused, WaitEnds
  <2> QED BY <1>3, <2>1, <2>2, Zenon
<1>11. ASSUME NEW s \in Sources, Dispatched(s) PROVE OneAutoRound'
  BY <1>2, <1>11 DEF Dispatched
<1>12. ASSUME NEW s \in Sources, NEW a \in Auths, Ensure(s, a) \/ FailQueued(s, a)
       PROVE OneAutoRound'
  BY <1>1, <1>12 DEF Ensure, FailQueued
<1>13. ASSUME NEW s \in Sources, NEW a \in Auths, NEW w \in Tokens, Spawn(s, a, w)
       PROVE OneAutoRound'
  BY <1>1, <1>2, <1>13 DEF Spawn
<1>14. CASE \E w \in Tokens : StartWork(w) \/ Answer(w) \/ Release(w)
  BY <1>1, <1>14 DEF StartWork, Answer, Release
<1>15. CASE \E a \in Auths : Expire(a) \/ Observe(a) \/ ApplySnapshot(a) \/ MergeSnapshot(a)
  BY <1>1, <1>15 DEF Expire, Observe, ApplySnapshot, MergeSnapshot
<1>16. CASE UNCHANGED vars \/ IntervalPasses \/ ReadStatus \/ Cancel \/ Close
  BY <1>1, <1>16 DEF vars, IntervalPasses, ReadStatus, Cancel, Close
<1> QED BY Actions, <1>4, <1>5, <1>6, <1>7, <1>8, <1>9, <1>10, <1>11, <1>12, <1>13, <1>14, <1>15,
           <1>16, Zenon

(* Automatic rounds never overlap, and the flag is theirs alone.            *)
THEOREM OneAutoRoundHolds == Spec => []OneAutoRound
<1>1. Init => OneAutoRound BY DEF Init, OneAutoRound, Sources
<1> QED BY <1>1, TypesHold, OneAutoRoundStep, PTL DEF Spec, Types

-----------------------------------------------------------------------------
(* Once the service closes with nothing under way, only a dispatcher could  *)
(* begin anything, and startRefreshGoroutine refuses it.                    *)
THEOREM StopFinal == Spec => StopIsFinal
<1>1. ASSUME Types, closing, Idle, [Next]_vars PROVE Idle'
  <2> USE <1>1 DEF Types, FlightTypes, SourceTypes, sourceVars, workerVars
  <2>1. (\A w \in Tokens : stage[w] = "free")
        /\ \A s \in Sources : pc[s] \notin {"dispatch", "fail", "wait"}
    BY DEF Idle
  <2> USE <2>1
  <2>2. CASE UNCHANGED <<pc, stage>> BY <2>2 DEF Idle
  <2>3. ASSUME NEW s \in Sources, NEW where, where \notin {"dispatch", "fail", "wait"},
               pc' = [pc EXCEPT ![s] = where], stage' = stage
        PROVE  Idle'
    BY <2>3 DEF Idle
  <2>4. ASSUME NEW s \in Sources, Refresh(s) \/ BeginAuto(s) \/ ClearSettled(s) PROVE Idle'
    <3>1. stage' = stage BY <2>4 DEF Refresh, BeginAuto, ClearSettled
    <3>2. \E where \in {"queue", "reset"} : pc' = [pc EXCEPT ![s] = where]
      BY <2>4 DEF Refresh, BeginAuto, ClearSettled, Begin, Goto
    <3> QED BY <2>3, <3>1, <3>2
  <2>5. ASSUME NEW s \in Sources, DbError(s) \/ SetRound(s) \/ ResetRound(s) \/ Refused(s)
        PROVE  Idle'
    <3>1. stage' = stage BY <2>5 DEF DbError, SetRound, ResetRound, Refused
    <3>2. \E where \in {"queue", "start", "idle"} : pc' = [pc EXCEPT ![s] = where]
      BY <2>5 DEF DbError, SetRound, ResetRound, Refused, Goto
    <3> QED BY <2>3, <3>1, <3>2
  <2>6. ASSUME NEW s \in Sources, StartDispatcher(s) PROVE Idle'
    <3>1. stage' = stage BY <2>6 DEF StartDispatcher
    <3>2. \E where \in {"refused", "idle"} : pc' = [pc EXCEPT ![s] = where]
      BY <2>6 DEF StartDispatcher, Goto
    <3> QED BY <2>3, <3>1, <3>2
  <2>7. ASSUME NEW s \in Sources, GiveUp(s) \/ Dispatched(s) \/ WaitEnds(s) PROVE FALSE
    BY <2>7 DEF GiveUp, Dispatched, WaitEnds
  <2>8. ASSUME NEW s \in Sources, NEW a \in Auths, Ensure(s, a) \/ FailQueued(s, a) PROVE Idle'
    BY <2>2, <2>8 DEF Ensure, FailQueued
  <2>9. ASSUME NEW s \in Sources, NEW a \in Auths, NEW w \in Tokens, Spawn(s, a, w) PROVE FALSE
    BY <2>9 DEF Spawn
  <2>10. ASSUME NEW w \in Tokens, StartWork(w) \/ Answer(w) \/ Release(w) PROVE FALSE
    BY <2>10 DEF StartWork, Answer, Release
  <2>11. CASE \E a \in Auths : Expire(a) \/ Observe(a) \/ ApplySnapshot(a) \/ MergeSnapshot(a)
    BY <2>2, <2>11 DEF Expire, Observe, ApplySnapshot, MergeSnapshot
  <2>12. CASE UNCHANGED vars \/ IntervalPasses \/ ReadStatus \/ Cancel \/ Close
    BY <2>2, <2>12 DEF vars, IntervalPasses, ReadStatus, Cancel, Close
  <2> QED BY Actions, <2>4, <2>5, <2>6, <2>7, <2>8, <2>9, <2>10, <2>11, <2>12, Zenon
<1> QED BY <1>1, TypesHold, PTL DEF Spec, StopIsFinal

(* Both together: one query per credential and one round at a time.         *)
THEOREM AlwaysOneAtATime == Spec => []OneAtATime
BY SingleFlightHolds, OneAutoRoundHolds, PTL DEF OneAtATime

=============================================================================
