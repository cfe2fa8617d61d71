-------------------------- MODULE RecentEventCache --------------------------
(***************************************************************************)
(* The memory copy of the latest usage events                              *)
(* (internal/repository/usage_recent_event_cache.go) and of the health of  *)
(* the credentials (usage_credential_health_cache.go).                     *)
(*                                                                         *)
(* A transaction commits usage events; only then the writer offers them to *)
(* the cache, without waiting: a batch that finds no free slot is dropped. *)
(* One goroutine takes a batch, gives its slot back, appends the batch and *)
(* prunes what is older than the window.  A restart loads the window from  *)
(* the database.  A batch is one event here; the time runs in whole ticks. *)
(***************************************************************************)
EXTENDS Integers, Sequences, SequencesExt, UsageWindows

CONSTANTS Window,        \* how long an event stays in the cache (70 minutes)
          HealthWindow,  \* how long a health bucket stays (5 hours)
          HealthSpan,    \* the length of a health bucket (10 minutes)
          Slots,         \* the batches the queue holds (100)
          Credentials,   \* the credentials events belong to
          EventTimes,    \* the times an event may carry
          FirstTime, MaxTime,  \* bound: the clock's first and last reading
          MaxRows,       \* bound: events committed
          MaxRestarts    \* bound: restarts of the process

CacheConstants ==
    /\ Window \in Nat \ {0} /\ HealthSpan \in Nat \ {0} /\ Slots \in Nat \ {0}
    /\ HealthWindow \in Nat /\ HealthWindow % HealthSpan = 0
    /\ EventTimes \subseteq Int
    /\ {FirstTime, MaxTime} \subseteq Int /\ {MaxRows, MaxRestarts} \subseteq Nat
ASSUME CacheAssumption == CacheConstants

VARIABLES now,        \* the clock
          rows,       \* the committed usage events, a row's place is its id
          offered,    \* the committed event its writer has not offered yet, or 0
          queue,      \* the batches waiting for the worker
          worker,     \* the worker: "idle", "took", "has" (slot given back) or "gone"
          held,       \* the batch the worker holds, or 0
          closed,     \* whether Close has been called
          cached,     \* the events in the cache
          health,     \* the events counted in a health bucket
          lastPrune,  \* lastFullPruneUnix, 0 for never
          delivered,  \* ghost: the events that ever reached this cache
          dropped,    \* ghost: the events whose batch was refused or lost
          restarts    \* restarts so far
cacheVars == <<now, rows, offered, queue, worker, held, closed, cached, health,
               lastPrune, delivered, dropped, restarts>>

Ids == 1..MaxRows
Committed == DOMAIN rows

-----------------------------------------------------------------------------
\* credentialHealthBucketUnix, credentialHealthWindowEnd, ...WindowStart
HealthBucket(t) == Truncate(t, HealthSpan)
HealthEnd(t)    == Truncate(t, HealthSpan) + HealthSpan
HealthStart(t)  == HealthEnd(t) - HealthWindow

MutKeepLess(ids, t) == {i \in ids : rows[i].ts > t - Window}

\* pruneLocked: what stays of a set of cached events
KeepRecent(ids, t) == {i \in ids : rows[i].ts >= t - Window}

\* pruneCredentialHealthKeyLocked for a set of credentials
KeepHealth(ids, t, creds) ==
    {i \in ids : rows[i].cred \in creds => HealthBucket(rows[i].ts) >= HealthStart(t)}

MutFullPruneLate(t) == HealthEnd(t) - lastPrune > HealthSpan

\* shouldFullPruneCredentialHealthLocked
FullPruneDue(t) == lastPrune = 0 \/ HealthEnd(t) - lastPrune >= HealthSpan

\* appendCredentialHealthRowsLocked, then pruneCredentialHealthLocked: every
\* credential once per bucket of time, else only the one just touched
AppendHealth(i) ==
    LET full  == FullPruneDue(now)
        creds == IF full THEN Credentials ELSE {rows[i].cred}
    IN  /\ health' = KeepHealth(health \union {i}, now, creds)
        /\ lastPrune' = IF full THEN HealthEnd(now) ELSE lastPrune

\* the slots TryAppend can still reserve: the worker gives one back only after
\* it has taken the batch out of the channel
FreeSlots == Slots - Len(queue) - (IF worker = "took" THEN 1 ELSE 0)

-----------------------------------------------------------------------------
\* NewUsageRecentEventCache on what the table holds
LoadAt(t) ==
    /\ cached' = {i \in Committed : rows[i].ts >= t - Window}
    /\ health' = KeepHealth({i \in Committed : rows[i].ts >= t - HealthWindow},
                            t, Credentials)
    /\ lastPrune' = HealthEnd(t)
    /\ delivered' = Committed
    /\ offered' = 0 /\ queue' = <<>> /\ worker' = "idle" /\ held' = 0
    /\ closed' = FALSE

CacheInit ==
    /\ now = FirstTime
    /\ rows = <<>> /\ offered = 0 /\ queue = <<>> /\ worker = "idle" /\ held = 0
    /\ closed = FALSE /\ cached = {} /\ health = {} /\ lastPrune = HealthEnd(FirstTime)
    /\ delivered = {} /\ dropped = {} /\ restarts = 0

Tick ==
    /\ now < MaxTime
    /\ now' = now + 1
    /\ UNCHANGED <<rows, offered, queue, worker, held, closed, cached, health,
                   lastPrune, delivered, dropped, restarts>>

\* A transaction commits an event.  Its time is the request's: it may be old.
Commit(t, c) ==
    /\ offered = 0
    /\ Len(rows) < MaxRows
    /\ t <= now
    /\ rows' = Append(rows, [ts |-> t, cred |-> c])
    /\ offered' = Len(rows) + 1
    /\ UNCHANGED <<now, queue, worker, held, closed, cached, health, lastPrune,
                   delivered, dropped, restarts>>

\* The writer offers the committed events: refused when the cache is closing or
\* no slot is free.
TryAppend ==
    /\ offered # 0
    /\ offered' = 0
    /\ IF ~closed /\ FreeSlots > 0
       THEN queue' = Append(queue, offered) /\ UNCHANGED dropped
       ELSE dropped' = dropped \union {offered} /\ UNCHANGED queue
    /\ UNCHANGED <<now, rows, worker, held, closed, cached, health, lastPrune,
                   delivered, restarts>>

\* The worker's select takes a batch; it may do so after Close as well.
WorkerTake ==
    /\ worker = "idle" /\ queue # <<>>
    /\ worker' = "took" /\ held' = Head(queue) /\ queue' = Tail(queue)
    /\ UNCHANGED <<now, rows, offered, closed, cached, health, lastPrune,
                   delivered, dropped, restarts>>

ReleaseSlot ==
    /\ worker = "took"
    /\ worker' = "has"
    /\ UNCHANGED <<now, rows, offered, queue, held, closed, cached, health,
                   lastPrune, delivered, dropped, restarts>>

\* appendEvents: append and prune, both copies, under one lock.
WorkerAppend ==
    /\ worker = "has"
    /\ worker' = "idle" /\ held' = 0
    /\ cached' = KeepRecent(cached \union {held}, now)
    /\ AppendHealth(held)
    /\ delivered' = delivered \union {held}
    /\ UNCHANGED <<now, rows, offered, queue, closed, dropped, restarts>>

\* Close asks the worker to leave and waits for it; what is queued stays there.
Close ==
    /\ ~closed
    /\ closed' = TRUE
    /\ UNCHANGED <<now, rows, offered, queue, worker, held, cached, health,
                   lastPrune, delivered, dropped, restarts>>

WorkerExit ==
    /\ closed /\ worker = "idle"
    /\ worker' = "gone"
    /\ UNCHANGED <<now, rows, offered, queue, held, closed, cached, health,
                   lastPrune, delivered, dropped, restarts>>

\* The process ends, after Close or without it, and starts again.
Restart ==
    /\ restarts < MaxRestarts
    /\ restarts' = restarts + 1
    /\ LoadAt(now)
    /\ dropped' = {}
    /\ UNCHANGED <<now, rows>>

CacheWork == TryAppend \/ WorkerTake \/ ReleaseSlot \/ WorkerAppend

CacheNext ==
    \/ Tick \/ CacheWork \/ Close \/ WorkerExit \/ Restart
    \/ \E t \in EventTimes, c \in Credentials : Commit(t, c)

-----------------------------------------------------------------------------
\* What each variable holds.
CacheTypeOK ==
    /\ now \in FirstTime..MaxTime
    /\ rows \in BoundedSeq([ts : EventTimes, cred : Credentials], MaxRows)
    /\ offered \in Ids \union {0} /\ held \in Ids \union {0}
    /\ queue \in BoundedSeq(Ids, Slots)
    /\ worker \in {"idle", "took", "has", "gone"}
    /\ closed \in BOOLEAN
    /\ cached \subseteq Committed /\ health \subseteq Committed
    /\ delivered \subseteq Committed /\ dropped \subseteq Committed
    /\ lastPrune \in Int

\* No committed event is forgotten silently: each is on its way to the cache,
\* has reached it, or belongs to a batch that was refused, and one that reached
\* it stays as long as its time is inside the window (TryAppend, run, Close,
\* NewUsageRecentEventCache).
CacheComplete ==
    /\ Committed = delivered \union dropped \union ToSet(queue)
                     \union ({offered, held} \ {0})
    /\ \A i \in delivered : rows[i].ts >= now - Window => i \in cached

\* The health buckets hold exactly the delivered events of the window that ended
\* at the last full prune: the partial prune of the touched credential alone
\* neither loses a bucket a snapshot shows nor leaves another credential's old
\* buckets behind (pruneCredentialHealthLocked, shouldFullPruneCredentialHealthLocked).
HealthExact ==
    health = {i \in delivered : HealthBucket(rows[i].ts) >= lastPrune - HealthWindow}
=============================================================================
