-------------------------- MODULE UsageAggregation --------------------------
(***************************************************************************)
(* The statistics derived from the usage_events table: the lifetime totals *)
(* of every identity, advanced by the process runner and by the metadata   *)
(* sync at the same time, and the overview tables, advanced in batches     *)
(* behind one checkpoint; beside them the cleanup of old events and        *)
(* crashes of the process.                                                 *)
(*                                                                         *)
(* An event is its id. Of the counters of an identity only the number of   *)
(* requests is kept (the tokens are added up alike), of the overview how   *)
(* often each event went into it.                                          *)
(***************************************************************************)
EXTENDS Naturals, FiniteSets, FiniteSetsExt

CONSTANTS
  AuthFiles,     \* identities of auth_type 1
  Providers,     \* identities of auth_type 2
  MaxEvents,     \* bound: events ever inserted
  MaxInsert,     \* bound: events inserted by one round
  BatchSize,     \* insertBatchSize(UsageEvent)
  MaxFaults,     \* bound: statements, transactions and fetches that fail
  MaxCrashes     \* bound: process deaths

ASSUME AggregationConstants ==
  /\ AuthFiles \cap Providers = {}
  /\ MaxEvents \in Nat /\ MaxInsert \in Nat
  /\ BatchSize \in Nat \ {0}
  /\ MaxFaults \in Nat /\ MaxCrashes \in Nat

Identities == AuthFiles \cup Providers
Ids == 1 .. MaxEvents
Aggregators == {"runner", "metadata"}

VARIABLES
  owner,       \* the identity of each event; fixed by what CPA sent
  next,        \* id of the next event
  stored,      \* events in usage_events
  rows,        \* identities with a row
  active,      \* rows that are not is_deleted
  total,       \* total_requests column
  cursor,      \* last_aggregated_usage_event_id column
  checkpoint,  \* cursor of the overview
  overview,    \* how often each event was added to the overview tables
  missed,      \* history: events deleted before the overview took them
  pc,          \* where each aggregator is
  seen,        \* the identity rows each aggregator read
  faults, crashes

eventVars    == <<owner, next, stored>>
identityVars == <<rows, active, total, cursor>>
overviewVars == <<checkpoint, overview, missed>>
budgetVars   == <<faults, crashes>>
vars == <<eventVars, identityVars, overviewVars, pc, seen, budgetVars>>

Nothing == [rows |-> {}, total |-> [i \in Identities |-> 0],
            cursor |-> [i \in Identities |-> 0]]

Init ==
  /\ owner \in [Ids -> Identities]
  /\ next = 1 /\ stored = {}
  /\ rows = {} /\ active = {}
  /\ total = [i \in Identities |-> 0]
  /\ cursor = [i \in Identities |-> 0]
  /\ checkpoint = 0
  /\ overview = [e \in Ids |-> 0]
  /\ missed = {}
  /\ pc = [a \in Aggregators |-> "idle"]
  /\ seen = [a \in Aggregators |-> Nothing]
  /\ faults = 0 /\ crashes = 0

Running == pc["runner"] \notin {"down", "startup"}

-----------------------------------------------------------------------------
Fault == faults < MaxFaults /\ faults' = faults + 1 /\ UNCHANGED crashes

(* Aggregator a moves on, and forgets what it read. *)
Goto(a, step) ==
  /\ pc' = [pc EXCEPT ![a] = step]
  /\ seen' = [seen EXCEPT ![a] = Nothing]

(* The process runner stores a batch of events; ids are AUTOINCREMENT. *)
NextId == next
NextFreeId == IF stored = {} THEN 1 ELSE Max(stored) + 1   \* faulty: ids reused
InsertId == NextId

InsertEvents(n) ==
  /\ pc["runner"] = "idle"
  /\ InsertId + n <= MaxEvents + 1
  /\ stored' = stored \cup InsertId .. (InsertId + n - 1)
  /\ next' = InsertId + n
  /\ Goto("runner", "load")
  /\ UNCHANGED <<owner, identityVars, overviewVars, budgetVars>>

(* The cheap check of an empty round: does the overview lag behind? *)
Pending == \E e \in stored : e > checkpoint

(* Faulty: the empty round aggregates only if there were no events at all. *)
EmptyRoundIdle == FALSE /\ UNCHANGED vars
EmptyRound ==
  /\ pc["runner"] = "idle"
  /\ Pending
  /\ Goto("runner", "load")
  /\ UNCHANGED <<eventVars, identityVars, overviewVars, budgetVars>>

-----------------------------------------------------------------------------
(* Totals per identity. The rows are read before the transaction that       *)
(* writes them begins.                                                      *)

(* Faulty: rows of deleted identities are left out. *)
LoadActiveRows(a) ==
  /\ pc[a] = "load"
  /\ seen' = [seen EXCEPT ![a] = [rows |-> active, total |-> total, cursor |-> cursor]]
  /\ pc' = [pc EXCEPT ![a] = "apply"]
  /\ UNCHANGED <<eventVars, identityVars, overviewVars, budgetVars>>

LoadRows(a) ==
  /\ pc[a] = "load"
  /\ seen' = [seen EXCEPT ![a] = [rows |-> rows, total |-> total, cursor |-> cursor]]
  /\ pc' = [pc EXCEPT ![a] = "apply"]
  /\ UNCHANGED <<eventVars, identityVars, overviewVars, budgetVars>>

(* The stored events of identity i past cursor c. *)
Delta(i, c) == {e \in stored : owner[e] = i /\ e > c}

(* What a writes for i if its cursor moves: the total it read plus the      *)
(* delta it finds now; or, faulty, the delta on top of the current total.   *)
AddedUp(a, i) == total[i] + Cardinality(Delta(i, seen[a].cursor[i]))
NewTotal(a, i) == seen[a].total[i] + Cardinality(Delta(i, seen[a].cursor[i]))

(* The last event aggregated; or, faulty, the id after it.                  *)
CursorPast(i, c) == Max(Delta(i, c)) + 1
NewCursor(i, c) == Max(Delta(i, c))

ApplyDeltas(a) ==
  /\ pc[a] = "apply"
  /\ LET moved == {i \in seen[a].rows : Delta(i, seen[a].cursor[i]) # {}}
     IN  /\ total' = [i \in Identities |-> IF i \in moved THEN NewTotal(a, i) ELSE total[i]]
         /\ cursor' = [i \in Identities |-> IF i \in moved
                         THEN NewCursor(i, seen[a].cursor[i]) ELSE cursor[i]]
  /\ Goto(a, IF a = "runner" THEN "overview" ELSE "idle")
  /\ UNCHANGED <<eventVars, rows, active, overviewVars, budgetVars>>

AggregationFails(a) ==
  /\ pc[a] \in {"load", "apply"}
  /\ Fault
  /\ Goto(a, "idle")
  /\ UNCHANGED <<eventVars, identityVars, overviewVars>>

-----------------------------------------------------------------------------
(* The overview, one transaction per batch, by the process runner after the *)
(* identities and by the start of the application.                          *)

Unaggregated == {e \in stored : e > checkpoint}
Batch == {e \in Unaggregated : Cardinality({d \in Unaggregated : d < e}) < BatchSize}

(* A batch that is not full is the last; or, faulty, any batch. *)
AnyBatchIsLast(n) == n <= BatchSize
LastBatch(n) == n < BatchSize

(* Faulty: the checkpoint is not moved in the batch's transaction. *)
OverviewBatchOnly ==
  /\ pc["runner"] \in {"overview", "startup"}
  /\ overview' = [e \in Ids |-> overview[e] + IF e \in Batch THEN 1 ELSE 0]
  /\ Goto("runner", "idle")
  /\ UNCHANGED <<eventVars, identityVars, checkpoint, missed, budgetVars>>

OverviewBatch ==
  /\ pc["runner"] \in {"overview", "startup"}
  /\ overview' = [e \in Ids |-> overview[e] + IF e \in Batch THEN 1 ELSE 0]
  /\ checkpoint' = IF Batch = {} THEN checkpoint ELSE Max(Batch)
  /\ IF LastBatch(Cardinality(Batch)) THEN Goto("runner", "idle")
                                      ELSE UNCHANGED <<pc, seen>>
  /\ UNCHANGED <<eventVars, identityVars, missed, budgetVars>>

(* A batch that fails ends the round, or the start of the application. *)
OverviewFails ==
  /\ pc["runner"] \in {"overview", "startup"}
  /\ Fault
  /\ Goto("runner", IF pc["runner"] = "startup" THEN "down" ELSE "idle")
  /\ UNCHANGED <<eventVars, identityVars, overviewVars>>

-----------------------------------------------------------------------------
(* The metadata sync replaces the identities of each source it could fetch, *)
(* and aggregates if no source failed.                                      *)

SyncAuthFiles ==
  /\ pc["metadata"] = "idle" /\ Running
  /\ \/ \E incoming \in SUBSET AuthFiles :
          /\ rows' = rows \cup incoming
          /\ active' = (active \ AuthFiles) \cup incoming
          /\ Goto("metadata", "providers")
          /\ UNCHANGED budgetVars
     \/ Fault /\ Goto("metadata", "providersOnly") /\ UNCHANGED <<rows, active>>
  /\ UNCHANGED <<eventVars, total, cursor, overviewVars>>

(* Only the provider types that were fetched can turn out stale; the write  *)
(* may fail, and after a failed source there is no aggregation.             *)
SyncProviders ==
  /\ pc["metadata"] \in {"providers", "providersOnly"}
  /\ \/ \E incoming \in SUBSET Providers : \E stale \in SUBSET (Providers \ incoming) :
          /\ rows' = rows \cup incoming
          /\ active' = (active \cup incoming) \ stale
          /\ Goto("metadata", IF pc["metadata"] = "providers" THEN "load" ELSE "idle")
          /\ UNCHANGED budgetVars
     \/ Fault /\ Goto("metadata", "idle") /\ UNCHANGED <<rows, active>>
  /\ UNCHANGED <<eventVars, total, cursor, overviewVars>>

-----------------------------------------------------------------------------
(* The daily cleanup deletes the events from before the previous month. The *)
(* timestamps are CPA's, so these may be any, aggregated or not.            *)
CleanupUsageEvents ==
  /\ Running
  /\ \E old \in SUBSET stored \ {{}} :
       /\ stored' = stored \ old
       /\ missed' = missed \cup {e \in old : e > checkpoint}
  /\ UNCHANGED <<owner, next, identityVars, checkpoint, overview, pc, seen, budgetVars>>

Crash ==
  /\ Running
  /\ crashes < MaxCrashes
  /\ crashes' = crashes + 1
  /\ pc' = [a \in Aggregators |-> IF a = "runner" THEN "down" ELSE "idle"]
  /\ seen' = [a \in Aggregators |-> Nothing]
  /\ UNCHANGED <<eventVars, identityVars, overviewVars, faults>>

(* A start catches the overview up before any other task. *)
Start ==
  /\ pc["runner"] = "down"
  /\ Goto("runner", "startup")
  /\ UNCHANGED <<eventVars, identityVars, overviewVars, budgetVars>>

Aggregate(a) == LoadRows(a) \/ ApplyDeltas(a)
Runner   == EmptyRound \/ Aggregate("runner") \/ OverviewBatch
Metadata == SyncAuthFiles \/ SyncProviders \/ Aggregate("metadata")

Next ==
  \/ \E n \in 1 .. MaxInsert : InsertEvents(n)
  \/ Runner \/ Metadata
  \/ \E a \in Aggregators : AggregationFails(a)
  \/ OverviewFails
  \/ CleanupUsageEvents
  \/ Crash \/ Start

Spec == Init /\ [][Next]_vars

(* The two runners of a running application go on for ever; the metadata    *)
(* sync runs at least in polling mode. Nobody restarts the application.     *)
FairSpec == Spec /\ WF_vars(Runner) /\ WF_vars(Metadata)

-----------------------------------------------------------------------------
TypeOK ==
  /\ owner \in [Ids -> Identities]
  /\ next \in 1 .. (MaxEvents + 1)
  /\ stored \in SUBSET (1 .. (next - 1))
  /\ rows \in SUBSET Identities /\ active \in SUBSET rows
  /\ total \in [Identities -> Nat] /\ cursor \in [Identities -> 0 .. (next - 1)]
  /\ checkpoint \in 0 .. (next - 1)
  /\ overview \in [Ids -> Nat]
  /\ missed \in SUBSET Ids
  /\ pc \in [Aggregators -> {"idle", "load", "apply", "overview", "down", "startup",
                             "providers", "providersOnly"}]
  /\ seen \in [Aggregators -> [rows : SUBSET Identities, total : [Identities -> Nat],
                               cursor : [Identities -> 0 .. (next - 1)]]]
  /\ faults \in 0 .. MaxFaults /\ crashes \in 0 .. MaxCrashes

(* Every event up to cursor c that was ever stored for identity i. *)
Ever(i, c) == {e \in 1 .. (next - 1) : owner[e] = i /\ e <= c}

(* No request is counted twice in an identity's lifetime total, though two  *)
(* aggregators start from the same rows and an aggregation may be repeated. *)
NoDoubleCount == \A i \in Identities : total[i] <= Cardinality(Ever(i, cursor[i]))

(* An event still stored below an identity's cursor is in its total: what   *)
(* the cursor has passed was counted, whichever aggregator moved it.        *)
SurvivorsCounted ==
  \A i \in Identities : total[i] >= Cardinality(Ever(i, cursor[i]) \cap stored)

(* The overview holds every event up to the checkpoint once, unless the     *)
(* cleanup deleted it before, and none beyond.                              *)
OverviewOnce ==
  \A e \in 1 .. (next - 1) :
    overview[e] = IF e <= checkpoint /\ e \notin missed THEN 1 ELSE 0

(* The application is up only once the overview caught up with the table.   *)
StartsCaughtUp ==
  [][pc["runner"] = "startup" /\ pc'["runner"] = "idle" => ~Pending']_vars

(* The update of an identity adds the events past the cursor its row has,   *)
(* as the comment on the cursor in aggregateUsageIdentityDelta says: "only  *)
(* new events after the last time are accumulated".                         *)
AddsOnlyNewEvents ==
  [][\A i \in Identities : cursor'[i] # cursor[i] =>
        total'[i] = total[i] + Cardinality(Delta(i, cursor[i]))]_vars

(* Unless the application goes down for good, the overview takes up every   *)
(* stored event though no further message may arrive.                       *)
OverviewCatchesUp == [](Pending => <>(~Pending \/ pc["runner"] = "down"))

(* Likewise for every identity, deleted or not, thanks to the metadata sync:*)
(* after a crash the empty rounds see only the overview's lag.              *)
Lags(i) == i \in rows /\ Delta(i, cursor[i]) # {}
IdentitiesCatchUp ==
  \A i \in Identities : [](Lags(i) => <>(~Lags(i) \/ pc["runner"] = "down"))

(* What a cursor has passed is in the total once: neither twice, nor never  *)
(* as long as it is stored.                                                 *)
TotalsExact == NoDoubleCount /\ SurvivorsCounted

(* No aggregate lags for ever, neither the overview nor an identity.        *)
AggregatesCatchUp == OverviewCatchesUp /\ IdentitiesCatchUp

=============================================================================
