----------------------------- MODULE UsageInbox -----------------------------
(***************************************************************************)
(* The durable usage inbox (redis_usage_inboxes), the process runner that  *)
(* turns its rows into usage events, the daily cleanup of the inbox, and   *)
(* crashes of the process between any two database statements.             *)
(*                                                                         *)
(* A row is its id; ids are handed out in insertion order. Of a message    *)
(* only whether it decodes is kept, of an event only how many were stored  *)
(* for a row, of time only whether the retention period of a row is over.  *)
(***************************************************************************)
EXTENDS Naturals, FiniteSets

CONSTANTS
  MaxRows,       \* bound: rows ever inserted
  Limit,         \* redisInboxProcessLimit: rows taken in one round
  MaxAttempts,   \* redisUsageInboxMaxProcessAttempts
  MaxFaults,     \* bound: database statements that fail
  MaxCrashes     \* bound: process deaths

ASSUME InboxConstants ==
  /\ MaxRows \in Nat
  /\ Limit \in Nat \ {0}
  /\ MaxAttempts \in Nat \ {0}
  /\ MaxFaults \in Nat
  /\ MaxCrashes \in Nat

Rows == 1 .. MaxRows

VARIABLES
  malformed,   \* rows whose message does not decode; fixed by what CPA sent
  next,        \* id of the next row
  status,      \* status column, "absent" before insertion, "deleted" after cleanup
  attempts,    \* attempt_count column
  expired,     \* rows whose retention period is over
  events,      \* number of usage events stored for each row
  behind,      \* rows whose event the statistics have not aggregated yet
  pc,          \* where the process runner is
  todo,        \* rows of this round still to decode
  valid,       \* rows of this round that decoded
  failing,     \* rows of this round still to be marked process_failed
  announced,   \* rows whose event this run of the process published to the hub
  headers,     \* rows whose header snapshots were handed to the quota worker
  cleaner,     \* where the daily cleanup is
  faults, crashes

inboxVars   == <<malformed, next, status, attempts, expired>>
eventVars   == <<events, behind>>
roundVars   == <<todo, valid, failing>>
noticeVars  == <<announced, headers>>
budgetVars  == <<faults, crashes>>
vars == <<inboxVars, eventVars, pc, roundVars, noticeVars, cleaner, budgetVars>>

Statuses == {"absent", "pending", "processed", "decode_failed",
             "process_failed", "discarded", "deleted"}
(* Faulty: the cleanup's list of failed statuses includes pending. *)
FailedOrPending == {"pending", "decode_failed", "process_failed", "discarded"}
FailedStatuses == {"decode_failed", "process_failed", "discarded"}
Steps == {"down", "list", "catchUp", "decode", "normalize", "commit",
          "markFailed", "announce", "aggregate", "headers"}

Stored(r)   == status[r] \notin {"absent", "deleted"}
(* Faulty: malformed, or discarded, rows are listed again. *)
ProcessableMalformed == {r \in Rows : status[r] \in {"pending", "decode_failed"}}
ProcessableDiscarded ==
  {r \in Rows : status[r] \in {"pending", "process_failed", "discarded"}}
Processable == {r \in Rows : status[r] \in {"pending", "process_failed"}}

(* The attempt just counted was the last one the budget allows. *)
ExhaustedLate(n) == n > MaxAttempts   \* faulty: one retry too many
Exhausted(n) == n >= MaxAttempts

(* The Limit smallest ids of S: ORDER BY id ASC LIMIT. *)
Oldest(S) == {r \in S : Cardinality({q \in S : q < r}) < Limit}

Init ==
  /\ malformed \in SUBSET Rows
  /\ next = 1
  /\ status = [r \in Rows |-> "absent"]
  /\ attempts = [r \in Rows |-> 0]
  /\ expired = {}
  /\ events = [r \in Rows |-> 0]
  /\ behind = {}
  /\ pc = "list"
  /\ todo = {} /\ valid = {} /\ failing = {}
  /\ announced = {} /\ headers = {}
  /\ cleaner = "asleep"
  /\ faults = 0 /\ crashes = 0

-----------------------------------------------------------------------------
(* A statement or transaction of the database fails and leaves it as it was. *)
Fault == faults < MaxFaults /\ faults' = faults + 1 /\ UNCHANGED crashes

(* The round is over; the runner sleeps or goes straight on to the next one. *)
EndRound ==
  /\ pc' = "list"
  /\ todo' = {} /\ valid' = {} /\ failing' = {}

(* The ingest side stores a batch of n messages in one transaction. *)
InsertBatch(n) ==
  /\ next + n <= MaxRows + 1
  /\ pc # "down"
  /\ LET new == next .. (next + n - 1)
     IN  status' = [r \in Rows |-> IF r \in new THEN "pending" ELSE status[r]]
  /\ next' = next + n
  /\ UNCHANGED <<malformed, attempts, expired, eventVars, pc, roundVars,
                 noticeVars, cleaner, budgetVars>>

-----------------------------------------------------------------------------
(* One round of the process runner. *)

(* Faulty: an empty round does nothing. *)
ListRowsOnly ==
  /\ pc = "list" /\ Processable # {}
  /\ todo' = Oldest(Processable)
  /\ pc' = "decode"
  /\ UNCHANGED <<inboxVars, eventVars, valid, failing, noticeVars, cleaner,
                 budgetVars>>

ListRows ==
  /\ pc = "list"
  /\ \/ /\ Processable # {}
        /\ todo' = Oldest(Processable)
        /\ pc' = "decode"
     \/ /\ Processable = {} /\ behind # {}
        /\ pc' = "catchUp"
        /\ UNCHANGED todo
  /\ UNCHANGED <<inboxVars, eventVars, valid, failing, noticeVars, cleaner,
                 budgetVars>>

(* Faulty: a row that does not decode is skipped, not marked. *)
DecodeRowSkipping ==
  /\ pc = "decode"
  /\ \E r \in todo :
       /\ \A q \in todo : r <= q
       /\ todo' = todo \ {r}
       /\ valid' = valid \cup ({r} \ malformed)
  /\ UNCHANGED <<inboxVars, eventVars, pc, failing, noticeVars, cleaner, budgetVars>>

(* Rows are decoded in id order. A row that decodes joins the batch; one   *)
(* that does not is marked at once, outside the batch's transaction. The   *)
(* UPDATE finds no row if the cleanup deleted it meanwhile.                *)
DecodeRow ==
  /\ pc = "decode"
  /\ \E r \in todo :
       /\ \A q \in todo : r <= q
       /\ todo' = todo \ {r}
       /\ \/ /\ r \notin malformed
             /\ valid' = valid \cup {r}
             /\ UNCHANGED <<status, attempts, expired>>
          \/ /\ r \in malformed
             /\ IF Stored(r)
                THEN /\ status' = [status EXCEPT ![r] = "decode_failed"]
                     /\ attempts' = [attempts EXCEPT ![r] = @ + 1]
                     /\ expired' = expired \ {r}
                ELSE UNCHANGED <<status, attempts, expired>>
             /\ UNCHANGED valid
  /\ UNCHANGED <<malformed, next, eventVars, pc, failing, noticeVars, cleaner,
                 budgetVars>>

(* Marking a malformed row fails: the whole round is given up. *)
DecodeMarkFails ==
  /\ pc = "decode"
  /\ \E r \in todo \cap malformed : \A q \in todo : r <= q
  /\ Fault
  /\ EndRound
  /\ UNCHANGED <<inboxVars, eventVars, noticeVars, cleaner>>

DecodeDone ==
  /\ pc = "decode" /\ todo = {}
  /\ IF valid = {}
     THEN EndRound
     ELSE pc' = "normalize" /\ UNCHANGED roundVars
  /\ UNCHANGED <<inboxVars, eventVars, noticeVars, cleaner, budgetVars>>

(* The provider type of every event is looked up before anything is written. *)
Normalize ==
  /\ pc = "normalize"
  /\ \/ pc' = "commit" /\ UNCHANGED <<failing, budgetVars>>
     \/ pc' = "markFailed" /\ failing' = valid /\ Fault
  /\ UNCHANGED <<inboxVars, eventVars, todo, valid, noticeVars, cleaner>>

(* One transaction inserts the events and marks their rows processed. A row *)
(* deleted by the cleanup since it was listed still gets its event.         *)
Commit ==
  /\ pc = "commit"
  /\ events' = [r \in Rows |-> events[r] + IF r \in valid THEN 1 ELSE 0]
  /\ behind' = behind \cup valid
  /\ status' = [r \in Rows |-> IF r \in valid /\ Stored(r) THEN "processed"
                                                          ELSE status[r]]
  /\ expired' = expired \ {r \in valid : Stored(r)}
  /\ pc' = "announce"
  /\ UNCHANGED <<malformed, next, attempts, roundVars, noticeVars, cleaner,
                 budgetVars>>

(* Faulty: the events are inserted outside the transaction that fails. *)
CommitFailsHalfway ==
  /\ pc = "commit"
  /\ Fault
  /\ events' = [r \in Rows |-> events[r] + IF r \in valid THEN 1 ELSE 0]
  /\ failing' = valid
  /\ pc' = "markFailed"
  /\ UNCHANGED <<inboxVars, behind, todo, valid, noticeVars, cleaner>>

CommitFails ==
  /\ pc = "commit"
  /\ Fault
  /\ failing' = valid
  /\ pc' = "markFailed"
  /\ UNCHANGED <<inboxVars, eventVars, todo, valid, noticeVars, cleaner>>

(* Every row of the failed batch uses up one attempt; the last attempt      *)
(* discards it. A row that cannot be marked is skipped, not retried.        *)
MarkRowFailed ==
  /\ pc = "markFailed"
  /\ \E r \in failing :
       /\ \A q \in failing : r <= q
       /\ failing' = failing \ {r}
       /\ \/ /\ Stored(r)
             /\ attempts' = [attempts EXCEPT ![r] = @ + 1]
             /\ status' = [status EXCEPT ![r] =
                  IF Exhausted(attempts[r] + 1) THEN "discarded"
                                                    ELSE "process_failed"]
             /\ expired' = expired \ {r}
             /\ UNCHANGED budgetVars
          \/ ~Stored(r) /\ UNCHANGED <<attempts, status, expired, budgetVars>>
          \/ Fault /\ UNCHANGED <<attempts, status, expired>>
  /\ UNCHANGED <<malformed, next, eventVars, pc, todo, valid, noticeVars, cleaner>>

MarkDone ==
  /\ pc = "markFailed" /\ failing = {}
  /\ EndRound
  /\ UNCHANGED <<inboxVars, eventVars, noticeVars, cleaner, budgetVars>>

(* Faulty: published while the transaction is still open. *)
AnnounceEarly ==
  /\ pc \in {"commit", "announce"}
  /\ announced' = announced \cup valid
  /\ pc' = IF pc = "commit" THEN pc ELSE "aggregate"
  /\ UNCHANGED <<inboxVars, eventVars, roundVars, headers, cleaner, budgetVars>>

(* After the commit the hub learns of the events.                          *)
Announce ==
  /\ pc = "announce"
  /\ announced' = announced \cup valid
  /\ pc' = "aggregate"
  /\ UNCHANGED <<inboxVars, eventVars, roundVars, headers, cleaner, budgetVars>>

(* Faulty: a failed aggregation is logged and the round goes on. *)
AggregateLogged ==
  /\ pc = "aggregate"
  /\ behind' = {} \/ behind' \in SUBSET behind
  /\ pc' = "headers"
  /\ UNCHANGED <<inboxVars, events, roundVars, noticeVars, cleaner, budgetVars>>

(* The statistics catch up with every stored event, or fail after any part *)
(* of it; the batch's header snapshots go out only once they caught up.    *)
Aggregate ==
  /\ pc = "aggregate"
  /\ \/ behind' = {} /\ pc' = "headers" /\ UNCHANGED <<roundVars, budgetVars>>
     \/ behind' \in SUBSET behind /\ EndRound /\ Fault
  /\ UNCHANGED <<inboxVars, events, noticeVars, cleaner>>

SendHeaders ==
  /\ pc = "headers"
  /\ headers' = headers \cup valid
  /\ EndRound
  /\ UNCHANGED <<inboxVars, eventVars, announced, cleaner, budgetVars>>

(* An empty round pays off the aggregation an earlier round failed to do. *)
CatchUp ==
  /\ pc = "catchUp"
  /\ \/ behind' = {} /\ UNCHANGED budgetVars
     \/ behind' \in SUBSET behind /\ Fault
  /\ EndRound
  /\ UNCHANGED <<inboxVars, events, noticeVars, cleaner>>

-----------------------------------------------------------------------------
(* The daily cleanup: two DELETE statements, the second only if the first   *)
(* succeeded.                                                               *)

Expire(r) ==
  /\ status[r] \in FailedStatuses \cup {"processed"}
  /\ r \notin expired
  /\ expired' = expired \cup {r}
  /\ UNCHANGED <<malformed, next, status, attempts, eventVars, pc, roundVars,
                 noticeVars, cleaner, budgetVars>>

DeleteExpired(sts) ==
  LET gone == {r \in expired : status[r] \in sts}
  IN  /\ status' = [r \in Rows |-> IF r \in gone THEN "deleted" ELSE status[r]]
      /\ expired' = expired \ gone

CleanupProcessed ==
  /\ cleaner = "asleep" /\ pc # "down"
  /\ DeleteExpired({"processed"})
  /\ cleaner' = "failedRows"
  /\ UNCHANGED <<malformed, next, attempts, eventVars, pc, roundVars, noticeVars,
                 budgetVars>>

CleanupFailed ==
  /\ cleaner = "failedRows"
  /\ DeleteExpired(FailedStatuses)
  /\ cleaner' = "asleep"
  /\ UNCHANGED <<malformed, next, attempts, eventVars, pc, roundVars, noticeVars,
                 budgetVars>>

CleanupAborts ==
  /\ cleaner = "failedRows"
  /\ Fault
  /\ cleaner' = "asleep"
  /\ UNCHANGED <<inboxVars, eventVars, pc, roundVars, noticeVars>>

-----------------------------------------------------------------------------
(* The process dies: what was in memory is gone, the database is not. *)
Crash ==
  /\ pc # "down"
  /\ crashes < MaxCrashes
  /\ crashes' = crashes + 1
  /\ pc' = "down"
  /\ todo' = {} /\ valid' = {} /\ failing' = {}
  /\ announced' = {}
  /\ cleaner' = "asleep"
  /\ UNCHANGED <<inboxVars, eventVars, headers, faults>>

(* A start aggregates the overview before any runner, or does not come up. *)
Restart ==
  /\ pc = "down"
  /\ \/ behind' = {} /\ pc' = "list" /\ UNCHANGED budgetVars
     \/ behind' \in SUBSET behind /\ Fault /\ UNCHANGED pc
  /\ UNCHANGED <<inboxVars, events, roundVars, noticeVars, cleaner>>

Round == ListRows \/ DecodeRow \/ DecodeDone \/ Normalize \/ Commit
           \/ MarkRowFailed \/ MarkDone \/ Announce \/ Aggregate \/ SendHeaders
           \/ CatchUp

Cleanup == CleanupProcessed \/ CleanupFailed \/ CleanupAborts

Next ==
  \/ \E n \in 1 .. MaxRows : InsertBatch(n)
  \/ Round \/ DecodeMarkFails \/ CommitFails
  \/ \E r \in Rows : Expire(r)
  \/ Cleanup
  \/ Crash \/ Restart

Spec == Init /\ [][Next]_vars

(* A running application's process runner loops forever. Nothing obliges   *)
(* rows to arrive, cleanups to run or a dead application to be restarted.   *)
FairSpec == Spec /\ WF_vars(Round)

-----------------------------------------------------------------------------
TypeOK ==
  /\ malformed \in SUBSET Rows
  /\ next \in 1 .. (MaxRows + 1)
  /\ status \in [Rows -> Statuses]
  /\ attempts \in [Rows -> 0 .. MaxAttempts]
  /\ expired \in SUBSET Rows
  /\ events \in [Rows -> Nat]
  /\ behind \in SUBSET Rows
  /\ pc \in Steps
  /\ todo \in SUBSET Rows /\ valid \in SUBSET Rows /\ failing \in SUBSET Rows
  /\ announced \in SUBSET Rows /\ headers \in SUBSET Rows
  /\ cleaner \in {"asleep", "failedRows"}
  /\ faults \in 0 .. MaxFaults /\ crashes \in 0 .. MaxCrashes

(* Retries, cleanups and crashes never store a second event for a row, and  *)
(* a row's status never disagrees with whether its event is stored: the     *)
(* events and the processed marks of a batch are one transaction.           *)
ExactlyOnce ==
  \A r \in Rows :
    /\ events[r] <= 1
    /\ status[r] = "processed" => events[r] = 1
    /\ status[r] \in FailedStatuses \cup {"absent", "pending"} => events[r] = 0

(* A row leaves the inbox without an event only after a failure was         *)
(* recorded on it: the cleanup never takes a row nobody has tried, even one *)
(* a round in flight is holding.                                            *)
NoSilentDrop ==
  \A r \in Rows : status[r] = "deleted" => events[r] = 1 \/ attempts[r] >= 1

(* A decodable row is discarded only when its whole retry budget is spent,  *)
(* a row waiting for a retry still has some left, and malformed messages    *)
(* spend exactly one attempt and never enter a batch.                       *)
RetryBudget ==
  \A r \in Rows :
    /\ status[r] = "discarded" => attempts[r] = MaxAttempts /\ r \notin malformed
    /\ status[r] = "process_failed" => attempts[r] \in 1 .. (MaxAttempts - 1)
    /\ status[r] = "decode_failed" => attempts[r] = 1 /\ r \in malformed
    /\ status[r] \in {"absent", "pending"} => attempts[r] = 0

(* The hub publishes only what is durable: no client is told of an event    *)
(* that a rolled back transaction or a crash could take back.               *)
AnnouncedIsDurable == \A r \in announced : events[r] = 1

(* Header snapshots reach the quota worker only when the window statistics  *)
(* it falls back on include every stored event.                             *)
HeadersAfterStatistics == [][headers' # headers => behind = {}]_vars

(* What a message has become - recorded, or given up on - it stays: the     *)
(* inbox with its retries, cleanup and crashes implements the ledger.       *)
InFlight == IF pc \in {"decode", "normalize", "commit"} THEN todo \cup valid
                                                       ELSE {}
Fate(r) ==
  IF status[r] = "absent" THEN "unseen"
  ELSE IF events[r] > 0 THEN "recorded"
  ELSE IF \/ status[r] \in {"pending", "process_failed"}
          \/ status[r] = "deleted" /\ r \in InFlight
       THEN "waiting" ELSE "rejected"

Ledger == INSTANCE UsageLedger
            WITH Messages <- Rows, fate <- [r \in Rows |-> Fate(r)]
ImplementsLedger == Ledger!Spec

(* Unless the application goes down for good, every row that was inserted   *)
(* is eventually processed, found malformed, discarded or cleaned up.       *)
EveryRowSettles ==
  \A r \in Rows :
    [](status[r] = "pending" =>
         <>(status[r] \notin {"pending", "process_failed"} \/ pc = "down"))

(* Unless the application goes down for good, an aggregation that failed is *)
(* made up for, though no further message may ever arrive.                  *)
StatisticsCatchUp == [](behind # {} => <>(behind = {} \/ pc = "down"))

(* Both together: with the retries, the cleanup and the restarts there are, *)
(* neither a row nor an event is left half-way.                             *)
InboxSettles == EveryRowSettles /\ StatisticsCatchUp

=============================================================================
