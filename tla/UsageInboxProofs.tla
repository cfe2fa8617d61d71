-------------------------- MODULE UsageInboxProofs --------------------------
(***************************************************************************)
(* For every number of rows, batch limit, retry budget and number of       *)
(* faults and crashes: the inbox stores one event per row at most, keeps   *)
(* its books on attempts and drops nothing silently.                       *)
(***************************************************************************)
EXTENDS UsageInbox, TLAPS

(* A row of the round that is still to be decoded, committed or marked has  *)
(* no event, though the cleanup may have deleted it.                        *)
Held(r) ==
  /\ events[r] = 0
  /\ status[r] \in {"pending", "process_failed", "deleted"}

(* What the round in progress knows of its rows. *)
RoundOK ==
  /\ pc \in {"list", "catchUp", "down"} => todo = {} /\ valid = {} /\ failing = {}
  /\ pc \in {"decode", "normalize", "commit"} =>
       /\ failing = {}
       /\ \A r \in todo \cup valid : Held(r)
       /\ \A r \in todo : r \in malformed => status[r] = "pending"
  /\ pc = "markFailed" => failing \subseteq valid /\ \A r \in failing : Held(r)
  /\ pc \in {"announce", "aggregate", "headers"} =>
       /\ failing = {}
       /\ \A r \in valid : events[r] = 1
  /\ pc # "decode" => todo = {}
  /\ pc = "headers" => behind = {}
  /\ valid \cap malformed = {}

(* Malformed messages never get past decoding, and ids not handed out yet   *)
(* are unused.                                                              *)
RowsOK ==
  \A r \in Rows :
    /\ r \in malformed => status[r] \in {"absent", "pending", "decode_failed", "deleted"}
    /\ status[r] = "absent" <=> r >= next

Books == RowsOK /\ ExactlyOnce /\ NoSilentDrop /\ RetryBudget /\ AnnouncedIsDurable

Inv == TypeOK /\ RoundOK /\ Books

\* The start satisfies the inductive invariant.
LEMMA InitInv == Init => Inv
<1> USE InboxConstants
<1> SUFFICES ASSUME Init PROVE Inv OBVIOUS
<1>1. TypeOK BY DEF Init, TypeOK, Rows, Statuses, Steps
<1> QED BY <1>1 DEF Init, Inv, Books, TypeOK, RoundOK, RowsOK, ExactlyOnce, NoSilentDrop,
             RetryBudget, AnnouncedIsDurable, FailedStatuses, Rows

-----------------------------------------------------------------------------
(* Types. Only MarkRowFailed needs more than the types: an attempt is added *)
(* to a row that has one left.                                              *)

\* A step keeps the types of the rows and of the round.
LEMMA TypeStep == Inv /\ [Next]_vars => TypeOK'
<1> USE InboxConstants
<1> SUFFICES ASSUME Inv, [Next]_vars PROVE TypeOK' OBVIOUS
<1>t. TypeOK BY DEF Inv
<1>f. Fault => faults' \in 0 .. MaxFaults /\ crashes' \in 0 .. MaxCrashes
  BY <1>t DEF TypeOK, Fault
<1>e. EndRound => /\ pc' \in Steps
                  /\ todo' \in SUBSET Rows /\ valid' \in SUBSET Rows
                  /\ failing' \in SUBSET Rows
  BY DEF EndRound, Steps
<1>a. \A r \in Rows : status[r] \in {"pending", "process_failed"} =>
                       attempts[r] + 1 \in 0 .. MaxAttempts
  BY DEF Inv, Books, RetryBudget, TypeOK
<1>d. \A sts : DeleteExpired(sts) => /\ status' \in [Rows -> Statuses]
                                     /\ expired' \in SUBSET Rows
  BY <1>t DEF DeleteExpired, TypeOK, Statuses
<1> USE <1>t DEF TypeOK, inboxVars, eventVars, roundVars, noticeVars, budgetVars
<1>1. CASE UNCHANGED vars BY <1>1 DEF vars
<1>2. ASSUME NEW n \in 1 .. MaxRows, InsertBatch(n) PROVE TypeOK'
  <2>1. next' \in 1 .. (MaxRows + 1) BY <1>2 DEF InsertBatch
  <2>2. status' \in [Rows -> Statuses] BY <1>2 DEF InsertBatch, Statuses
  <2> QED BY <1>2, <2>1, <2>2 DEF InsertBatch
<1>3. CASE ListRows BY <1>3 DEF ListRows, Processable, Oldest, Steps
<1>4. CASE DecodeRow
  <2>1. PICK r \in todo : DecodeRow!2!(r) BY <1>4 DEF DecodeRow
  <2>2. r \in malformed => status[r] = "pending" BY <1>4, <2>1 DEF DecodeRow, Inv, RoundOK
  <2>3. attempts' \in [Rows -> 0 .. MaxAttempts] BY <1>a, <2>1, <2>2
  <2>4. status' \in [Rows -> Statuses] /\ expired' \in SUBSET Rows BY <2>1 DEF Statuses
  <2>5. todo' \in SUBSET Rows /\ valid' \in SUBSET Rows BY <2>1
  <2> QED BY <1>4, <2>3, <2>4, <2>5 DEF DecodeRow
<1>5. CASE DecodeDone BY <1>5, <1>e DEF DecodeDone, Steps
<1>6. CASE Normalize
  <2>1. pc' \in Steps /\ failing' \in SUBSET Rows BY <1>6 DEF Normalize, Steps
  <2>2. faults' \in 0 .. MaxFaults /\ crashes' \in 0 .. MaxCrashes BY <1>6, <1>f DEF Normalize
  <2> QED BY <1>6, <2>1, <2>2 DEF Normalize
<1>7. CASE Commit
  <2>1. events' \in [Rows -> Nat] BY <1>7 DEF Commit
  <2>2. status' \in [Rows -> Statuses] BY <1>7 DEF Commit, Statuses
  <2> QED BY <1>7, <2>1, <2>2 DEF Commit, Steps
<1>8. CASE MarkRowFailed
  <2>1. PICK r \in failing : MarkRowFailed!2!(r) BY <1>8 DEF MarkRowFailed
  <2>2. Stored(r) => status[r] \in {"pending", "process_failed"}
    BY <1>8, <2>1 DEF MarkRowFailed, Inv, RoundOK, Held, Stored
  <2>3. attempts' \in [Rows -> 0 .. MaxAttempts] BY <1>a, <2>1, <2>2
  <2>4. status' \in [Rows -> Statuses] /\ expired' \in SUBSET Rows BY <2>1 DEF Statuses
  <2>5. faults' \in 0 .. MaxFaults /\ crashes' \in 0 .. MaxCrashes BY <2>1, <1>f
  <2> QED BY <1>8, <2>1, <2>3, <2>4, <2>5 DEF MarkRowFailed
<1>9. CASE MarkDone BY <1>9, <1>e DEF MarkDone
<1>10. CASE Announce BY <1>10 DEF Announce, Steps
<1>11. CASE Aggregate
  <2>1. CASE Aggregate!2!1 BY <1>11, <2>1 DEF Aggregate, Steps
  <2>2. CASE Aggregate!2!2 BY <1>11, <2>2, <1>e, <1>f DEF Aggregate
  <2> QED BY <1>11, <2>1, <2>2 DEF Aggregate
<1>12. CASE SendHeaders BY <1>12, <1>e DEF SendHeaders
<1>13. CASE CatchUp BY <1>13, <1>e, <1>f DEF CatchUp
<1>14. CASE DecodeMarkFails BY <1>14, <1>e, <1>f DEF DecodeMarkFails
<1>15. CASE CommitFails BY <1>15, <1>f DEF CommitFails, Steps
<1>16. ASSUME NEW r \in Rows, Expire(r) PROVE TypeOK' BY <1>16 DEF Expire
<1>17. CASE CleanupProcessed BY <1>17, <1>d DEF CleanupProcessed
<1>18. CASE CleanupFailed BY <1>18, <1>d DEF CleanupFailed
<1>19. CASE CleanupAborts BY <1>19, <1>f DEF CleanupAborts
<1>20. CASE Crash BY <1>20 DEF Crash, Steps
<1>21. CASE Restart BY <1>21, <1>f DEF Restart, Steps
<1> QED
  BY <1>1, <1>2, <1>3, <1>4, <1>5, <1>6, <1>7, <1>8, <1>9, <1>10, <1>11, <1>12,
     <1>13, <1>14, <1>15, <1>16, <1>17, <1>18, <1>19, <1>20, <1>21
     DEF Next, Round, Cleanup

-----------------------------------------------------------------------------
(* The rows of the round. They are disturbed by the steps of the round and  *)
(* by a cleanup, which may delete a process_failed row a round is holding.  *)

\* A step keeps what a round holds of the rows.
LEMMA RoundStep == Inv /\ [Next]_vars => RoundOK'
<1> USE InboxConstants
<1> SUFFICES ASSUME Inv, [Next]_vars PROVE RoundOK' OBVIOUS
<1>t. TypeOK BY DEF Inv
<1>h. RoundOK BY DEF Inv
<1>p. \A r \in Processable : events[r] = 0 /\ (r \in malformed => status[r] = "pending")
  BY DEF Inv, Books, ExactlyOnce, RowsOK, RetryBudget, Processable, FailedStatuses, TypeOK
<1>e. EndRound => RoundOK' BY DEF EndRound, RoundOK
<1>d. \A sts : DeleteExpired(sts) /\ sts \subseteq FailedStatuses \cup {"processed"} =>
        \A r \in Rows : /\ status[r] \in {"pending", "process_failed", "deleted"} =>
                            status'[r] \in {"pending", "process_failed", "deleted"}
                        /\ status[r] = "pending" => status'[r] = "pending"
  BY <1>t DEF DeleteExpired, TypeOK, FailedStatuses
<1> USE <1>h DEF RoundOK, Held, inboxVars, eventVars, roundVars, noticeVars, budgetVars
<1>1. CASE UNCHANGED vars BY <1>1 DEF vars
<1>2. ASSUME NEW n \in 1 .. MaxRows, InsertBatch(n) PROVE RoundOK'
  <2>1. \A r \in Rows : status[r] # "absent" => status'[r] = status[r]
    BY <1>2, <1>t DEF InsertBatch, Inv, Books, RowsOK, TypeOK, Rows
  <2> QED BY <1>2, <1>t, <2>1 DEF InsertBatch, TypeOK
<1>3. CASE ListRows
  <2>1. Oldest(Processable) \subseteq Processable BY DEF Oldest
  <2>2. \A r \in Processable : Held(r) BY <1>p DEF Processable
  <2> QED BY <1>3, <1>p, <2>1, <2>2 DEF ListRows
<1>4. CASE DecodeRow
  <2>1. PICK r \in todo : DecodeRow!2!(r) BY <1>4 DEF DecodeRow
  <2> QED BY <1>4, <1>t, <2>1 DEF DecodeRow, TypeOK
<1>5. CASE DecodeDone BY <1>5, <1>e DEF DecodeDone
<1>6. CASE Normalize BY <1>6 DEF Normalize
<1>7. CASE Commit BY <1>7, <1>t DEF Commit, TypeOK
<1>8. CASE MarkRowFailed
  <2>1. PICK r \in failing : MarkRowFailed!2!(r) BY <1>8 DEF MarkRowFailed
  <2> QED BY <1>8, <1>t, <2>1 DEF MarkRowFailed, TypeOK
<1>9. CASE MarkDone BY <1>9, <1>e DEF MarkDone
<1>10. CASE Announce BY <1>10 DEF Announce
<1>11. CASE Aggregate
  <2>1. CASE Aggregate!2!1 BY <1>11, <2>1 DEF Aggregate
  <2>2. CASE Aggregate!2!2 BY <1>e, <2>2 DEF Aggregate
  <2> QED BY <1>11, <2>1, <2>2 DEF Aggregate
<1>12. CASE SendHeaders BY <1>12, <1>e DEF SendHeaders
<1>13. CASE CatchUp BY <1>13, <1>e DEF CatchUp
<1>14. CASE DecodeMarkFails BY <1>14, <1>e DEF DecodeMarkFails
<1>15. CASE CommitFails BY <1>15 DEF CommitFails
<1>16. ASSUME NEW r \in Rows, Expire(r) PROVE RoundOK' BY <1>16 DEF Expire
<1>17. ASSUME UNCHANGED <<eventVars, pc, roundVars, malformed>>,
              \A r \in Rows : /\ status[r] \in {"pending", "process_failed", "deleted"} =>
                                  status'[r] \in {"pending", "process_failed", "deleted"}
                              /\ status[r] = "pending" => status'[r] = "pending"
       PROVE  RoundOK'
  <2>1. /\ pc' = pc /\ todo' = todo /\ valid' = valid /\ failing' = failing
        /\ malformed' = malformed /\ events' = events /\ behind' = behind
    BY <1>17
  <2>2. \A r \in todo \cup valid \cup failing : Held(r) => Held(r)'
    BY <1>17, <1>t, <2>1 DEF TypeOK
  <2>3. \A r \in todo : status[r] = "pending" => status'[r] = "pending"
    BY <1>17, <1>t DEF TypeOK
  <2> HIDE DEF Held
  <2> QED BY <2>1, <2>2, <2>3
<1>18. CASE CleanupProcessed
  <2>1. UNCHANGED <<eventVars, pc, roundVars, malformed>> BY <1>18 DEF CleanupProcessed
  <2> QED BY <1>18, <1>d, <1>17, <2>1 DEF CleanupProcessed
<1>22. CASE CleanupFailed
  <2>1. UNCHANGED <<eventVars, pc, roundVars, malformed>> BY <1>22 DEF CleanupFailed
  <2> QED BY <1>22, <1>d, <1>17, <2>1 DEF CleanupFailed
<1>19. CASE CleanupAborts BY <1>19 DEF CleanupAborts
<1>20. CASE Crash BY <1>20 DEF Crash
<1>21. CASE Restart BY <1>21 DEF Restart
<1> QED
  BY <1>1, <1>2, <1>3, <1>4, <1>5, <1>6, <1>7, <1>8, <1>9, <1>10, <1>11, <1>12,
     <1>13, <1>14, <1>15, <1>16, <1>18, <1>19, <1>20, <1>21, <1>22
     DEF Next, Round, Cleanup

-----------------------------------------------------------------------------
(* The books, row by row. *)

\* A step keeps the books of every row: none twice, none dropped, none past its attempts.
LEMMA BooksStep == Inv /\ [Next]_vars => Books'
<1> USE InboxConstants
<1> SUFFICES ASSUME Inv, [Next]_vars PROVE Books' OBVIOUS
<1>t. TypeOK BY DEF Inv
<1>h. RoundOK BY DEF Inv
<1>b. Books BY DEF Inv
<1>d. \A sts \in SUBSET (FailedStatuses \cup {"processed"}) :
        DeleteExpired(sts) => \A r \in Rows :
           status'[r] = status[r] \/ (status[r] \in sts /\ status'[r] = "deleted")
  BY <1>t DEF DeleteExpired, TypeOK
<1> USE <1>b DEF Books, RowsOK, ExactlyOnce, NoSilentDrop, RetryBudget, AnnouncedIsDurable,
     FailedStatuses, inboxVars, eventVars, roundVars, noticeVars, budgetVars
<1>0. ASSUME UNCHANGED <<malformed, next, status, attempts, events, announced>> PROVE Books'
  BY <1>0
<1>1. CASE UNCHANGED vars BY <1>1, <1>0 DEF vars
<1>2. ASSUME NEW n \in 1 .. MaxRows, InsertBatch(n) PROVE Books'
  <2>1. \A r \in Rows : /\ r \in next .. (next + n - 1) => status'[r] = "pending"
                        /\ r \notin next .. (next + n - 1) => status'[r] = status[r]
    BY <1>2, <1>t DEF InsertBatch, TypeOK
  <2>2. \A r \in Rows : status'[r] = "absent" <=> r >= next'
    BY <1>2, <1>t, <2>1 DEF InsertBatch, TypeOK, Rows
  <2>3. \A r \in Rows : r \in next .. (next + n - 1) => status[r] = "absent"
    BY <1>t DEF TypeOK, Rows
  <2> QED BY <1>2, <1>t, <2>1, <2>2, <2>3 DEF InsertBatch, TypeOK
<1>3. CASE ListRows BY <1>3, <1>0 DEF ListRows
<1>4. CASE DecodeRow
  <2>1. PICK r \in todo : DecodeRow!2!(r) BY <1>4 DEF DecodeRow
  <2>2. CASE r \notin malformed BY <1>4, <1>0, <2>1, <2>2 DEF DecodeRow
  <2>3. CASE r \in malformed
    <3>1. status[r] = "pending" /\ events[r] = 0 BY <1>4, <1>h, <2>1, <2>3 DEF DecodeRow, RoundOK, Held
    <3>2. r \in Rows BY <1>t DEF TypeOK
    <3> QED BY <1>4, <1>t, <2>1, <2>3, <3>1, <3>2 DEF DecodeRow, Stored, TypeOK
  <2> QED BY <2>2, <2>3
<1>5. CASE DecodeDone BY <1>5, <1>0 DEF DecodeDone
<1>6. CASE Normalize BY <1>6, <1>0 DEF Normalize
<1>7. CASE Commit
  <2>1. \A r \in valid : events[r] = 0 /\ status[r] \in {"pending", "process_failed", "deleted"}
                        /\ r \notin malformed
    BY <1>7, <1>h DEF Commit, RoundOK, Held
  <2>2. \A r \in Rows : events'[r] = events[r] + IF r \in valid THEN 1 ELSE 0
    BY <1>7 DEF Commit
  <2>3. \A r \in Rows : status'[r] = IF r \in valid /\ Stored(r) THEN "processed" ELSE status[r]
    BY <1>7 DEF Commit
  <2>4. \A r \in valid : events'[r] = 1 /\ status'[r] \in {"processed", "deleted"}
    BY <1>t, <2>1, <2>2, <2>3 DEF Stored, TypeOK
  <2>5. \A r \in Rows \ valid : events'[r] = events[r] /\ status'[r] = status[r]
    BY <1>t, <2>2, <2>3 DEF TypeOK
  <2>6. UNCHANGED <<malformed, next, attempts, announced>> BY <1>7 DEF Commit
  <2> QED BY <1>t, <2>1, <2>4, <2>5, <2>6 DEF TypeOK
<1>8. CASE MarkRowFailed
  <2>1. PICK r \in failing : MarkRowFailed!2!(r) BY <1>8 DEF MarkRowFailed
  <2>2. CASE status' = status /\ attempts' = attempts
    BY <1>8, <1>0, <2>2 DEF MarkRowFailed
  <2>3. CASE Stored(r) /\ ~(status' = status /\ attempts' = attempts)
    <3>1. /\ status[r] \in {"pending", "process_failed"}
          /\ events[r] = 0 /\ r \notin malformed /\ r \in Rows
      BY <1>8, <1>h, <1>t, <2>3 DEF MarkRowFailed, RoundOK, Held, Stored, TypeOK
    <3>2. attempts[r] \in 0 .. (MaxAttempts - 1) BY <3>1
    <3>3. /\ attempts' = [attempts EXCEPT ![r] = @ + 1]
          /\ status' = [status EXCEPT ![r] =
               IF Exhausted(attempts[r] + 1) THEN "discarded" ELSE "process_failed"]
      BY <2>1, <2>3
    <3>4. \A q \in Rows \ {r} : attempts'[q] = attempts[q] /\ status'[q] = status[q]
      BY <1>t, <3>3 DEF TypeOK
    <3>5. attempts'[r] = attempts[r] + 1 BY <1>t, <3>1, <3>3 DEF TypeOK
    <3>6. \/ attempts'[r] = MaxAttempts /\ status'[r] = "discarded"
          \/ attempts'[r] \in 1 .. (MaxAttempts - 1) /\ status'[r] = "process_failed"
      BY <1>t, <3>1, <3>2, <3>3, <3>5 DEF TypeOK, Exhausted
    <3>7. UNCHANGED <<malformed, next, events, announced>> BY <1>8 DEF MarkRowFailed
    <3> QED BY <1>t, <3>1, <3>4, <3>6, <3>7 DEF TypeOK
  <2> QED BY <2>1, <2>2, <2>3
<1>9. CASE MarkDone BY <1>9, <1>0 DEF MarkDone
<1>10. CASE Announce BY <1>10, <1>h DEF Announce, RoundOK
<1>11. CASE Aggregate BY <1>11, <1>0 DEF Aggregate
<1>12. CASE SendHeaders BY <1>12, <1>0 DEF SendHeaders
<1>13. CASE CatchUp BY <1>13, <1>0 DEF CatchUp
<1>14. CASE DecodeMarkFails BY <1>14, <1>0 DEF DecodeMarkFails
<1>15. CASE CommitFails BY <1>15, <1>0 DEF CommitFails
<1>16. ASSUME NEW r \in Rows, Expire(r) PROVE Books' BY <1>16, <1>0 DEF Expire
<1>17. ASSUME UNCHANGED <<malformed, next, attempts, events, announced>>,
              \A r \in Rows : \/ status'[r] = status[r]
                              \/ /\ status[r] \in FailedStatuses \cup {"processed"}
                                 /\ status'[r] = "deleted"
       PROVE  Books'
  BY <1>17, <1>t DEF TypeOK
<1>18. CASE CleanupProcessed
  <2>1. UNCHANGED <<malformed, next, attempts, events, announced>>
    BY <1>18 DEF CleanupProcessed
  <2> QED BY <1>18, <1>d, <1>17, <2>1 DEF CleanupProcessed
<1>22. CASE CleanupFailed
  <2>1. UNCHANGED <<malformed, next, attempts, events, announced>>
    BY <1>22 DEF CleanupFailed
  <2> QED BY <1>22, <1>d, <1>17, <2>1 DEF CleanupFailed
<1>19. CASE CleanupAborts BY <1>19, <1>0 DEF CleanupAborts
<1>20. CASE Crash BY <1>20 DEF Crash
<1>21. CASE Restart BY <1>21, <1>0 DEF Restart
<1> QED
  BY <1>1, <1>2, <1>3, <1>4, <1>5, <1>6, <1>7, <1>8, <1>9, <1>10, <1>11, <1>12,
     <1>13, <1>14, <1>15, <1>16, <1>18, <1>19, <1>20, <1>21, <1>22
     DEF Next, Round, Cleanup

-----------------------------------------------------------------------------
(* The inductive invariant holds of every reachable state. *)
THEOREM Invariance == Spec => []Inv
<1>1. Inv /\ [Next]_vars => Inv' BY TypeStep, RoundStep, BooksStep DEF Inv
<1> QED BY InitInv, <1>1, PTL DEF Spec

(* Every variable keeps its type, whatever the bounds. *)
THEOREM TypeCorrect == Spec => []TypeOK
<1>1. Inv => TypeOK BY DEF Inv
<1> QED BY Invariance, <1>1, PTL

(* Retries, cleanups and crashes never give a row a second usage event, and *)
(* never separate a processed mark from its event (persisting and marking   *)
(* are one transaction in processRedisInboxRows).                           *)
THEOREM EventsExactlyOnce == Spec => []ExactlyOnce
<1>1. Inv => ExactlyOnce BY DEF Inv, Books
<1> QED BY Invariance, <1>1, PTL

(* CleanupRedisUsageInbox deletes no row without an event unless a failure  *)
(* was recorded on it.                                                      *)
THEOREM NothingDroppedSilently == Spec => []NoSilentDrop
<1>1. Inv => NoSilentDrop BY DEF Inv, Books
<1> QED BY Invariance, <1>1, PTL

(* MarkRedisUsageInboxProcessFailed discards exactly when the budget of     *)
(* attempts is spent, for every budget.                                     *)
THEOREM AttemptsAccounted == Spec => []RetryBudget
<1>1. Inv => RetryBudget BY DEF Inv, Books
<1> QED BY Invariance, <1>1, PTL

(* PublishUsageEventID is called for committed events only. *)
THEOREM PublishedIsDurable == Spec => []AnnouncedIsDurable
<1>1. Inv => AnnouncedIsDurable BY DEF Inv, Books
<1> QED BY Invariance, <1>1, PTL

(* Header snapshots leave the process runner only after a successful        *)
(* aggregateUsageEventStats, with nothing left to aggregate.                *)
THEOREM HeadersWait == Spec => HeadersAfterStatistics
<1>1. Inv /\ [Next]_vars => [headers' # headers => behind = {}]_vars
  <2> SUFFICES ASSUME Inv, Next, headers' # headers PROVE behind = {}
    BY DEF vars, noticeVars
  <2>1. SendHeaders
    BY DEF Next, Round, Cleanup, noticeVars, InsertBatch, ListRows, DecodeRow, DecodeDone,
       Normalize, Commit, MarkRowFailed, MarkDone, Announce, Aggregate, CatchUp,
       DecodeMarkFails, CommitFails, Expire, CleanupProcessed, CleanupFailed,
       CleanupAborts, Crash, Restart
  <2> QED BY <2>1 DEF SendHeaders, Inv, RoundOK
<1> QED BY Invariance, <1>1, PTL DEF Spec, HeadersAfterStatistics

-----------------------------------------------------------------------------
(* Refinement. *)

\* At the start no row has a fate.
LEMMA InitLedger == Init => Ledger!Init
<1> SUFFICES ASSUME Init PROVE \A r \in Rows : Fate(r) = "unseen" BY DEF Ledger!Init
<1> QED BY DEF Init, Fate

(* A step after which some waiting rows are rejected, and nothing else, is  *)
(* a step of the ledger.                                                    *)
LEMMA RejectStep ==
  ASSUME \A r \in Rows : \/ Fate(r)' = Fate(r)
                         \/ Fate(r) = "waiting" /\ Fate(r)' = "rejected"
  PROVE  [Ledger!Next]_[r \in Rows |-> Fate(r)]
<1> DEFINE S == {r \in Rows : Fate(r)' # Fate(r)}
<1>1. Ledger!Reject(S) BY DEF Ledger!Reject, Ledger!Settle, Ledger!With
<1>2. S \in SUBSET Rows OBVIOUS
<1> QED BY <1>1, <1>2 DEF Ledger!Next

\* A step of the inbox is a step of the ledger, or none.
LEMMA RefineStep == Inv /\ [Next]_vars => [Ledger!Next]_[r \in Rows |-> Fate(r)]
<1> USE InboxConstants
<1> SUFFICES ASSUME Inv, [Next]_vars
             PROVE  [Ledger!Next]_[r \in Rows |-> Fate(r)]
  OBVIOUS
<1>t. TypeOK BY DEF Inv
<1>h. RoundOK BY DEF Inv
<1>b. RowsOK /\ ExactlyOnce /\ RetryBudget BY DEF Inv, Books
<1>q. ASSUME UNCHANGED <<status, events>>, InFlight' \subseteq InFlight \/ InFlight' \subseteq Processable
      PROVE  [Ledger!Next]_[r \in Rows |-> Fate(r)]
  <2>1. \A r \in Rows : \/ Fate(r)' = Fate(r)
                        \/ Fate(r) = "waiting" /\ Fate(r)' = "rejected"
    BY <1>q, <1>t DEF Fate, Processable, TypeOK
  <2> QED BY <2>1, RejectStep
<1>e. EndRound => InFlight' = {} BY DEF EndRound, InFlight
<1> USE DEF inboxVars, eventVars, roundVars, noticeVars, budgetVars
<1>1. CASE UNCHANGED vars BY <1>1, <1>q DEF vars, InFlight
<1>2. ASSUME NEW n \in 1 .. MaxRows, InsertBatch(n)
      PROVE  [Ledger!Next]_[r \in Rows |-> Fate(r)]
  <2> DEFINE new == next .. (next + n - 1)
  <2>1. \A r \in Rows : status'[r] = IF r \in new THEN "pending" ELSE status[r]
    BY <1>2 DEF InsertBatch
  <2>2. new \subseteq Rows /\ \A r \in new : status[r] = "absent" /\ events[r] = 0
    BY <1>2, <1>t, <1>b DEF InsertBatch, RowsOK, ExactlyOnce, Rows, TypeOK
  <2>3. InFlight' = InFlight /\ events' = events BY <1>2 DEF InsertBatch, InFlight
  <2> HIDE DEF new
  <2>4. \A r \in Rows : Fate(r)' = IF r \in new THEN "waiting" ELSE Fate(r)
    BY <2>1, <2>2, <2>3 DEF Fate, Processable
  <2>5. \A r \in new : Fate(r) = "unseen" BY <2>2 DEF Fate
  <2>6. Ledger!Receive(new)
    BY <2>2, <2>4, <2>5 DEF Ledger!Receive, Ledger!Settle, Ledger!With
  <2> QED BY <2>2, <2>6 DEF Ledger!Next
<1>3. CASE ListRows
  <2>1. InFlight' \subseteq InFlight \/ InFlight' \subseteq Processable
    BY <1>3, <1>h DEF ListRows, InFlight, Oldest, RoundOK
  <2> QED BY <1>3, <1>q, <2>1 DEF ListRows
<1>4. CASE DecodeRow
  <2>1. PICK r \in todo : DecodeRow!2!(r) BY <1>4 DEF DecodeRow
  <2>2. CASE r \notin malformed
    BY <1>4, <1>q, <2>1, <2>2 DEF DecodeRow, InFlight
  <2>3. CASE r \in malformed
    <3>1. status[r] = "pending" /\ events[r] = 0 /\ r \in Rows
      BY <1>4, <1>h, <1>t, <2>1, <2>3 DEF DecodeRow, RoundOK, Held, TypeOK
    <3>2. status' = [status EXCEPT ![r] = "decode_failed"] /\ events' = events
      BY <1>4, <2>1, <2>3, <3>1 DEF DecodeRow, Stored
    <3>3. InFlight' = InFlight \ {r} \/ InFlight' = InFlight
      BY <1>4, <2>1, <2>3 DEF DecodeRow, InFlight
    <3>4. \A q \in Rows \ {r} : Fate(q)' = Fate(q)
      BY <1>t, <3>2, <3>3 DEF Fate, Processable, TypeOK
    <3>5. Fate(r) = "waiting" /\ Fate(r)' = "rejected"
      BY <1>t, <3>1, <3>2 DEF Fate, Processable, TypeOK
    <3> QED BY <3>4, <3>5, RejectStep
  <2> QED BY <2>2, <2>3
<1>5. CASE DecodeDone
  <2>1. InFlight' \subseteq InFlight BY <1>5, <1>e DEF DecodeDone, InFlight
  <2> QED BY <1>5, <1>q, <2>1 DEF DecodeDone
<1>6. CASE Normalize BY <1>6, <1>q DEF Normalize, InFlight
<1>7. CASE Commit
  <2>1. \A r \in valid : events[r] = 0 /\ status[r] \in {"pending", "process_failed", "deleted"}
    BY <1>7, <1>h DEF Commit, RoundOK, Held
  <2>2. \A r \in Rows : /\ events'[r] = events[r] + IF r \in valid THEN 1 ELSE 0
                        /\ status'[r] = IF r \in valid /\ Stored(r) THEN "processed"
                                                                   ELSE status[r]
    BY <1>7 DEF Commit
  <2>3. valid \subseteq Rows /\ InFlight = todo \cup valid /\ InFlight' = {}
    BY <1>7, <1>t DEF Commit, InFlight, TypeOK
  <2>4. \A r \in valid : Fate(r) = "waiting" /\ Fate(r)' = "recorded"
    BY <1>t, <2>1, <2>2, <2>3 DEF Fate, Processable, Stored, TypeOK
  <2>5. \A r \in Rows \ valid : Fate(r)' = Fate(r)
    BY <1>7, <1>h, <1>t, <2>2, <2>3 DEF Commit, Fate, Processable, RoundOK, TypeOK
  <2>6. Ledger!Record(valid)
    BY <2>3, <2>4, <2>5 DEF Ledger!Record, Ledger!Settle, Ledger!With
  <2> QED BY <2>3, <2>6 DEF Ledger!Next
<1>8. CASE MarkRowFailed
  <2>1. PICK r \in failing : MarkRowFailed!2!(r) BY <1>8 DEF MarkRowFailed
  <2>2. InFlight' = InFlight /\ events' = events BY <1>8 DEF MarkRowFailed, InFlight
  <2>3. CASE status' = status BY <1>q, <2>2, <2>3
  <2>4. CASE status' # status
    <3>1. status[r] \in {"pending", "process_failed"} /\ events[r] = 0 /\ r \in Rows
      BY <1>8, <1>h, <1>t, <2>1, <2>4 DEF MarkRowFailed, RoundOK, Held, Stored, TypeOK
    <3>2. \A q \in Rows \ {r} : status'[q] = status[q] BY <1>t, <2>1, <2>4 DEF TypeOK
    <3>3. status'[r] \in {"discarded", "process_failed"} BY <1>t, <2>1, <2>4, <3>1 DEF TypeOK
    <3>4. \A q \in Rows : \/ Fate(q)' = Fate(q)
                          \/ Fate(q) = "waiting" /\ Fate(q)' = "rejected"
      BY <1>t, <2>2, <3>1, <3>2, <3>3 DEF Fate, Processable, TypeOK
    <3> QED BY <3>4, RejectStep
  <2> QED BY <2>3, <2>4
<1>9. CASE MarkDone
  <2>1. InFlight' \subseteq InFlight BY <1>9, <1>e DEF MarkDone
  <2> QED BY <1>9, <1>q, <2>1 DEF MarkDone
<1>10. CASE Announce BY <1>10, <1>q DEF Announce, InFlight
<1>11. CASE Aggregate
  <2>1. InFlight' \subseteq InFlight BY <1>11, <1>e DEF Aggregate, InFlight
  <2> QED BY <1>11, <1>q, <2>1 DEF Aggregate
<1>12. CASE SendHeaders
  <2>1. InFlight' \subseteq InFlight BY <1>12, <1>e DEF SendHeaders
  <2> QED BY <1>12, <1>q, <2>1 DEF SendHeaders
<1>13. CASE CatchUp
  <2>1. InFlight' \subseteq InFlight BY <1>13, <1>e DEF CatchUp
  <2> QED BY <1>13, <1>q, <2>1 DEF CatchUp
<1>14. CASE DecodeMarkFails
  <2>1. InFlight' \subseteq InFlight BY <1>14, <1>e DEF DecodeMarkFails
  <2> QED BY <1>14, <1>q, <2>1 DEF DecodeMarkFails
<1>15. CASE CommitFails BY <1>15, <1>q DEF CommitFails, InFlight
<1>16. ASSUME NEW r \in Rows, Expire(r)
       PROVE  [Ledger!Next]_[q \in Rows |-> Fate(q)]
  BY <1>16, <1>q DEF Expire, InFlight
<1>17. ASSUME UNCHANGED <<eventVars, pc, roundVars>>,
              NEW sts \in SUBSET (FailedStatuses \cup {"processed"}), DeleteExpired(sts)
       PROVE  [Ledger!Next]_[r \in Rows |-> Fate(r)]
  <2>1. InFlight' = InFlight /\ events' = events BY <1>17 DEF InFlight
  <2>2. \A r \in Rows : \/ status'[r] = status[r]
                        \/ status[r] \in FailedStatuses \cup {"processed"} /\ status'[r] = "deleted"
    BY <1>17, <1>t DEF DeleteExpired, TypeOK
  <2>3. \A r \in InFlight : status[r] \in {"pending", "process_failed", "deleted"}
    BY <1>h DEF InFlight, RoundOK, Held
  <2>4. \A r \in Rows : \/ Fate(r)' = Fate(r)
                        \/ Fate(r) = "waiting" /\ Fate(r)' = "rejected"
    BY <1>b, <1>t, <2>1, <2>2, <2>3 DEF Fate, Processable, FailedStatuses, TypeOK
  <2> QED BY <2>4, RejectStep
<1>18. CASE CleanupProcessed BY <1>18, <1>17 DEF CleanupProcessed, FailedStatuses
<1>19. CASE CleanupFailed BY <1>19, <1>17 DEF CleanupFailed, FailedStatuses
<1>20. CASE CleanupAborts BY <1>20, <1>q DEF CleanupAborts, InFlight
<1>21. CASE Crash
  <2>1. InFlight' \subseteq InFlight BY <1>21 DEF Crash, InFlight
  <2> QED BY <1>21, <1>q, <2>1 DEF Crash
<1>22. CASE Restart
  <2>1. InFlight' \subseteq InFlight BY <1>22 DEF Restart, InFlight
  <2> QED BY <1>22, <1>q, <2>1 DEF Restart
<1> QED
  BY <1>1, <1>2, <1>3, <1>4, <1>5, <1>6, <1>7, <1>8, <1>9, <1>10, <1>11, <1>12,
     <1>13, <1>14, <1>15, <1>16, <1>18, <1>19, <1>20, <1>21, <1>22
     DEF Next, Round, Cleanup

(* ProcessRedisUsageInbox with its retries, the cleanup of the inbox and    *)
(* crashes between any two statements do to a message only what the ledger  *)
(* allows: once recorded or rejected it stays so.                           *)
THEOREM Refinement == Spec => ImplementsLedger
<1>1. Init => Ledger!Init BY InitLedger
<1>2. Inv /\ [Next]_vars => [Ledger!Next]_[r \in Rows |-> Fate(r)] BY RefineStep
<1> QED BY Invariance, <1>1, <1>2, PTL DEF Spec, ImplementsLedger, Ledger!Spec

=============================================================================
