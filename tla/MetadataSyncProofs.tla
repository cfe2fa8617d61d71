------------------------- MODULE MetadataSyncProofs -------------------------
(* Proofs about MetadataSync, for every number of requests and failures.    *)
EXTENDS MetadataSync, TLAPS

\* The start has the types of the state.
LEMMA InitType == Init => TypeOK
<1>1. 0 \in 0 .. MaxRequests /\ 0 \in 0 .. MaxFailures BY MetadataConstants DEF MetadataConstants
<1>2. Init => /\ requested \in 0 .. MaxRequests /\ settled \in 0 .. requested
              /\ attempted \in 0 .. requested /\ timerFor \in 0 .. requested
              /\ signals \in 0 .. 1 /\ failures \in 0 .. MaxFailures /\ refreshSyncs \in Nat
  BY <1>1 DEF Init
<1>3. Init => /\ observer \in {"idle", "send"}
              /\ pc \in {"start", "select", "arming", "due", "sync", "syncing", "stopped"}
              /\ cause \in {"start", "tick", "refresh", "none"}
              /\ timer \in {"none", "armed", "fired"}
  BY DEF Init
<1>4. Init => /\ notification \in BOOLEAN /\ tick \in BOOLEAN /\ cancelled \in BOOLEAN
              /\ failed \in BOOLEAN
  BY DEF Init
<1> QED BY <1>2, <1>3, <1>4 DEF TypeOK

\* A step keeps the types: the counters stay within their bounds.
LEMMA TypeStep == TypeOK /\ [Next]_vars => TypeOK'
<1> USE MetadataConstants DEF MetadataConstants, TypeOK, requestVars, timerVars, syncVars
<1> SUFFICES ASSUME TypeOK, [Next]_vars PROVE TypeOK' OBVIOUS
<1>0. CASE UNCHANGED vars BY <1>0 DEF vars
<1>1. CASE MarkRefreshSupported BY <1>1 DEF MarkRefreshSupported
<1>2. CASE RecordRefreshRequest BY <1>2 DEF RecordRefreshRequest
<1>3. CASE SendSignal BY <1>3 DEF SendSignal
<1>4. CASE MarkRefreshPollingRequired BY <1>4 DEF MarkRefreshPollingRequired
<1>5. CASE WindowCloses BY <1>5 DEF WindowCloses
<1>6. CASE DebounceFires BY <1>6 DEF DebounceFires
<1>7. CASE PeriodicFires BY <1>7 DEF PeriodicFires
<1>8. CASE Cancel BY <1>8 DEF Cancel
<1>9. CASE Started BY <1>9 DEF Started, SyncUnlessCancelled
<1>10. CASE ContextDone BY <1>10 DEF ContextDone
<1>11. CASE TakeTick BY <1>11 DEF TakeTick, SyncUnlessCancelled
<1>12. CASE TakeSignal BY <1>12 DEF TakeSignal
<1>13. CASE ArmDebounce BY <1>13 DEF ArmDebounce
<1>14. CASE TakeDebounce BY <1>14 DEF TakeDebounce
<1>15. CASE CheckDelay BY <1>15 DEF CheckDelay, SyncUnlessCancelled
<1>16. CASE SyncBegins BY <1>16 DEF SyncBegins
<1>17. CASE SyncSucceeds BY <1>17 DEF SyncSucceeds, Back
<1>18. CASE SyncFails
  <2>1. failures' \in 0 .. MaxFailures BY <1>18 DEF SyncFails
  <2> QED BY <1>18, <2>1 DEF SyncFails, Back
<1> QED
  BY <1>0, <1>1, <1>2, <1>3, <1>4, <1>5, <1>6, <1>7, <1>8, <1>9, <1>10, <1>11, <1>12, <1>13,
     <1>14, <1>15, <1>16, <1>17, <1>18 DEF Next, Observer, Clocks, Runner

-----------------------------------------------------------------------------
(* Every notification is one unit of work that is being sent, waits as the  *)
(* signal, or was merged into the debounce; a synchronisation because of    *)
(* notifications uses up the debounce.                                      *)

InDebounce == \/ pc = "arming"
              \/ timer # "none" /\ ~(pc = "syncing" /\ cause = "refresh")
Pending == (IF observer = "send" THEN 1 ELSE 0) + signals + (IF InDebounce THEN 1 ELSE 0)

Inv ==
  /\ TypeOK
  /\ NoRefreshLost
  /\ NoStaleTimer
  /\ pc = "due" \/ (pc \in {"sync", "syncing"} /\ cause = "refresh") => timer = "fired"
  /\ refreshSyncs + Pending <= requested

\* The start satisfies the invariant: nothing is requested and no timer runs.
LEMMA InvInit == Init => Inv
BY InitType DEF Inv, Init, NoRefreshLost, NoStaleTimer, Pending, InDebounce

\* A step keeps the invariant.
LEMMA InvStep == Inv /\ [Next]_vars => Inv'
<1> SUFFICES ASSUME Inv, [Next]_vars PROVE Inv' OBVIOUS
<1>t. TypeOK /\ TypeOK' BY TypeStep DEF Inv
<1> USE <1>t DEF Inv, NoRefreshLost, SyncToCome, NoStaleTimer, Pending, InDebounce,
                 requestVars, timerVars, syncVars
<1>0. CASE UNCHANGED vars BY <1>0 DEF vars
<1>1. CASE MarkRefreshSupported BY <1>1 DEF MarkRefreshSupported
<1>2. CASE RecordRefreshRequest BY <1>2 DEF RecordRefreshRequest, TypeOK
<1>3. CASE SendSignal BY <1>3 DEF SendSignal, TypeOK
<1>4. CASE MarkRefreshPollingRequired BY <1>4 DEF MarkRefreshPollingRequired
<1>5. CASE WindowCloses BY <1>5 DEF WindowCloses, TypeOK
<1>6. CASE DebounceFires BY <1>6 DEF DebounceFires, TypeOK
<1>7. CASE PeriodicFires BY <1>7 DEF PeriodicFires
<1>8. CASE Cancel BY <1>8 DEF Cancel
<1>9. CASE Started BY <1>9 DEF Started, SyncUnlessCancelled
<1>10. CASE ContextDone BY <1>10 DEF ContextDone
<1>11. CASE TakeTick BY <1>11 DEF TakeTick, SyncUnlessCancelled
<1>12. CASE TakeSignal BY <1>12 DEF TakeSignal, TypeOK
<1>13. CASE ArmDebounce BY <1>13 DEF ArmDebounce, TypeOK
<1>14. CASE TakeDebounce BY <1>14 DEF TakeDebounce, TypeOK
<1>15. CASE CheckDelay BY <1>15 DEF CheckDelay, SyncUnlessCancelled, TypeOK
<1>16. CASE SyncBegins BY <1>16 DEF SyncBegins, TypeOK
<1>17. CASE SyncSucceeds BY <1>17 DEF SyncSucceeds, Back, TypeOK
<1>18. CASE SyncFails
  <2>1. UNCHANGED <<requested, settled, attempted, signals, observer, timerFor, refreshSyncs>>
    BY <1>18 DEF SyncFails
  <2>2. pc = "syncing" /\ Back BY <1>18 DEF SyncFails
  <2> QED BY <2>1, <2>2 DEF Back, TypeOK
<1> QED
  BY <1>0, <1>1, <1>2, <1>3, <1>4, <1>5, <1>6, <1>7, <1>8, <1>9, <1>10, <1>11, <1>12, <1>13,
     <1>14, <1>15, <1>16, <1>17, <1>18 DEF Next, Observer, Clocks, Runner

\* Every reachable state has the types, loses no refresh and keeps no timer that is over.
THEOREM Invariance == Spec => []Inv
BY InvInit, InvStep, PTL DEF Spec

(* Every variable of the runner keeps its type; refreshRequests never holds *)
(* more than its one element.                                               *)
THEOREM TypeCorrect == Spec => []TypeOK
<1>1. Inv => TypeOK BY DEF Inv
<1> QED BY Invariance, <1>1, PTL

(* No refresh notification is lost between RequestMetadataRefresh and the   *)
(* select of Run, however recording, sending, draining and timers fall.     *)
THEOREM RefreshNeverLost == Spec => []NoRefreshLost
<1>1. Inv => NoRefreshLost BY DEF Inv
<1> QED BY Invariance, <1>1, PTL

(* resetTimer leaves no event of an old window behind.                      *)
THEOREM TimerNeverStale == Spec => []NoStaleTimer
<1>1. Inv => NoStaleTimer BY DEF Inv
<1> QED BY Invariance, <1>1, PTL

(* A burst of notifications never causes more synchronisations than it has  *)
(* notifications.                                                           *)
THEOREM NotificationsMerged == Spec => []NoExtraSync
<1>1. Inv => NoExtraSync BY DEF Inv, TypeOK, Pending, NoExtraSync
<1> QED BY Invariance, <1>1, PTL

(* Both together: notifications are neither lost nor multiplied.            *)
THEOREM RefreshesAlwaysMerged == Spec => []RefreshesMerged
BY RefreshNeverLost, NotificationsMerged, PTL DEF RefreshesMerged

=============================================================================
