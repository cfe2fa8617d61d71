---------------------------- MODULE MetadataSync ----------------------------
(***************************************************************************)
(* MetadataSyncRunner: one goroutine synchronises the metadata of CPA at   *)
(* its start, at every tick of a timer while it is polling, and after the  *)
(* refresh notifications of CPA, which are merged until none has come for  *)
(* the debounce window. The notifications, and the orders to go back to    *)
(* polling, come from the usage ingest on another goroutine.               *)
(*                                                                         *)
(* Time is the order of events: the window of request k closes after that  *)
(* of request k - 1, and a timer set for the rest of request k's window    *)
(* fires no earlier than that window closes.                               *)
(***************************************************************************)
EXTENDS Naturals

CONSTANTS
  MaxRequests,   \* bound: refresh notifications
  MaxFailures    \* bound: synchronisations that fail

ASSUME MetadataConstants == MaxRequests \in Nat /\ MaxFailures \in Nat

VARIABLES
  requested,     \* refresh notifications recorded; lastRefreshRequestedAt is the last one's
  settled,       \* notifications whose debounce window is over
  signals,       \* elements in refreshRequests, whose capacity is 1
  observer,      \* the ingest inside RequestMetadataRefresh
  notification,  \* notificationMode
  pc,            \* the runner
  cause,         \* why it synchronises
  timer,         \* debounce: nil, armed, or fired
  timerFor,      \* the notification whose window the debounce timer waits for
  tick,          \* the periodic timer has fired
  cancelled,     \* the context of the application is done
  attempted,     \* notifications recorded before the last synchronisation began
  failed,        \* the last synchronisation failed
  failures,      \* synchronisations failed so far
  refreshSyncs   \* history: synchronisations caused by notifications

requestVars == <<requested, settled, signals, observer>>
timerVars   == <<timer, timerFor, tick>>
syncVars    == <<attempted, failed, failures, refreshSyncs>>
vars == <<requestVars, notification, pc, cause, timerVars, cancelled, syncVars>>

Init ==
  /\ requested = 0 /\ settled = 0
  /\ signals = 0 /\ observer = "idle"
  /\ notification = FALSE
  /\ pc = "start" /\ cause = "start"
  /\ timer = "none" /\ timerFor = 0 /\ tick = FALSE
  /\ cancelled = FALSE
  /\ attempted = 0 /\ failed = FALSE /\ failures = 0 /\ refreshSyncs = 0

-----------------------------------------------------------------------------
(* The usage ingest. A refresh is recorded under the lock; its signal is    *)
(* sent afterwards, and dropped if one is waiting.                          *)

MarkRefreshSupported ==
  /\ observer = "idle"
  /\ notification' = TRUE
  /\ UNCHANGED <<requestVars, pc, cause, timerVars, cancelled, syncVars>>

RecordRefreshRequest ==
  /\ observer = "idle" /\ requested < MaxRequests
  /\ requested' = requested + 1
  /\ notification' = TRUE
  /\ observer' = "send"
  /\ UNCHANGED <<settled, signals, pc, cause, timerVars, cancelled, syncVars>>

(* Faulty: every signal is kept. *)
SendEverySignal ==
  /\ observer = "send"
  /\ signals' = signals + 1
  /\ observer' = "idle"
  /\ UNCHANGED <<requested, settled, notification, pc, cause, timerVars, cancelled, syncVars>>

SendSignal ==
  /\ observer = "send"
  /\ signals' = 1
  /\ observer' = "idle"
  /\ UNCHANGED <<requested, settled, notification, pc, cause, timerVars, cancelled, syncVars>>

MarkRefreshPollingRequired ==
  /\ observer = "idle"
  /\ notification' = FALSE
  /\ UNCHANGED <<requestVars, pc, cause, timerVars, cancelled, syncVars>>

-----------------------------------------------------------------------------
(* Clocks and the end of the application. *)

WindowCloses ==
  /\ settled < requested
  /\ settled' = settled + 1
  /\ UNCHANGED <<requested, signals, observer, notification, pc, cause, timerVars,
                 cancelled, syncVars>>

DebounceFires ==
  /\ timer = "armed" /\ timerFor <= settled
  /\ timer' = "fired"
  /\ UNCHANGED <<requestVars, notification, pc, cause, timerFor, tick, cancelled, syncVars>>

PeriodicFires ==
  /\ pc \notin {"start", "stopped"} /\ cause # "start"
  /\ ~tick
  /\ tick' = TRUE
  /\ UNCHANGED <<requestVars, notification, pc, cause, timer, timerFor, cancelled, syncVars>>

Cancel ==
  /\ ~cancelled
  /\ cancelled' = TRUE
  /\ UNCHANGED <<requestVars, notification, pc, cause, timerVars, syncVars>>

-----------------------------------------------------------------------------
(* The runner. Its select takes any of the cases that are ready. *)

(* Synchronise because of why, unless the application is going down. *)
SyncUnlessCancelled(why) ==
  IF cancelled THEN pc' = "stopped" /\ UNCHANGED cause
               ELSE pc' = "sync" /\ cause' = why

Started ==
  /\ pc = "start"
  /\ SyncUnlessCancelled("start")
  /\ UNCHANGED <<requestVars, notification, timerVars, cancelled, syncVars>>

ContextDone ==
  /\ pc = "select" /\ cancelled
  /\ pc' = "stopped"
  /\ UNCHANGED <<requestVars, notification, cause, timerVars, cancelled, syncVars>>

(* Faulty: after the first refresh no tick synchronises any more. *)
TakeTickUnlessNotified ==
  /\ pc = "select" /\ tick
  /\ IF requested > 0 /\ ~cancelled
       THEN tick' = FALSE /\ UNCHANGED <<pc, cause>>
       ELSE SyncUnlessCancelled("tick") /\ UNCHANGED tick
  /\ UNCHANGED <<requestVars, notification, timer, timerFor, cancelled, syncVars>>

(* A tick synchronises in polling mode; in notification mode the timer is   *)
(* only set again.                                                          *)
TakeTick ==
  /\ pc = "select" /\ tick
  /\ IF notification /\ ~cancelled
       THEN tick' = FALSE /\ UNCHANGED <<pc, cause>>
       ELSE SyncUnlessCancelled("tick") /\ UNCHANGED tick
  /\ UNCHANGED <<requestVars, notification, timer, timerFor, cancelled, syncVars>>

TakeSignal ==
  /\ pc = "select" /\ signals > 0
  /\ signals' = signals - 1
  /\ pc' = "arming"
  /\ UNCHANGED <<requested, settled, observer, notification, cause, timerVars, cancelled,
                 syncVars>>

(* Faulty: reset without taking out the event of the old window. *)
ResetUndrained ==
  /\ pc = "arming"
  /\ timer' = IF timer = "fired" THEN "fired" ELSE "armed"
  /\ timerFor' = requested
  /\ pc' = "select"
  /\ UNCHANGED <<requestVars, notification, cause, tick, cancelled, syncVars>>

(* The timer is created, or reset, for what is left of the last window.     *)
ArmDebounce ==
  /\ pc = "arming"
  /\ timer' = "armed" /\ timerFor' = requested
  /\ pc' = "select"
  /\ UNCHANGED <<requestVars, notification, cause, tick, cancelled, syncVars>>

TakeDebounce ==
  /\ pc = "select" /\ timer = "fired"
  /\ signals' = 0
  /\ pc' = "due"
  /\ UNCHANGED <<requested, settled, observer, notification, cause, timerVars, cancelled,
                 syncVars>>

(* Faulty: signals are drained after the check of the delay.                *)
CheckThenDrain ==
  /\ pc = "due"
  /\ signals' = 0
  /\ IF settled < requested
       THEN timer' = "none" /\ pc' = "select" /\ UNCHANGED <<timerFor, cause>>
       ELSE SyncUnlessCancelled("refresh") /\ UNCHANGED <<timer, timerFor>>
  /\ UNCHANGED <<requested, settled, observer, notification, tick, cancelled, syncVars>>

(* A request that came in meanwhile postpones the synchronisation. *)
CheckDelay ==
  /\ pc = "due"
  /\ IF settled < requested
       THEN /\ timer' = "armed" /\ timerFor' = requested
            /\ pc' = "select" /\ UNCHANGED cause
       ELSE SyncUnlessCancelled("refresh") /\ UNCHANGED <<timer, timerFor>>
  /\ UNCHANGED <<requestVars, notification, tick, cancelled, syncVars>>

SyncBegins ==
  /\ pc = "sync"
  /\ pc' = "syncing"
  /\ attempted' = requested
  /\ refreshSyncs' = refreshSyncs + IF cause = "refresh" THEN 1 ELSE 0
  /\ UNCHANGED <<requestVars, notification, cause, timerVars, cancelled, failed, failures>>

(* After the synchronisation, failed or not, each case ends in its own way. *)
Back ==
  /\ pc' = "select"
  /\ tick' = IF cause = "tick" THEN FALSE ELSE tick
  /\ timer' = IF cause = "refresh" THEN "none" ELSE timer
  /\ cause' = "none"

SyncSucceeds ==
  /\ pc = "syncing"
  /\ Back
  /\ failed' = FALSE
  /\ UNCHANGED <<requestVars, notification, timerFor, cancelled, attempted, failures,
                 refreshSyncs>>

(* Faulty: a failed synchronisation sends itself a signal. *)
SyncFailsResend ==
  /\ pc = "syncing" /\ failures < MaxFailures
  /\ Back
  /\ failed' = TRUE /\ failures' = failures + 1
  /\ signals' = 1
  /\ UNCHANGED <<requested, settled, observer, notification, timerFor, cancelled, attempted,
                 refreshSyncs>>

SyncFails ==
  /\ pc = "syncing" /\ failures < MaxFailures
  /\ Back
  /\ failed' = TRUE /\ failures' = failures + 1
  /\ UNCHANGED <<requestVars, notification, timerFor, cancelled, attempted, refreshSyncs>>

Observer == MarkRefreshSupported \/ RecordRefreshRequest \/ SendSignal
            \/ MarkRefreshPollingRequired
Clocks == WindowCloses \/ DebounceFires \/ PeriodicFires
Runner == \/ Started \/ ContextDone \/ TakeTick \/ TakeSignal \/ ArmDebounce
          \/ TakeDebounce \/ CheckDelay \/ SyncBegins \/ SyncSucceeds \/ SyncFails
Next == Observer \/ Clocks \/ Cancel \/ Runner

Spec == Init /\ [][Next]_vars

(* Timers fire, goroutines run, a synchronisation returns; a send under way *)
(* ends. The select is fair to every case: Go chooses among the ready ones  *)
(* at random.                                                               *)
FairSpec ==
  /\ Spec
  /\ WF_vars(SendSignal) /\ WF_vars(WindowCloses) /\ WF_vars(DebounceFires)
  /\ WF_vars(PeriodicFires) /\ WF_vars(Runner)
  /\ SF_vars(ContextDone) /\ SF_vars(TakeTick) /\ SF_vars(TakeSignal) /\ SF_vars(TakeDebounce)

-----------------------------------------------------------------------------
TypeOK ==
  /\ requested \in 0 .. MaxRequests /\ settled \in 0 .. requested
  /\ attempted \in 0 .. requested
  /\ signals \in 0 .. 1 /\ observer \in {"idle", "send"}
  /\ notification \in BOOLEAN
  /\ pc \in {"start", "select", "arming", "due", "sync", "syncing", "stopped"}
  /\ cause \in {"start", "tick", "refresh", "none"}
  /\ timer \in {"none", "armed", "fired"} /\ timerFor \in 0 .. requested
  /\ tick \in BOOLEAN /\ cancelled \in BOOLEAN
  /\ failed \in BOOLEAN /\ failures \in 0 .. MaxFailures
  /\ refreshSyncs \in Nat

(* What will lead to another synchronisation: a signal sent or being sent,  *)
(* a debounce that is not yet used up, a synchronisation about to begin.    *)
SyncToCome ==
  \/ observer = "send" \/ signals > 0
  \/ pc \in {"arming", "sync"}
  \/ timer # "none" /\ ~(pc = "syncing" /\ cause = "refresh")

(* No refresh gets lost between the recorded time, the signal, the drain    *)
(* and the debounce: a request no synchronisation began after has one to    *)
(* come, unless the runner stopped.                                         *)
NoRefreshLost == requested > attempted /\ pc # "stopped" => SyncToCome

(* No event of an old window is left in the timer that waits for a later    *)
(* one (resetTimer).                                                        *)
NoStaleTimer == timer = "fired" => timerFor <= settled

(* Merged, not multiplied: notifications never cause more synchronisations  *)
(* than there were notifications.                                           *)
NoExtraSync == refreshSyncs <= requested

(* Every refresh is followed by a synchronisation that began after it.      *)
RefreshServed ==
  \A k \in 1 .. MaxRequests : requested = k ~> attempted >= k \/ cancelled

(* Back in polling mode for good, the ticks synchronise again and again.    *)
PollingResumes ==
  <>[](~notification) => []<>((pc = "sync" /\ cause = "tick") \/ cancelled)

(* The comment in runSync: after a failure "the next tick or refresh tries  *)
(* again", so a failed synchronisation is made up for.                      *)
FailureMadeUp == [](failed => <>(~failed \/ cancelled))

(* Notifications are merged and none is lost: at most a synchronisation for *)
(* each, and one to come after the last.                                    *)
RefreshesMerged == NoRefreshLost /\ NoExtraSync

(* Whichever mode the runner is in, synchronisations go on.                 *)
SyncsGoOn == RefreshServed /\ PollingResumes

=============================================================================
