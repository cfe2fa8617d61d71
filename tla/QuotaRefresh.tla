---------------------------- MODULE QuotaRefresh ----------------------------
(***************************************************************************)
(* The quota service: one map holds, for every credential (auth index),    *)
(* the refresh task under way or the last result. Manual requests, rounds  *)
(* of the automatic refresh and rounds of the inspection queue tasks; a    *)
(* dispatcher of each waits for worker tokens; workers ask the provider;   *)
(* the header worker writes results read from response headers.            *)
(*                                                                         *)
(* A source is one request or round together with its dispatcher. Every    *)
(* action is one critical section of refreshMu, autoRefreshMu or           *)
(* refreshLifecycleMu, with the unshared steps around it. Time is the      *)
(* order in which results arise.                                           *)
(***************************************************************************)
EXTENDS Naturals

CONSTANTS
  Auths,         \* auth indexes
  Manual, Automatic, Inspection, \* sources: requests, automatic rounds, inspections
  Tokens,        \* refreshWorkerTokens: a worker goroutine holds one
  NoAuth,        \* not an auth index
  MaxRounds,     \* bound: starts of sources
  MaxDbErrors,   \* bound: requests ended by a failed query
  MaxSnapshots   \* bound: header snapshots

Sources == Manual \cup Automatic \cup Inspection
ASSUME QuotaConstants ==
  /\ NoAuth \notin Auths /\ MaxRounds \in Nat /\ MaxDbErrors \in Nat /\ MaxSnapshots \in Nat
  /\ Manual \cap Automatic = {} /\ Manual \cap Inspection = {} /\ Automatic \cap Inspection = {}

VARIABLES
  tasks,         \* auth index -> task, or NoTask
  pc,            \* source -> where it is
  todo,          \* source -> auth indexes it still has to look at
  list,          \* source -> tasks it created and has not dispatched
  round,         \* source -> tasks of its round
  rounds,        \* starts of sources so far
  dbErrors,      \* queries failed so far
  stage,         \* token -> "free", or where the worker holding it is
  job,           \* token -> auth index the worker was started for
  autoRunning,   \* autoRefreshRunning
  due,           \* the interval since the last attempt and round is over
  inspection,    \* the round shown by the inspection page
  pending,       \* auth index -> time of the header snapshot waiting, or 0
  applying,      \* auth index -> time of the header snapshot being applied, or 0
  clock,         \* time of the last result
  snapshots,     \* header snapshots so far
  cancelled,     \* the refresh context is done
  closing        \* refreshClosing

sourceVars == <<pc, todo, list, round, rounds, dbErrors>>
workerVars == <<stage, job>>
roundVars  == <<autoRunning, due, inspection>>
headerVars == <<pending, applying, snapshots>>
lifeVars   == <<cancelled, closing>>
vars == <<tasks, sourceVars, workerVars, roundVars, headerVars, clock, lifeVars>>

NoTask == [status |-> "none", by |-> "none", error |-> "none", at |-> 0]
Queued(kind) == [NoTask EXCEPT !.status = "queued", !.by = kind]
Completed(by, at) == [NoTask EXCEPT !.status = "completed", !.by = by, !.at = at]
Failed(task, error) == [task EXCEPT !.status = "failed", !.error = error]

Active(task)   == task.status \in {"queued", "running"}
CacheableError(task) == task.status = "failed" /\ task.error = "http"

Kind(s) == IF s \in Manual THEN "manual" ELSE IF s \in Automatic THEN "auto" ELSE "inspection"

Init ==
  /\ tasks = [a \in Auths |-> NoTask]
  /\ pc = [s \in Sources |-> "idle"] /\ rounds = 0 /\ dbErrors = 0
  /\ todo = [s \in Sources |-> {}] /\ list = [s \in Sources |-> {}]
  /\ round = [s \in Sources |-> {}]
  /\ stage = [w \in Tokens |-> "free"] /\ job = [w \in Tokens |-> NoAuth]
  /\ autoRunning = FALSE /\ due = TRUE
  /\ inspection = [active |-> FALSE, set |-> {}, completed |-> FALSE]
  /\ pending = [a \in Auths |-> 0] /\ applying = [a \in Auths |-> 0]
  /\ clock = 0 /\ snapshots = 0
  /\ cancelled = FALSE /\ closing = FALSE

-----------------------------------------------------------------------------
(* Sources begin. *)

Goto(s, where) == pc' = [pc EXCEPT ![s] = where]

Begin(s, where) ==
  /\ pc[s] = "idle" /\ rounds < MaxRounds
  /\ rounds' = rounds + 1
  /\ Goto(s, where)

(* The credentials of the request, or those the scan of the table returns.  *)
LookAt(s, S) ==
  /\ todo' = [todo EXCEPT ![s] = S]
  /\ round' = [round EXCEPT ![s] = {}]

Refresh(s) ==
  /\ Begin(s, "queue")
  /\ \E S \in SUBSET Auths \ {{}} : LookAt(s, S)
  /\ UNCHANGED <<tasks, list, dbErrors, workerVars, roundVars, headerVars, clock, lifeVars>>

(* Faulty: a round may begin while another one is under way. *)
BeginAutoWhenDue(s) ==
  /\ Begin(s, "queue") /\ due
  /\ autoRunning' = TRUE /\ due' = FALSE
  /\ \E S \in SUBSET Auths : LookAt(s, S)
  /\ UNCHANGED <<tasks, list, dbErrors, workerVars, inspection, headerVars, clock, lifeVars>>

BeginAuto(s) ==
  /\ Begin(s, "queue") /\ due /\ ~autoRunning
  /\ autoRunning' = TRUE /\ due' = FALSE
  /\ \E S \in SUBSET Auths : LookAt(s, S)
  /\ UNCHANGED <<tasks, list, dbErrors, workerVars, inspection, headerVars, clock, lifeVars>>

IntervalPasses ==
  /\ ~due /\ due' = TRUE
  /\ UNCHANGED <<tasks, sourceVars, workerVars, autoRunning, inspection, headerVars, clock, lifeVars>>

ClearSettled(s) ==
  /\ Begin(s, "reset")
  /\ tasks' = [a \in Auths |-> IF Active(tasks[a]) THEN tasks[a] ELSE NoTask]
  /\ UNCHANGED <<todo, list, round, dbErrors, workerVars, roundVars, headerVars, clock, lifeVars>>

ResetRound(s) ==
  /\ pc[s] = "reset" /\ Goto(s, "queue")
  /\ inspection' = [active |-> FALSE, set |-> {}, completed |-> FALSE]
  /\ \E S \in SUBSET Auths : LookAt(s, S)
  /\ UNCHANGED <<tasks, list, rounds, dbErrors, workerVars, autoRunning, due, headerVars, clock, lifeVars>>

-----------------------------------------------------------------------------
(* Sources queue their tasks, one credential after the other.               *)

(* Faulty: only a running task counts as under way. *)
UnderWayRunning(task) == task.status = "running"

UnderWay(task) == Active(task)

Ensure(s, a) ==
  /\ pc[s] = "queue" /\ a \in todo[s]
  /\ todo' = [todo EXCEPT ![s] = @ \ {a}]
  /\ IF UnderWay(tasks[a])
       THEN /\ round' = [round EXCEPT ![s] = @ \cup {x \in {a} : tasks[a].by = Kind(s)}]
            /\ UNCHANGED <<tasks, list>>
       ELSE IF s \in Automatic /\ CacheableError(tasks[a])
       THEN UNCHANGED <<tasks, list, round>>
       ELSE /\ tasks' = [tasks EXCEPT ![a] = Queued(Kind(s))]
            /\ list' = [list EXCEPT ![s] = @ \cup {a}]
            /\ round' = [round EXCEPT ![s] = @ \cup {a}]
  /\ UNCHANGED <<pc, rounds, dbErrors, workerVars, roundVars, headerVars, clock, lifeVars>>

(* validateRefreshAuthIndex fails: the request returns the error at once.   *)
DbError(s) ==
  /\ s \in Manual /\ pc[s] = "queue" /\ dbErrors < MaxDbErrors
  /\ \E a \in todo[s] : ~UnderWay(tasks[a])
  /\ dbErrors' = dbErrors + 1
  /\ todo' = [todo EXCEPT ![s] = {}] /\ list' = [list EXCEPT ![s] = {}]
  /\ Goto(s, "idle")
  /\ UNCHANGED <<tasks, round, rounds, workerVars, roundVars, headerVars, clock, lifeVars>>

SetRound(s) ==
  /\ s \in Inspection /\ pc[s] = "queue" /\ todo[s] = {}
  /\ inspection' = [inspection EXCEPT !.active = TRUE, !.set = round[s]]
  /\ Goto(s, "start")
  /\ UNCHANGED <<tasks, todo, list, round, rounds, dbErrors, workerVars, autoRunning, due,
                 headerVars, clock, lifeVars>>

(* Faulty: only a dispatcher ends the round. *)
FinishDispatched(s) == autoRunning' = (autoRunning /\ ~(s \in Automatic /\ pc[s] = "wait"))

Finish(s) == autoRunning' = (autoRunning /\ s \notin Automatic)

(* Faulty: the dispatcher starts although the service closes. *)
StartDispatcherAnyway(s) ==
  /\ pc[s] = IF s \in Inspection THEN "start" ELSE "queue"
  /\ todo[s] = {}
  /\ IF list[s] = {} THEN Goto(s, "idle") /\ Finish(s)
                     ELSE Goto(s, "dispatch") /\ UNCHANGED autoRunning
  /\ UNCHANGED <<tasks, todo, list, round, rounds, dbErrors, workerVars, due, inspection,
                 headerVars, clock, lifeVars>>

(* Faulty: the tasks of a refused dispatcher stay queued. *)
StartDispatcherSilently(s) ==
  /\ pc[s] = IF s \in Inspection THEN "start" ELSE "queue"
  /\ todo[s] = {}
  /\ IF list[s] = {} \/ closing THEN Goto(s, "idle") /\ Finish(s)
                                ELSE Goto(s, "dispatch") /\ UNCHANGED autoRunning
  /\ UNCHANGED <<tasks, todo, list, round, rounds, dbErrors, workerVars, due, inspection,
                 headerVars, clock, lifeVars>>

(* startRefreshGoroutine refuses the dispatcher while the service closes.   *)
StartDispatcher(s) ==
  /\ pc[s] = IF s \in Inspection THEN "start" ELSE "queue"
  /\ todo[s] = {}
  /\ CASE list[s] = {} -> Goto(s, "idle") /\ Finish(s)
       [] list[s] # {} /\ closing  -> Goto(s, "refused") /\ UNCHANGED autoRunning
       [] list[s] # {} /\ ~closing -> Goto(s, "dispatch") /\ UNCHANGED autoRunning
  /\ UNCHANGED <<tasks, todo, list, round, rounds, dbErrors, workerVars, due, inspection,
                 headerVars, clock, lifeVars>>

-----------------------------------------------------------------------------
(* Dispatchers. *)

(* A worker starts with the token it was given. *)
TakeToken(w, a) ==
  /\ stage[w] = "free"
  /\ stage' = [stage EXCEPT ![w] = "spawned"] /\ job' = [job EXCEPT ![w] = a]

(* Faulty: the rest of the list is forgotten when the service closes. *)
SpawnForgetting(s, a, w) ==
  /\ pc[s] = "dispatch" /\ a \in list[s] /\ stage[w] = "free"
  /\ IF closing
       THEN list' = [list EXCEPT ![s] = {}] /\ UNCHANGED workerVars
       ELSE list' = [list EXCEPT ![s] = @ \ {a}] /\ TakeToken(w, a)
  /\ UNCHANGED <<tasks, pc, todo, round, rounds, dbErrors, roundVars, headerVars, clock, lifeVars>>

(* A token is free, which the select may take although the context is done. *)
Spawn(s, a, w) ==
  /\ pc[s] = "dispatch" /\ a \in list[s] /\ stage[w] = "free"
  /\ IF closing
       THEN Goto(s, "fail") /\ UNCHANGED <<list, workerVars>>
       ELSE list' = [list EXCEPT ![s] = @ \ {a}] /\ TakeToken(w, a) /\ UNCHANGED pc
  /\ UNCHANGED <<tasks, todo, round, rounds, dbErrors, roundVars, headerVars, clock, lifeVars>>

GiveUp(s) ==
  /\ pc[s] = "dispatch" /\ list[s] # {} /\ cancelled
  /\ Goto(s, "fail")
  /\ UNCHANGED <<tasks, todo, list, round, rounds, dbErrors, workerVars, roundVars,
                 headerVars, clock, lifeVars>>

(* markQueuedRefreshTasksFailed takes the lock for each task. *)
FailQueued(s, a) ==
  /\ pc[s] \in {"fail", "refused"} /\ a \in list[s]
  /\ list' = [list EXCEPT ![s] = @ \ {a}]
  /\ tasks' = [tasks EXCEPT ![a] = IF @ = NoTask THEN @ ELSE Failed(@, "other")]
  /\ UNCHANGED <<pc, todo, round, rounds, dbErrors, workerVars, roundVars, headerVars, clock, lifeVars>>

Refused(s) ==
  /\ pc[s] = "refused" /\ list[s] = {}
  /\ Goto(s, "idle") /\ Finish(s)
  /\ UNCHANGED <<tasks, todo, list, round, rounds, dbErrors, workerVars, due, inspection,
                 headerVars, clock, lifeVars>>

Dispatched(s) ==
  /\ pc[s] \in {"dispatch", "fail"} /\ list[s] = {}
  /\ Goto(s, IF s \in Automatic THEN "wait" ELSE "idle")
  /\ UNCHANGED <<tasks, todo, list, round, rounds, dbErrors, workerVars, roundVars,
                 headerVars, clock, lifeVars>>

WaitEnds(s) ==
  /\ pc[s] = "wait"
  /\ cancelled \/ \A a \in round[s] : ~(tasks[a].by = "auto" /\ Active(tasks[a]))
  /\ Goto(s, "idle") /\ Finish(s)
  /\ UNCHANGED <<tasks, todo, list, round, rounds, dbErrors, workerVars, due, inspection,
                 headerVars, clock, lifeVars>>

-----------------------------------------------------------------------------
(* Workers. The cooldown comes before the token is given back.              *)

StartWork(w) ==
  /\ stage[w] = "spawned" /\ UNCHANGED job
  /\ LET a == job[w] IN
       IF tasks[a].status = "queued"
         THEN /\ tasks' = [tasks EXCEPT ![a].status = "running"]
              /\ stage' = [stage EXCEPT ![w] = "running"]
         ELSE stage' = [stage EXCEPT ![w] = "cooling"] /\ UNCHANGED tasks
  /\ UNCHANGED <<sourceVars, roundVars, headerVars, clock, lifeVars>>

(* The provider answers, fails, or the timeout or the end of the context    *)
(* ends the call; a credential of a type now unsupported leaves the map.    *)
Answer(w) ==
  /\ stage[w] = "running" /\ stage' = [stage EXCEPT ![w] = "cooling"] /\ UNCHANGED job
  /\ LET a == job[w] IN
       \/ /\ tasks[a] # NoTask /\ clock' = clock + 1
          /\ tasks' = [tasks EXCEPT ![a] = Completed(@.by, clock + 1)]
       \/ /\ tasks[a] # NoTask /\ UNCHANGED clock
          /\ \E error \in {"http", "other"} : tasks' = [tasks EXCEPT ![a] = Failed(@, error)]
       \/ /\ UNCHANGED clock
          /\ tasks' = [tasks EXCEPT ![a] = NoTask]
  /\ UNCHANGED <<sourceVars, roundVars, headerVars, lifeVars>>

Release(w) ==
  /\ stage[w] = "cooling"
  /\ stage' = [stage EXCEPT ![w] = "free"] /\ job' = [job EXCEPT ![w] = NoAuth]
  /\ UNCHANGED <<tasks, sourceVars, roundVars, headerVars, clock, lifeVars>>

(* The error's TTL is over; every read of the map cleans it first. *)
Expire(a) ==
  /\ tasks[a].status = "failed"
  /\ tasks' = [tasks EXCEPT ![a] = NoTask]
  /\ UNCHANGED <<sourceVars, workerVars, roundVars, headerVars, clock, lifeVars>>

(* GetInspectionStatus records the end of the round it sees first. *)
InspectionRuns ==
  \E a \in inspection.set : tasks[a].by = "inspection" /\ Active(tasks[a])

ReadStatus ==
  /\ inspection.active /\ inspection.set # {} /\ ~inspection.completed /\ ~InspectionRuns
  /\ inspection' = [inspection EXCEPT !.completed = TRUE]
  /\ UNCHANGED <<tasks, sourceVars, workerVars, autoRunning, due, headerVars, clock, lifeVars>>

-----------------------------------------------------------------------------
(* The header worker: snapshots of one credential are merged, the newest    *)
(* wins; a flush looks at the map, computes the usage of the window without *)
(* the lock, and looks again before it writes.                              *)

Observe(a) ==
  /\ snapshots < MaxSnapshots /\ snapshots' = snapshots + 1
  /\ \E t \in 1..clock + 1 :
       /\ pending' = [pending EXCEPT ![a] = IF t >= @ THEN t ELSE @]
       /\ clock' = IF t > clock THEN t ELSE clock
  /\ UNCHANGED <<tasks, sourceVars, workerVars, roundVars, applying, lifeVars>>

(* Faulty: the age of a completed result is not looked at. *)
MayWriteSettled(task, t) == ~Active(task)

MayWrite(task, t) == ~Active(task) /\ ~(task.status = "completed" /\ task.at >= t)

ApplySnapshot(a) ==
  /\ pending[a] > 0 /\ \A b \in Auths : applying[b] = 0
  /\ pending' = [pending EXCEPT ![a] = 0]
  /\ applying' = [applying EXCEPT ![a] = IF MayWrite(tasks[a], pending[a]) THEN pending[a] ELSE 0]
  /\ UNCHANGED <<tasks, sourceVars, workerVars, roundVars, snapshots, clock, lifeVars>>

(* Faulty: the map is not looked at again. *)
MergeUnchecked(a) ==
  /\ applying[a] > 0
  /\ applying' = [applying EXCEPT ![a] = 0]
  /\ tasks' = [tasks EXCEPT ![a] = Completed("usage_header", applying[a])]
  /\ UNCHANGED <<sourceVars, workerVars, roundVars, pending, snapshots, clock, lifeVars>>

MergeSnapshot(a) ==
  /\ applying[a] > 0
  /\ applying' = [applying EXCEPT ![a] = 0]
  /\ tasks' = [tasks EXCEPT ![a] =
       IF MayWrite(@, applying[a]) THEN Completed("usage_header", applying[a]) ELSE @]
  /\ UNCHANGED <<sourceVars, workerVars, roundVars, pending, snapshots, clock, lifeVars>>

-----------------------------------------------------------------------------
(* App.Run's context is done before, or when, StopRefreshTasks closes.      *)

Cancel ==
  /\ ~cancelled /\ cancelled' = TRUE
  /\ UNCHANGED <<tasks, sourceVars, workerVars, roundVars, headerVars, clock, closing>>

Close ==
  /\ ~closing /\ closing' = TRUE
  /\ UNCHANGED <<tasks, sourceVars, workerVars, roundVars, headerVars, clock, cancelled>>

Source(s) ==
  \/ SetRound(s) \/ StartDispatcher(s) \/ GiveUp(s) \/ Refused(s) \/ Dispatched(s) \/ WaitEnds(s)
  \/ s \in Inspection /\ ResetRound(s)
  \/ \E a \in Auths : Ensure(s, a) \/ FailQueued(s, a) \/ \E w \in Tokens : Spawn(s, a, w)

Worker(w) == StartWork(w) \/ Answer(w) \/ Release(w)

Header(a) == Observe(a) \/ ApplySnapshot(a) \/ MergeSnapshot(a)

Next ==
  \/ \E s \in Manual : Refresh(s) \/ DbError(s)
  \/ \E s \in Automatic : BeginAuto(s)
  \/ \E s \in Inspection : ClearSettled(s)
  \/ \E s \in Sources : Source(s)
  \/ \E w \in Tokens : Worker(w)
  \/ \E a \in Auths : Expire(a) \/ Header(a)
  \/ IntervalPasses \/ ReadStatus \/ Cancel \/ Close

(* Goroutines go on; a provider call ends by its timeout at the latest;     *)
(* StopRefreshTasks cancels what it closed; the page polls the inspection.  *)
Fairness ==
  /\ \A s \in Sources : WF_vars(Source(s))
  /\ \A w \in Tokens : WF_vars(Worker(w))
  /\ WF_vars(closing /\ Cancel) /\ WF_vars(ReadStatus)

Spec == Init /\ [][Next]_vars
FairSpec == Spec /\ Fairness

-----------------------------------------------------------------------------
Task == [status : {"none", "queued", "running", "completed", "failed"},
         by : {"none", "manual", "auto", "inspection", "usage_header"},
         error : {"none", "http", "other"}, at : Nat]

(* A source that is through leaves no task behind in its list, and a worker *)
(* has a job as long as it has its token.                                   *)
TypeOK ==
  /\ tasks \in [Auths -> Task]
  /\ pc \in [Sources -> {"idle", "reset", "queue", "start", "dispatch", "fail", "refused", "wait"}]
  /\ todo \in [Sources -> SUBSET Auths] /\ list \in [Sources -> SUBSET Auths]
  /\ \A s \in Sources : pc[s] = "idle" => list[s] = {} /\ todo[s] = {}
  /\ round \in [Sources -> SUBSET Auths] /\ rounds \in 0..MaxRounds
  /\ dbErrors \in 0..MaxDbErrors
  /\ stage \in [Tokens -> {"free", "spawned", "running", "cooling"}]
  /\ job \in [Tokens -> Auths \cup {NoAuth}] /\ \A w \in Tokens : job[w] = NoAuth <=> stage[w] = "free"
  /\ autoRunning \in BOOLEAN /\ due \in BOOLEAN
  /\ inspection \in [active : BOOLEAN, set : SUBSET Auths, completed : BOOLEAN]
  /\ pending \in [Auths -> 0..clock] /\ applying \in [Auths -> 0..clock] /\ clock \in Nat
  /\ snapshots \in 0..MaxSnapshots /\ cancelled \in BOOLEAN /\ closing \in BOOLEAN

Working(w, a) == stage[w] \in {"spawned", "running"} /\ job[w] = a

(* The provider is asked once at a time for a credential, whoever queued    *)
(* it, and a result goes to the task it was asked for: of the lists and the *)
(* workers only one holds a credential, and only while its task is under    *)
(* way, which no header snapshot, cleanup or inspection takes from it.      *)
SingleFlight ==
  \A a \in Auths :
    /\ \A s, t \in Sources : a \in list[s] /\ a \in list[t] => s = t
    /\ \A w, v \in Tokens : Working(w, a) /\ Working(v, a) => w = v
    /\ \A s \in Sources : a \in list[s] =>
         tasks[a].status = "queued" /\ \A w \in Tokens : ~Working(w, a)
    /\ \A w \in Tokens : Working(w, a) =>
         tasks[a].status = (IF stage[w] = "running" THEN "running" ELSE "queued")

(* Two automatic rounds never overlap, and the flag is set exactly while    *)
(* one is under way, whichever goroutine ends it.                           *)
OneAutoRound ==
  /\ \A s, t \in Automatic : pc[s] # "idle" /\ pc[t] # "idle" => s = t
  /\ autoRunning <=> \E s \in Automatic : pc[s] # "idle"

(* A result is never replaced by an older one: a header snapshot waits for  *)
(* its flush while workers store newer results.                             *)
CacheNotOlder ==
  [][\A a \in Auths :
       tasks[a].status = "completed" /\ tasks'[a].status = "completed" =>
         tasks'[a].at >= tasks[a].at]_vars

(* What StopRefreshTasks waits for. *)
Idle == (\A w \in Tokens : stage[w] = "free") /\ \A s \in Sources : pc[s] \notin {"dispatch", "fail", "wait"}

(* Once StopRefreshTasks has returned nothing it waits for begins again,    *)
(* though requests go on: the database is closed next.                      *)
StopIsFinal == [][closing /\ Idle => Idle']_vars

(* Every task queued settles, shutdown included.                            *)
EveryTaskSettles == \A a \in Auths : Active(tasks[a]) ~> ~Active(tasks[a])

(* Every automatic round gives the flag back.                               *)
AutoRoundEnds == autoRunning ~> ~autoRunning

(* A queued task is in the list of a source or held by a worker, so that it *)
(* cannot stay queued for ever. Refuted: a request that ends with an error  *)
(* forgets the tasks it has created.                                        *)
QueuedIsOwned ==
  \A a \in Auths : tasks[a].status = "queued" =>
    \/ \E s \in Sources : a \in list[s]
    \/ \E w \in Tokens : Working(w, a)

(* The inspection is completed only when none of its tasks is under way.    *)
(* Refuted: with two inspections the end of the first is recorded after the *)
(* second has reset the round, and SetRound does not clear it.              *)
CompletedMeansSettled == inspection.completed => ~InspectionRuns

(* One request per credential and one automatic round at a time.            *)
OneAtATime == SingleFlight /\ OneAutoRound

=============================================================================
