------------------------------ MODULE MCTasks ------------------------------
(***************************************************************************)
(* Small instances of what must go on for ever beside the usage pipeline:  *)
(* the streams of the pages, the cooldowns of auth files and the refreshes *)
(* of quotas.  They share no state here, so a behaviour is of one of them, *)
(* "part", and the variables of the others keep the value Unused; each has *)
(* the fairness its own module states.                                     *)
(***************************************************************************)
EXTENDS QuotaRefresh

CONSTANTS
  Parts,                                      \* the parts a run looks at
  Clients, BufferCap, ChannelCap, Hidden,     \* of the streams
  MaxEvents, MaxBatch, MaxBreaks, MaxRestarts,
  Credentials, Starters, Restorers, Job, Limit, Durations,   \* of the cooldowns
  MaxCalls, MaxTime, MaxDeleted, MaxFaults

VARIABLES part,
          stored, published, nextSeq, buffer, connection, replay, channel, last, breaks,
          run, lastRun, lastEvent, since, shown, missed,
          rows, disabled, deleted, row, calls, faults

Unused == "unused"
MCHidden == {<<"p", 3>>}      \* the page filters one event out

-----------------------------------------------------------------------------
Hub == INSTANCE UsageEventHub
Cooldown == INSTANCE AuthFileCooldown WITH Auths <- Credentials

ASSUME InstancesAllowed == Hub!HubConstants /\ Cooldown!CooldownConstants

-----------------------------------------------------------------------------
hubVars == <<stored, published, nextSeq, buffer, connection, replay, channel, last, breaks,
             run, lastRun, lastEvent, since, shown, missed>>
cooldownOwn == <<rows, disabled, deleted, row, calls, faults>>
cooldownVars == <<cooldownOwn, pc, due, clock>>
quotaOwn == <<tasks, todo, list, round, rounds, dbErrors, workerVars, autoRunning, inspection,
              headerVars, lifeVars>>
allVars == <<part, hubVars, cooldownOwn, vars>>

NoHub ==
  /\ stored = Unused /\ published = Unused /\ nextSeq = Unused /\ buffer = Unused
  /\ connection = Unused /\ replay = Unused /\ channel = Unused /\ last = Unused
  /\ breaks = Unused /\ run = Unused /\ lastRun = Unused /\ lastEvent = Unused
  /\ since = Unused /\ shown = Unused /\ missed = Unused
NoCooldown ==
  /\ rows = Unused /\ disabled = Unused /\ deleted = Unused
  /\ row = Unused /\ calls = Unused /\ faults = Unused
NoQuota ==
  /\ tasks = Unused /\ todo = Unused /\ list = Unused /\ round = Unused /\ rounds = Unused
  /\ dbErrors = Unused /\ stage = Unused /\ job = Unused /\ autoRunning = Unused
  /\ inspection = Unused /\ pending = Unused /\ applying = Unused /\ snapshots = Unused
  /\ cancelled = Unused /\ closing = Unused

TasksInit ==
  /\ part \in Parts
  /\ IF part = "hub" THEN Hub!Init ELSE NoHub
  /\ IF part = "cooldown" THEN Cooldown!Init ELSE NoCooldown
  /\ IF part = "quota" THEN Init ELSE NoQuota
  /\ part = "hub" => pc = Unused /\ due = Unused /\ clock = Unused

TasksNext ==
  \/ /\ part = "hub" /\ Hub!Next
     /\ UNCHANGED <<part, cooldownOwn, pc, due, clock, quotaOwn>>
  \/ /\ part = "cooldown" /\ Cooldown!Next
     /\ UNCHANGED <<part, hubVars, quotaOwn>>
  \/ /\ part = "quota" /\ Next
     /\ UNCHANGED <<part, hubVars, cooldownOwn>>

\* The fairness of each part, in its own variables.
TasksFairness ==
  /\ WF_hubVars(part = "hub" /\ Hub!Publish)
  /\ \A p \in Clients : WF_hubVars(part = "hub" /\ Hub!Serve(p))
  /\ WF_cooldownVars(part = "cooldown" /\ Cooldown!RunJob)
  /\ \A r \in Restorers : WF_cooldownVars(part = "cooldown" /\ Cooldown!Restore(r))
  /\ \A s \in Sources : WF_vars(part = "quota" /\ Source(s))
  /\ \A w \in Tokens : WF_vars(part = "quota" /\ Worker(w))
  /\ WF_vars(part = "quota" /\ closing /\ Cancel)
  /\ WF_vars(part = "quota" /\ ReadStatus)

TasksSpec == TasksInit /\ [][TasksNext]_allVars
FairTasks == TasksSpec /\ TasksFairness

-----------------------------------------------------------------------------
(* What the parts promise; their own modules say it in words.               *)

\* What a page sees is the stream without a gap and in order (hub.go, stream.go).
StreamFaithful == part = "hub" => Hub!StreamFaithful

\* Every page ends connected with nothing left to send (stream.go).
CatchesUp == \A p \in Clients : <>[](part = "hub" => Hub!UpToDate(p))

\* A credential has one cooldown under way (auth_file_cooldown.go).
OneActive == part = "cooldown" => Cooldown!OneActive

\* A cooldown due is restored or put off, also beside files that are gone.
DueRestored ==
  \A a \in Credentials :
    (part = "cooldown" /\ Cooldown!Overdue(a)) ~> (part = "cooldown" => Cooldown!Settled(a))

\* Nothing under way stays so: no task, and no automatic round (quota/refresh.go).
RefreshesSettle ==
  /\ \A a \in Auths :
       (part = "quota" /\ Active(tasks[a])) ~> (part = "quota" => ~Active(tasks[a]))
  /\ (part = "quota" /\ autoRunning) ~> (part = "quota" => ~autoRunning)

=============================================================================
