----------------------------- MODULE CpaProcess -----------------------------
(***************************************************************************)
(* The manager of the bundled CPA (internal/cpamanager/manager.go): its    *)
(* executable on disk, the process started from it, and the requests that  *)
(* start, stop, restart and update it, which may overlap.  The mutex       *)
(* covers only the fields cmd and events, and is let go between the check  *)
(* of cmd and the question to the management port.                         *)
(*                                                                         *)
(* A file being written is Partial until the write returns.  Processes are *)
(* numbered in the order they start; a process may end at any time, so the *)
(* signal that asks it to is left out.                                     *)
(***************************************************************************)
EXTENDS Naturals, Sequences

CONSTANTS
  Jobs,      \* requests served at one time
  Versions,  \* releases, numbered; the greatest is the latest one
  MaxProcs   \* bound: processes started

ProcessConstants == \E v \in Versions : \A w \in Versions : w <= v

VARIABLES
  exe,      \* the file ExePath
  proc,     \* the processes this program or an earlier run of it started
  cmd,      \* Manager.cmd, or 0
  job,      \* the requests
  started   \* processes started by this run of the program
vars == <<exe, proc, cmd, job, started>>

Missing == 0
LatestRelease == CHOOSE v \in Versions : \A w \in Versions : w <= v
Files == {[whole |-> TRUE, ver |-> v] : v \in Versions \union {Missing}} \union {[whole |-> FALSE, ver |-> Missing]}
Whole(v) == [whole |-> TRUE, ver |-> v]
Cut == [whole |-> FALSE, ver |-> Missing]
NoFile == Whole(Missing)

\* after: what Start or Stop returns to; waits: the process Stop waits for; was: wasRunning.
Free == [pc |-> "free", after |-> "free", waits |-> 0, saved |-> NoFile, was |-> FALSE]

\* An earlier run of the program may have left a process behind.
Init ==
  /\ exe \in {Whole(v) : v \in Versions \union {Missing}}
  /\ proc \in {<<>>, <<"alive">>}
  /\ cmd = 0 /\ started = {}
  /\ job = [j \in Jobs |-> Free]

Alive(p) == proc[p] = "alive"
\* isRunningLocked: ProcessState is set once Wait has returned.
IsRunning == cmd # 0 /\ proc[cmd] \in {"alive", "exited"}
\* Some process may answer on the management port, a young one perhaps not yet.
PortAnswers == \E p \in DOMAIN proc : Alive(p)

At(j, pc) == job[j].pc = pc
Goto(j, pc) == job' = [job EXCEPT ![j].pc = pc]
Return(j) ==
  job' = [job EXCEPT ![j].pc = job[j].after, ![j].after = "free",
                     ![j].waits = IF job[j].after = "rename" THEN @ ELSE 0]
Fail(j) == job' = [job EXCEPT ![j] = Free]
Writing == \E j \in Jobs : job[j].pc \in {"installing", "replacing"}

-----------------------------------------------------------------------------
(* Processes, and the goroutine that waits for each. *)
Exit(p) ==
  /\ Alive(p) /\ proc' = [proc EXCEPT ![p] = IF p \in started THEN "exited" ELSE "gone"]
  /\ UNCHANGED <<exe, cmd, job, started>>

WaitReturns(p) ==
  /\ proc[p] = "exited"
  /\ proc' = [proc EXCEPT ![p] = "waited"]
  /\ UNCHANGED <<exe, cmd, job, started>>

\* Faulty: whatever process cmd names is forgotten.
ClearAnyCmd(p) ==
  /\ proc[p] = "waited"
  /\ proc' = [proc EXCEPT ![p] = "gone"] /\ cmd' = 0
  /\ UNCHANGED <<exe, job, started>>

ClearCmd(p) ==
  /\ proc[p] = "waited"
  /\ proc' = [proc EXCEPT ![p] = "gone"]
  /\ cmd' = IF cmd = p THEN 0 ELSE cmd
  /\ UNCHANGED <<exe, job, started>>

\* The program ends and is started again; processes it started may outlive it.
Restart ==
  /\ cmd' = 0 /\ started' = {} /\ job' = [j \in Jobs |-> Free]
  /\ proc' = [p \in DOMAIN proc |-> IF Alive(p) THEN "alive" ELSE "gone"]
  /\ UNCHANGED exe

-----------------------------------------------------------------------------
(* The routes, and Update's own steps. *)
BeginStart(j) ==
  /\ At(j, "free") /\ Goto(j, "ensure") /\ UNCHANGED <<exe, proc, cmd, started>>
BeginStop(j) ==
  /\ At(j, "free") /\ Goto(j, "stop") /\ UNCHANGED <<exe, proc, cmd, started>>
BeginRestart(j) ==
  /\ At(j, "free") /\ job' = [job EXCEPT ![j].pc = "stop", ![j].after = "ensure"]
  /\ UNCHANGED <<exe, proc, cmd, started>>

\* Update: a newer release was fetched and verified, and Status read; else it answers at once.
BeginUpdate(j) ==
  /\ At(j, "free") /\ ~(exe.whole /\ exe.ver >= LatestRelease)
  /\ \E running \in {IsRunning, IsRunning \/ PortAnswers} :
       job' = [job EXCEPT ![j].pc = "stop", ![j].after = "rename", ![j].was = running]
  /\ UNCHANGED <<exe, proc, cmd, started>>

\* An error of Rename is returned as it is: nothing is started again.
RenameExe(j) ==
  /\ At(j, "rename")
  /\ \/ exe' = NoFile /\ job' = [job EXCEPT ![j].pc = "replace", ![j].waits = 0, ![j].saved = exe]
     \/ exe # NoFile /\ Fail(j) /\ UNCHANGED exe
  /\ UNCHANGED <<proc, cmd, started>>

OpenExe(j) ==
  /\ At(j, "replace") /\ exe' = Cut /\ Goto(j, "replacing") /\ UNCHANGED <<proc, cmd, started>>

ReplaceExe(j) ==
  /\ At(j, "replacing")
  /\ \/ exe' = Whole(LatestRelease) /\ job' = [job EXCEPT ![j] = [Free EXCEPT !.pc = "ensure"]]
     \/ /\ exe' = job[j].saved
        /\ job' = [job EXCEPT ![j] = IF job[j].was THEN [Free EXCEPT !.pc = "ensure"] ELSE Free]
  /\ UNCHANGED <<proc, cmd, started>>

-----------------------------------------------------------------------------
(* Start. *)
\* EnsureInstalled: any file is taken for the executable.
EnsureInstalled(j) ==
  /\ At(j, "ensure")
  /\ \/ exe # NoFile /\ Goto(j, "check") /\ UNCHANGED exe
     \/ exe = NoFile /\ Goto(j, "installing") /\ exe' = Cut
     \/ exe = NoFile /\ Fail(j) /\ UNCHANGED exe
  /\ UNCHANGED <<proc, cmd, started>>

\* installRelease: a write that fails leaves what it wrote.
InstallRelease(j) ==
  /\ At(j, "installing")
  /\ \/ exe' = Whole(LatestRelease) /\ Goto(j, "check")
     \/ UNCHANGED exe /\ Fail(j)
  /\ UNCHANGED <<proc, cmd, started>>

CheckRunning(j) ==
  /\ At(j, "check")
  /\ IF IsRunning THEN Return(j) ELSE Goto(j, "probe")
  /\ UNCHANGED <<exe, proc, cmd, started>>

ProbePort(j) ==
  /\ At(j, "probe")
  /\ \/ PortAnswers /\ Return(j)
     \/ Goto(j, "exec")
  /\ UNCHANGED <<exe, proc, cmd, started>>

\* The executable cannot be run while it is written, nor when it is cut or gone.
Exec(j) ==
  \/ /\ exe \notin {Cut, NoFile} /\ ~Writing /\ Len(proc) < MaxProcs
     /\ proc' = Append(proc, "alive")
     /\ cmd' = Len(proc) + 1 /\ started' = started \union {Len(proc) + 1}
     /\ Return(j)
  \/ Fail(j) /\ UNCHANGED <<proc, cmd, started>>

\* Faulty: cmd is not looked at again under the mutex.
ExecUnchecked(j) == At(j, "exec") /\ Exec(j) /\ UNCHANGED exe

StartProcess(j) ==
  /\ At(j, "exec")
  /\ \/ IsRunning /\ Return(j) /\ UNCHANGED <<proc, cmd, started>>
     \/ ~IsRunning /\ Exec(j)
  /\ UNCHANGED exe

-----------------------------------------------------------------------------
(* Stop. *)
\* Faulty: the process is asked to end and not waited for.
StopWithoutWaiting(j) ==
  /\ At(j, "stop") /\ job' = [job EXCEPT ![j].pc = job[j].after, ![j].after = "free", ![j].waits = cmd]
  /\ UNCHANGED <<exe, proc, cmd, started>>

StopProcess(j) ==
  /\ At(j, "stop")
  /\ IF cmd = 0 THEN Return(j) ELSE job' = [job EXCEPT ![j].pc = "await", ![j].waits = cmd]
  /\ UNCHANGED <<exe, proc, cmd, started>>

\* The loop ends when cmd names another process, or with the request's context.
AwaitStopped(j) ==
  /\ At(j, "await")
  /\ \/ cmd # job[j].waits /\ Return(j)
     \/ Fail(j)
  /\ UNCHANGED <<exe, proc, cmd, started>>

Next ==
  \/ Restart
  \/ \E p \in DOMAIN proc : Exit(p) \/ WaitReturns(p) \/ ClearCmd(p)
  \/ \E j \in Jobs :
       \/ BeginStart(j) \/ BeginStop(j) \/ BeginRestart(j) \/ BeginUpdate(j)
       \/ RenameExe(j) \/ OpenExe(j) \/ ReplaceExe(j)
       \/ EnsureInstalled(j) \/ InstallRelease(j) \/ CheckRunning(j) \/ ProbePort(j) \/ StartProcess(j)
       \/ StopProcess(j) \/ AwaitStopped(j)

Spec == Init /\ [][Next]_vars

-----------------------------------------------------------------------------
\* Shapes of the state.
TypeOK ==
  /\ exe \in Files /\ cmd \in 0..Len(proc) /\ started \subseteq DOMAIN proc
  /\ \A p \in DOMAIN proc : proc[p] \in {"alive", "exited", "waited", "gone"}
  /\ \A j \in Jobs : job[j].saved \in Files /\ job[j].was \in BOOLEAN

\* A process this run of the program started and that is alive is the one cmd names, however
\* starts, stops, updates and the waiting goroutines of older processes overlap: Stop and
\* Close can always reach it, and two never run at once.
AliveIsTracked == \A p \in started : Alive(p) => cmd = p

\* The executable is moved away only after the process Stop found has ended.
ReplacedWhenStopped ==
  \A j \in Jobs : At(j, "rename") /\ job[j].waits # 0 => ~Alive(job[j].waits)

\* What a reader might expect and the code does not give: with nothing under way the
\* executable is a whole release.  A write of installRelease that fails, or a program that ends
\* while it writes, leaves a file that EnsureInstalled takes for the executable ever after.
ExeIsWhole == (\A j \in Jobs : At(j, "free")) => exe.whole
=============================================================================
