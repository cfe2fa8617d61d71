---------------------------- MODULE ServicesProofs ----------------------------
(***************************************************************************)
(* The services beside the usage pipeline, for every value of the          *)
(* constants: each keeps an inductive invariant of its own, and MCServices *)
(* all of them, since no step of one writes the state of another.          *)
(***************************************************************************)
EXTENDS MCServices, FiniteSetTheorems, FunctionTheorems, SequenceTheorems, WellFoundedInduction, TLAPS

-----------------------------------------------------------------------------
(* Least and greatest numbers, and folds.                                   *)

\* A set of naturals that is not empty has a least element.
LEMMA LeastOf ==
  ASSUME NEW S, S \subseteq Nat, S # {}
  PROVE  \E m \in S : \A n \in S : m <= n
<1>1. \E m \in S : \A n \in S : ~ (<<n, m>> \in OpToRel(<, Nat)) BY NatLessThanWellFounded, WFMin, Zenon
<1>2. PICK m \in S : \A n \in S : ~ (<<n, m>> \in OpToRel(<, Nat)) BY <1>1
<1>3. \A n \in S : ~(n < m) BY <1>2, Zenon DEF OpToRel
<1> QED BY <1>3

\* A finite one has a greatest.
LEMMA GreatestOf ==
  ASSUME NEW S, S \subseteq Nat, IsFiniteSet(S), S # {}
  PROVE  \E m \in S : \A n \in S : n <= m
<1> SUFFICES ASSUME ~\E m \in S : \A n \in S : n <= m PROVE FALSE OBVIOUS
<1> DEFINE Bad(R) == R # {} /\ ~\E m \in R : \A n \in R : n <= m
           Sizes == {Cardinality(R) : R \in {R \in SUBSET S : Bad(R)}}
<1>1. \A R \in SUBSET S : IsFiniteSet(R) /\ Cardinality(R) \in Nat BY FS_Subset, FS_CardinalityType
<1>2. Sizes \subseteq Nat /\ Sizes # {} BY <1>1
<1>3. PICK k \in Sizes : \A j \in Sizes : k <= j BY <1>2, LeastOf
<1>4. PICK R \in SUBSET S : Bad(R) /\ Cardinality(R) = k OBVIOUS
<1>5. PICK x \in R : TRUE BY <1>4
<1>6. PICK T : T = R \ {x} OBVIOUS
<1>7. Cardinality(T) = k - 1 /\ T \in SUBSET S BY <1>1, <1>4, <1>6, FS_RemoveElement
<1>8. ~Bad(T)
  <2> SUFFICES ASSUME Bad(T) PROVE FALSE OBVIOUS
  <2>1. Cardinality(T) \in Sizes BY <1>7
  <2>2. k <= Cardinality(T) /\ k \in Nat BY <1>2, <1>3, <2>1
  <2> QED BY <1>7, <2>2
<1>9. T # {} BY <1>4, <1>6
<1>10. PICK y \in T : \A n \in T : n <= y BY <1>8, <1>9
<1>11. x \in Nat /\ y \in Nat /\ R \subseteq Nat BY <1>6
<1>12. CASE x <= y
  <2>1. y \in R /\ \A n \in R : n <= y BY <1>6, <1>10, <1>12
  <2> QED BY <1>4, <2>1
<1>13. CASE y <= x
  <2>1. \A n \in R : n <= x BY <1>6, <1>10, <1>11, <1>13
  <2> QED BY <1>4, <2>1
<1> QED BY <1>11, <1>12, <1>13


\* A function of the subsets of a finite set that takes one element away, and does a step for it.
FoldsBy(S, a, c, F, g) == \A s \in SUBSET S : g[s] = IF s = {} THEN a ELSE F[c[s]][g[s \ {c[s]}]]

\* There is such a function: a fold is defined.
LEMMA FoldExists ==
  ASSUME NEW S, IsFiniteSet(S), NEW D, NEW a \in D, NEW c, \A s \in SUBSET S : s # {} => c[s] \in s,
         NEW F \in [S -> [D -> D]]
  PROVE  \E g \in [SUBSET S -> D] : FoldsBy(S, a, c, F, g)
<1>1. \A s \in SUBSET S : IsFiniteSet(s) /\ Cardinality(s) \in Nat BY FS_Subset, FS_CardinalityType
<1> DEFINE UpTo(k, g) == \A s \in SUBSET S : Cardinality(s) <= k =>
                           g[s] = IF s = {} THEN a ELSE F[c[s]][g[s \ {c[s]}]]
           Bad == {k \in Nat : ~\E g \in [SUBSET S -> D] : UpTo(k, g)}
<1>2. Bad = {}
  <2> SUFFICES ASSUME Bad # {} PROVE FALSE OBVIOUS
  <2>1. PICK k \in Bad : \A j \in Bad : k <= j
    <3>1. Bad \subseteq Nat OBVIOUS
    <3> HIDE DEF Bad
    <3> QED BY <3>1, LeastOf
  <2>2. CASE k = 0
    <3>1. PICK g : g = [s \in SUBSET S |-> a] OBVIOUS
    <3>2. g \in [SUBSET S -> D] BY <3>1
    <3>3. UpTo(0, g)
      <4> SUFFICES ASSUME NEW s \in SUBSET S, Cardinality(s) <= 0
                   PROVE  g[s] = IF s = {} THEN a ELSE F[c[s]][g[s \ {c[s]}]]
        OBVIOUS
      <4>1. Cardinality(s) = 0 BY <1>1
      <4>2. s = {} BY <1>1, <4>1, FS_EmptySet
      <4> QED BY <3>1, <4>2
    <3> QED BY <2>2, <3>2, <3>3
  <2>3. CASE k # 0
    <3>1. k \in Nat /\ k - 1 \in Nat /\ k - 1 \notin Bad
      <4>1. k \in Nat /\ k - 1 \in Nat BY <2>3
      <4>2. ~(k <= k - 1) BY <4>1
      <4> QED BY <2>1, <4>1, <4>2
    <3>2. PICK g \in [SUBSET S -> D] : UpTo(k - 1, g) BY <3>1
    <3>3. PICK h : h = [s \in SUBSET S |-> IF Cardinality(s) = k /\ s # {} THEN F[c[s]][g[s \ {c[s]}]] ELSE g[s]] OBVIOUS
    <3>4. \A s \in SUBSET S : s # {} => /\ c[s] \in S /\ s \ {c[s]} \in SUBSET S
                                        /\ Cardinality(s \ {c[s]}) = Cardinality(s) - 1
      BY <1>1, FS_RemoveElement
    <3>5. h \in [SUBSET S -> D]
      <4>1. ASSUME NEW s \in SUBSET S PROVE h[s] \in D
        <5>1. h[s] = IF Cardinality(s) = k /\ s # {} THEN F[c[s]][g[s \ {c[s]}]] ELSE g[s] BY <3>3
        <5>2. s # {} => F[c[s]][g[s \ {c[s]}]] \in D
          <6> SUFFICES ASSUME s # {} PROVE F[c[s]][g[s \ {c[s]}]] \in D OBVIOUS
          <6>1. F[c[s]] \in [D -> D] /\ g[s \ {c[s]}] \in D BY <3>4
          <6> QED BY <6>1
        <5> QED BY <5>1, <5>2
      <4> QED BY <3>3, <4>1
    <3>6. \A s \in SUBSET S : Cardinality(s) # k \/ s = {} => h[s] = g[s] BY <3>3
    <3>7. UpTo(k, h)
      <4> SUFFICES ASSUME NEW s \in SUBSET S, Cardinality(s) <= k
                   PROVE  h[s] = IF s = {} THEN a ELSE F[c[s]][h[s \ {c[s]}]]
        OBVIOUS
      <4>1. CASE s = {}
        <5>1. Cardinality(s) <= k - 1 BY <3>1, <4>1, FS_EmptySet
        <5>2. g[s] = a BY <3>2, <4>1, <5>1
        <5> QED BY <3>6, <4>1, <5>2
      <4>2. CASE s # {} /\ Cardinality(s) = k
        <5>1. h[s \ {c[s]}] = g[s \ {c[s]}] BY <1>1, <3>1, <3>4, <3>6, <4>2
        <5>2. h[s] = F[c[s]][g[s \ {c[s]}]] BY <3>3, <4>2
        <5> QED BY <4>2, <5>1, <5>2
      <4>3. CASE s # {} /\ Cardinality(s) # k
        <5>1. Cardinality(s) <= k - 1 BY <1>1, <3>1, <4>3
        <5>2. Cardinality(s \ {c[s]}) # k BY <1>1, <3>1, <3>4, <4>3, <5>1
        <5>3. h[s] = g[s] /\ h[s \ {c[s]}] = g[s \ {c[s]}] BY <3>4, <3>6, <4>3, <5>2
        <5>4. g[s] = F[c[s]][g[s \ {c[s]}]] BY <3>2, <4>3, <5>1
        <5> QED BY <4>3, <5>3, <5>4
      <4> QED BY <4>1, <4>2, <4>3
    <3> QED BY <3>5, <3>7
  <2> QED BY <2>2, <2>3
<1>3. PICK n : n = Cardinality(S) OBVIOUS
<1>4. n \in Nat /\ \A s \in SUBSET S : Cardinality(s) <= n BY <1>1, <1>3, FS_Subset
<1>5. PICK g \in [SUBSET S -> D] : UpTo(n, g) BY <1>2, <1>4
<1> QED BY <1>4, <1>5 DEF FoldsBy

-----------------------------------------------------------------------------
(* The CPA process.                                                         *)

\* The states of a process, and those of a request to the manager.
ProcStates == {"alive", "exited", "waited", "gone"}
JobPcs == {"free", "ensure", "installing", "check", "probe", "exec", "stop", "await", "rename",
           "replace", "replacing"}
JobSet == [pc : JobPcs, after : {"free", "ensure", "rename"}, waits : Nat,
           saved : Process!Files, was : BOOLEAN]

ProcessTypes ==
  /\ proc \in Seq(ProcStates) /\ started \subseteq DOMAIN proc
  /\ cmd = 0 \/ cmd \in started
  /\ exe \in Process!Files
  /\ job \in [Jobs -> JobSet]

\* The process a request waits for is one this run started, and only two places remember one.
JobSound(j) ==
  job[j].waits # 0 => job[j].pc \in {"await", "rename"} /\ job[j].waits \in started

ProcessInv ==
  /\ ProcessTypes /\ Process!AliveIsTracked /\ Process!ReplacedWhenStopped
  /\ \A j \in Jobs : JobSound(j)

\* It holds at the start, with CPA installed or not, running or not.
LEMMA ProcessInvInit == Process!Init => ProcessInv
<1> SUFFICES ASSUME Process!Init PROVE ProcessInv OBVIOUS
<1>1. proc \in Seq(ProcStates)
  <2>1. proc = <<>> \/ proc = <<"alive">> BY DEF Process!Init
  <2>2. "alive" \in ProcStates BY DEF ProcStates
  <2>3. <<>> \in Seq(ProcStates) /\ <<"alive">> \in Seq(ProcStates) BY <2>2
  <2> QED BY <2>1, <2>3
<1>2. exe \in Process!Files BY DEF Process!Init, Process!Files, Process!Whole
<1>3. Process!NoFile \in Process!Files BY DEF Process!NoFile, Process!Files, Process!Whole
<1>4. job \in [Jobs -> JobSet] BY <1>3 DEF Process!Init, Process!Free, JobSet, JobPcs
<1>5. ProcessTypes BY <1>1, <1>2, <1>4 DEF Process!Init, ProcessTypes
<1> QED BY <1>5 DEF Process!Init, Process!Free, ProcessInv, JobSound, Process!At,
                    Process!AliveIsTracked, Process!ReplacedWhenStopped

\* What a step of a request does to it: it goes on without remembering a process, or it keeps to
\* the one it remembers, or it remembers the one the manager has, or stops waiting for one that
\* is no longer the manager's.
JobMoves(j) ==
  /\ job' \in [Jobs -> JobSet]
  /\ \A i \in Jobs \ {j} : job'[i] = job[i]
  /\ \/ job'[j].waits = 0
     \/ job'[j].pc = "await" /\ job'[j].waits = cmd
     \/ job[j].pc = "await" /\ job'[j].pc = "rename" /\ job'[j].waits = job[j].waits /\ cmd # job[j].waits

\* The latest release is a file, whichever releases there are.
LEMMA LatestIsAFile == Process!Whole(Process!LatestRelease) \in Process!Files
<1>1. Process!LatestRelease \in Versions BY InstancesAllowed DEF Process!LatestRelease, Process!ProcessConstants
<1> QED BY <1>1 DEF Process!Whole, Process!Files

\* A step of a request that starts no process.
LEMMA JobKeeps ==
  ASSUME ProcessInv, NEW j \in Jobs, JobMoves(j), exe' \in Process!Files, UNCHANGED <<proc, cmd, started>>
  PROVE  ProcessInv'
<1>1. ProcessTypes' BY DEF ProcessInv, ProcessTypes, JobMoves
<1>2. Process!AliveIsTracked' BY DEF ProcessInv, Process!AliveIsTracked, Process!Alive
<1>3. ASSUME NEW i \in Jobs PROVE JobSound(i)'
  <2>1. CASE i # j BY <2>1 DEF ProcessInv, JobSound, JobMoves
  <2>2. CASE i = j
    <3>1. CASE job'[j].waits = 0 BY <3>1, <2>2 DEF JobSound
    <3>2. CASE job'[j].pc = "await" /\ job'[j].waits = cmd
      BY <3>2, <2>2 DEF JobSound, ProcessInv, ProcessTypes
    <3>3. CASE job[j].pc = "await" /\ job'[j].pc = "rename" /\ job'[j].waits = job[j].waits
      BY <3>3, <2>2 DEF JobSound, ProcessInv
    <3> QED BY <3>1, <3>2, <3>3 DEF JobMoves
  <2> QED BY <2>1, <2>2
<1>4. ASSUME NEW i \in Jobs, job'[i].pc = "rename", job'[i].waits # 0
      PROVE  proc'[job'[i].waits] # "alive"
  <2>1. CASE i # j
    BY <1>4, <2>1 DEF ProcessInv, JobMoves, Process!ReplacedWhenStopped, Process!At, Process!Alive
  <2>2. CASE i = j
    <3>1. job[j].pc = "await" /\ job'[j].waits = job[j].waits /\ cmd # job[j].waits
      BY <1>4, <2>2 DEF JobMoves
    <3>2. job[j].waits \in started BY <1>4, <2>2, <3>1 DEF ProcessInv, JobSound
    <3> QED BY <2>2, <3>1, <3>2 DEF ProcessInv, Process!AliveIsTracked, Process!Alive
  <2> QED BY <2>1, <2>2
<1>5. Process!ReplacedWhenStopped' BY <1>4 DEF Process!ReplacedWhenStopped, Process!At, Process!Alive
<1> QED BY <1>1, <1>2, <1>3, <1>5 DEF ProcessInv

\* A request that goes to another place, returns from Start or Stop, or fails.
LEMMA JobPlaces ==
  ASSUME ProcessInv, NEW j \in Jobs
  PROVE  /\ job[j].pc \notin {"await", "rename"} =>
              \A pc \in JobPcs \ {"rename"} : Process!Goto(j, pc) => JobMoves(j)
         /\ job[j].pc \notin {"await", "rename"} => (Process!Return(j) => JobMoves(j))
         /\ Process!Fail(j) => JobMoves(j)
<1>1. job \in [Jobs -> JobSet] /\ job[j] \in JobSet BY DEF ProcessInv, ProcessTypes
<1>2. job[j].pc \notin {"await", "rename"} => job[j].waits = 0 BY DEF ProcessInv, JobSound
<1>3. ASSUME job[j].pc \notin {"await", "rename"}, NEW pc \in JobPcs \ {"rename"}, Process!Goto(j, pc)
      PROVE  JobMoves(j)
  <2>1. job' = [job EXCEPT ![j].pc = pc] BY <1>3 DEF Process!Goto
  <2>2. job'[j] = [job[j] EXCEPT !.pc = pc] /\ \A i \in Jobs \ {j} : job'[i] = job[i] BY <1>1, <2>1
  <2>3. job'[j] \in JobSet /\ job'[j].waits = 0 BY <1>1, <1>2, <1>3, <2>2 DEF JobSet
  <2>4. job' \in [Jobs -> JobSet] BY <1>1, <2>1, <2>2, <2>3
  <2> QED BY <2>2, <2>3, <2>4 DEF JobMoves
<1>4. ASSUME job[j].pc \notin {"await", "rename"}, Process!Return(j) PROVE JobMoves(j)
  <2>1. PICK w : w = IF job[j].after = "rename" THEN job[j].waits ELSE 0 OBVIOUS
  <2>2. job' = [job EXCEPT ![j] = [job[j] EXCEPT !.pc = job[j].after, !.after = "free", !.waits = w]]
    BY <1>1, <1>4, <2>1 DEF Process!Return, JobSet
  <2>3. job'[j] = [job[j] EXCEPT !.pc = job[j].after, !.after = "free", !.waits = w]
        /\ \A i \in Jobs \ {j} : job'[i] = job[i] BY <1>1, <2>2
  <2>4. w = 0 BY <1>2, <1>4, <2>1
  <2>7. job'[j] = [pc |-> job[j].after, after |-> "free", waits |-> 0,
                   saved |-> job[j].saved, was |-> job[j].was]
    BY <1>1, <2>3, <2>4 DEF JobSet
  <2>8. job[j].after \in JobPcs /\ job[j].saved \in Process!Files /\ job[j].was \in BOOLEAN
    BY <1>1 DEF JobSet, JobPcs
  <2>5. job'[j] \in JobSet /\ job'[j].waits = 0 BY <2>7, <2>8 DEF JobSet
  <2>6. job' \in [Jobs -> JobSet] BY <1>1, <2>2, <2>3, <2>5
  <2> QED BY <2>3, <2>5, <2>6 DEF JobMoves
<1>5. ASSUME Process!Fail(j) PROVE JobMoves(j)
  <2>1. Process!NoFile \in Process!Files BY DEF Process!NoFile, Process!Files, Process!Whole
  <2>2. Process!Free \in JobSet /\ Process!Free.waits = 0
    BY <2>1 DEF Process!Free, JobSet, JobPcs
  <2> QED BY <1>1, <1>5, <2>2 DEF Process!Fail, JobMoves
<1> QED BY <1>3, <1>4, <1>5


\* Requests begin, and look before they start a process.
LEMMA LooksKeep ==
  ASSUME ProcessInv, NEW j \in Jobs,
         \/ Process!BeginStart(j) \/ Process!BeginStop(j) \/ Process!BeginRestart(j) \/ Process!BeginUpdate(j)
         \/ Process!EnsureInstalled(j) \/ Process!InstallRelease(j)
         \/ Process!CheckRunning(j) \/ Process!ProbePort(j) \/ Process!OpenExe(j)
  PROVE  ProcessInv'
<1>1. job \in [Jobs -> JobSet] /\ job[j] \in JobSet /\ exe \in Process!Files
  BY DEF ProcessInv, ProcessTypes
<1>2. job[j].pc \notin {"await", "rename"} => job[j].waits = 0 BY DEF ProcessInv, JobSound
<1>3. Process!Cut \in Process!Files /\ Process!NoFile \in Process!Files
  BY DEF Process!Cut, Process!NoFile, Process!Files, Process!Whole
<1>4. UNCHANGED <<proc, cmd, started>>
  BY DEF Process!BeginStart, Process!BeginStop, Process!BeginRestart, Process!BeginUpdate,
         Process!EnsureInstalled, Process!InstallRelease, Process!CheckRunning, Process!ProbePort,
         Process!OpenExe
<1> DEFINE From(pcs) == job[j].pc \in pcs
<1>5. CASE Process!BeginStart(j) \/ Process!BeginStop(j)
  <2>1. From({"free"}) /\ (Process!Goto(j, "ensure") \/ Process!Goto(j, "stop")) /\ exe' = exe
    BY <1>5 DEF Process!BeginStart, Process!BeginStop, Process!At
  <2>2. JobMoves(j) BY <2>1, JobPlaces DEF JobPcs
  <2> QED BY <1>1, <1>4, <2>1, <2>2, JobKeeps
<1>6. CASE Process!BeginRestart(j)
  <2>1. From({"free"}) /\ job' = [job EXCEPT ![j] = [job[j] EXCEPT !.pc = "stop", !.after = "ensure"]] /\ exe' = exe
    BY <1>1, <1>6 DEF Process!BeginRestart, Process!At
  <2>2. job'[j] = [job[j] EXCEPT !.pc = "stop", !.after = "ensure"] /\ \A i \in Jobs \ {j} : job'[i] = job[i]
    BY <1>1, <2>1
  <2>3. job'[j] \in JobSet /\ job'[j].waits = 0 BY <1>1, <1>2, <2>1, <2>2 DEF JobSet, JobPcs
  <2>4. job' \in [Jobs -> JobSet] BY <1>1, <2>1, <2>2, <2>3
  <2>5. JobMoves(j) BY <2>2, <2>3, <2>4 DEF JobMoves
  <2> QED BY <1>1, <1>4, <2>1, <2>5, JobKeeps
<1>7. CASE Process!BeginUpdate(j)
  <2>0. Process!IsRunning \in BOOLEAN /\ (Process!IsRunning \/ Process!PortAnswers) \in BOOLEAN
    BY DEF Process!IsRunning, Process!PortAnswers
  <2>1. PICK running \in {Process!IsRunning, Process!IsRunning \/ Process!PortAnswers} :
          job' = [job EXCEPT ![j].pc = "stop", ![j].after = "rename", ![j].was = running]
    BY <1>7 DEF Process!BeginUpdate
  <2>2. From({"free"}) /\ exe' = exe BY <1>7 DEF Process!BeginUpdate, Process!At
  <2>3. running \in BOOLEAN BY <2>0, <2>1
  <2>4. job' = [job EXCEPT ![j] = [job[j] EXCEPT !.pc = "stop", !.after = "rename", !.was = running]]
    BY <1>1, <2>1
  <2>5. job'[j] = [job[j] EXCEPT !.pc = "stop", !.after = "rename", !.was = running]
        /\ \A i \in Jobs \ {j} : job'[i] = job[i]
    BY <1>1, <2>4
  <2>6. job'[j] \in JobSet /\ job'[j].waits = 0 BY <1>1, <1>2, <2>2, <2>3, <2>5 DEF JobSet, JobPcs
  <2>7. job' \in [Jobs -> JobSet] BY <1>1, <2>4, <2>5, <2>6
  <2>8. JobMoves(j) BY <2>5, <2>6, <2>7 DEF JobMoves
  <2> QED BY <1>1, <1>4, <2>2, <2>8, JobKeeps
<1>8. CASE Process!EnsureInstalled(j)
  <2>1. /\ From({"ensure"}) /\ exe' \in {exe, Process!Cut}
        /\ Process!Goto(j, "check") \/ Process!Goto(j, "installing") \/ Process!Fail(j)
    BY <1>8 DEF Process!EnsureInstalled, Process!At
  <2>2. JobMoves(j) BY <2>1, JobPlaces DEF JobPcs
  <2> QED BY <1>1, <1>3, <1>4, <2>1, <2>2, JobKeeps
<1>9. CASE Process!InstallRelease(j)
  <2>1. /\ From({"installing"}) /\ exe' \in {exe, Process!Whole(Process!LatestRelease)}
        /\ Process!Goto(j, "check") \/ Process!Fail(j)
    BY <1>9 DEF Process!InstallRelease, Process!At
  <2>2. JobMoves(j) BY <2>1, JobPlaces DEF JobPcs
  <2> QED BY <1>1, <1>4, <2>1, <2>2, JobKeeps, LatestIsAFile
<1>10. CASE Process!CheckRunning(j) \/ Process!ProbePort(j)
  <2>1. /\ From({"check", "probe"}) /\ exe' = exe
        /\ Process!Goto(j, "probe") \/ Process!Goto(j, "exec") \/ Process!Return(j)
    BY <1>10 DEF Process!CheckRunning, Process!ProbePort, Process!At
  <2>2. JobMoves(j) BY <2>1, JobPlaces DEF JobPcs
  <2> QED BY <1>1, <1>4, <2>1, <2>2, JobKeeps
<1>11. CASE Process!OpenExe(j)
  <2>1. From({"replace"}) /\ exe' = Process!Cut /\ Process!Goto(j, "replacing")
    BY <1>11 DEF Process!OpenExe, Process!At
  <2>2. JobMoves(j) BY <2>1, JobPlaces DEF JobPcs
  <2> QED BY <1>3, <1>4, <2>1, <2>2, JobKeeps
<1> QED BY <1>5, <1>6, <1>7, <1>8, <1>9, <1>10, <1>11

\* The steps of an update, and a stop.
LEMMA UpdatesKeep ==
  ASSUME ProcessInv, NEW j \in Jobs,
         \/ Process!RenameExe(j) \/ Process!ReplaceExe(j) \/ Process!StopProcess(j) \/ Process!AwaitStopped(j)
  PROVE  ProcessInv'
<1>1. job \in [Jobs -> JobSet] /\ job[j] \in JobSet /\ exe \in Process!Files
  BY DEF ProcessInv, ProcessTypes
<1>2. job[j].pc \notin {"await", "rename"} => job[j].waits = 0 BY DEF ProcessInv, JobSound
<1>3. Process!NoFile \in Process!Files BY DEF Process!NoFile, Process!Files, Process!Whole
<1>4. UNCHANGED <<proc, cmd, started>>
  BY DEF Process!RenameExe, Process!ReplaceExe, Process!StopProcess, Process!AwaitStopped
<1>5. CASE Process!RenameExe(j)
  <2>1. CASE Process!Fail(j) /\ exe' = exe BY <1>1, <1>4, <2>1, JobPlaces, JobKeeps
  <2>2. CASE exe' = Process!NoFile
             /\ job' = [job EXCEPT ![j].pc = "replace", ![j].waits = 0, ![j].saved = exe]
    <3>1. job' = [job EXCEPT ![j] = [job[j] EXCEPT !.pc = "replace", !.waits = 0, !.saved = exe]]
      BY <1>1, <2>2
    <3>2. job'[j] = [job[j] EXCEPT !.pc = "replace", !.waits = 0, !.saved = exe]
          /\ \A i \in Jobs \ {j} : job'[i] = job[i]
      BY <1>1, <3>1
    <3>3. job'[j] = [pc |-> "replace", after |-> job[j].after, waits |-> 0, saved |-> exe, was |-> job[j].was]
      BY <1>1, <3>2 DEF JobSet
    <3>4. job[j].after \in {"free", "ensure", "rename"} /\ job[j].was \in BOOLEAN BY <1>1 DEF JobSet
    <3>5. job'[j] \in JobSet /\ job'[j].waits = 0 BY <1>1, <3>3, <3>4 DEF JobSet, JobPcs
    <3>6. job' \in [Jobs -> JobSet] BY <1>1, <3>1, <3>2, <3>5
    <3>7. JobMoves(j) BY <3>2, <3>5, <3>6 DEF JobMoves
    <3> QED BY <1>3, <1>4, <2>2, <3>7, JobKeeps
  <2> QED BY <1>5, <2>1, <2>2 DEF Process!RenameExe
<1>6. CASE Process!ReplaceExe(j)
  <2>1. PICK again : again = [Process!Free EXCEPT !.pc = "ensure"] OBVIOUS
  <2>2. \E next \in {Process!Free, again} : job' = [job EXCEPT ![j] = next]
    BY <1>6, <2>1 DEF Process!ReplaceExe
  <2>3. PICK next \in {Process!Free, again} : job' = [job EXCEPT ![j] = next] BY <2>2
  <2>0. again = [pc |-> "ensure", after |-> "free", waits |-> 0, saved |-> Process!NoFile, was |-> FALSE]
    BY <2>1 DEF Process!Free
  <2>4. next \in JobSet /\ next.waits = 0
    <3>1. CASE next = again BY <1>3, <2>0, <3>1 DEF JobSet, JobPcs
    <3>2. CASE next = Process!Free BY <1>3, <3>2 DEF Process!Free, JobSet, JobPcs
    <3> QED BY <2>3, <3>1, <3>2
  <2>5. JobMoves(j) BY <1>1, <2>3, <2>4 DEF JobMoves
  <2>6. exe' \in {Process!Whole(Process!LatestRelease), job[j].saved} BY <1>6 DEF Process!ReplaceExe
  <2>7. job[j].saved \in Process!Files BY <1>1 DEF JobSet
  <2> QED BY <1>4, <2>5, <2>6, <2>7, JobKeeps, LatestIsAFile
<1>7. CASE Process!StopProcess(j)
  <2>1. job[j].pc = "stop" /\ exe' = exe BY <1>7 DEF Process!StopProcess, Process!At
  <2>2. CASE Process!Return(j) BY <1>1, <1>4, <2>1, <2>2, JobPlaces, JobKeeps
  <2>3. CASE job' = [job EXCEPT ![j].pc = "await", ![j].waits = cmd]
    <3>1. job' = [job EXCEPT ![j] = [job[j] EXCEPT !.pc = "await", !.waits = cmd]] BY <1>1, <2>3
    <3>2. job'[j] = [job[j] EXCEPT !.pc = "await", !.waits = cmd] /\ \A i \in Jobs \ {j} : job'[i] = job[i]
      BY <1>1, <3>1
    <3>3. cmd \in Nat BY DEF ProcessInv, ProcessTypes
    <3>4. job'[j] \in JobSet /\ job'[j].waits = cmd /\ job'[j].pc = "await"
      BY <1>1, <3>2, <3>3 DEF JobSet, JobPcs
    <3>5. job' \in [Jobs -> JobSet] BY <1>1, <3>1, <3>2, <3>4
    <3>6. JobMoves(j) BY <3>2, <3>4, <3>5 DEF JobMoves
    <3> QED BY <1>1, <1>4, <2>1, <3>6, JobKeeps
  <2> QED BY <1>7, <2>2, <2>3 DEF Process!StopProcess
<1>8. CASE Process!AwaitStopped(j)
  <2>1. job[j].pc = "await" /\ exe' = exe BY <1>8 DEF Process!AwaitStopped, Process!At
  <2>2. CASE Process!Fail(j) BY <1>1, <1>4, <2>1, <2>2, JobPlaces, JobKeeps
  <2>3. CASE cmd # job[j].waits /\ Process!Return(j)
    <3>1. PICK w : w = IF job[j].after = "rename" THEN job[j].waits ELSE 0 OBVIOUS
    <3>2. job' = [job EXCEPT ![j] = [job[j] EXCEPT !.pc = job[j].after, !.after = "free", !.waits = w]]
      BY <1>1, <2>3, <3>1 DEF Process!Return, JobSet
    <3>3. job'[j] = [job[j] EXCEPT !.pc = job[j].after, !.after = "free", !.waits = w]
          /\ \A i \in Jobs \ {j} : job'[i] = job[i]
      BY <1>1, <3>2
    <3>4. job'[j] = [pc |-> job[j].after, after |-> "free", waits |-> w,
                     saved |-> job[j].saved, was |-> job[j].was]
      BY <1>1, <3>3 DEF JobSet
    <3>5. /\ job[j].after \in JobPcs /\ job[j].saved \in Process!Files /\ job[j].was \in BOOLEAN
          /\ job[j].waits \in Nat
      BY <1>1 DEF JobSet, JobPcs
    <3>6. w \in Nat BY <3>1, <3>5
    <3>7. job'[j] \in JobSet /\ job'[j].waits = w /\ job'[j].pc = job[j].after BY <3>4, <3>5, <3>6 DEF JobSet
    <3>8. job' \in [Jobs -> JobSet] BY <1>1, <3>2, <3>3, <3>7
    <3>9. JobMoves(j) BY <2>1, <2>3, <3>1, <3>3, <3>7, <3>8 DEF JobMoves
    <3> QED BY <1>1, <1>4, <2>1, <3>9, JobKeeps
  <2> QED BY <1>8, <2>2, <2>3 DEF Process!AwaitStopped
<1> QED BY <1>5, <1>6, <1>7, <1>8

\* A process is started when the manager has none.
LEMMA StartKeeps == ASSUME ProcessInv, NEW j \in Jobs, Process!StartProcess(j) PROVE ProcessInv'
<1>1. job[j].pc = "exec" /\ exe' = exe BY DEF Process!StartProcess, Process!At
<1>2. exe \in Process!Files BY DEF ProcessInv, ProcessTypes
<1>3. CASE UNCHANGED <<proc, cmd, started>> /\ (Process!Return(j) \/ Process!Fail(j))
  BY <1>1, <1>2, <1>3, JobPlaces, JobKeeps
<1>4. CASE ~Process!IsRunning /\ proc' = Append(proc, "alive") /\ cmd' = Len(proc) + 1
           /\ started' = started \union {Len(proc) + 1} /\ Process!Return(j)
  <2>1. JobMoves(j) /\ job[j].waits = 0 BY <1>1, <1>4, JobPlaces DEF ProcessInv, JobSound
  <2>2. proc \in Seq(ProcStates) /\ "alive" \in ProcStates BY DEF ProcessInv, ProcessTypes, ProcStates
  <2>3. /\ proc' \in Seq(ProcStates) /\ DOMAIN proc' = 1..(Len(proc) + 1)
        /\ \A p \in DOMAIN proc : proc'[p] = proc[p]
    BY <1>4, <2>2, AppendProperties
  <2>4. DOMAIN proc = 1..Len(proc) /\ Len(proc) \in Nat BY <2>2, LenProperties
  <2>5. started' \subseteq DOMAIN proc' /\ cmd' \in started'
    BY <1>4, <2>3, <2>4 DEF ProcessInv, ProcessTypes
  <2>6. ProcessTypes' BY <1>1, <1>2, <2>1, <2>3, <2>5 DEF ProcessTypes, JobMoves
  <2>7. \A p \in started : proc[p] # "alive"
    BY <1>4 DEF ProcessInv, ProcessTypes, Process!AliveIsTracked, Process!Alive, Process!IsRunning
  <2>8. started \subseteq DOMAIN proc BY DEF ProcessInv, ProcessTypes
  <2>9. \A p \in started : proc'[p] # "alive" BY <2>3, <2>7, <2>8
  <2>10. Process!AliveIsTracked' BY <1>4, <2>9 DEF Process!AliveIsTracked, Process!Alive
  <2>11. ASSUME NEW i \in Jobs PROVE JobSound(i)' /\ (job'[i].pc = "rename" /\ job'[i].waits # 0 => proc'[job'[i].waits] # "alive")
    <3>1. CASE i = j
      <4>1. job'[j].waits = 0
        <5>1. job'[j].waits = job[j].waits \/ job'[j].waits = 0
          <6>1. job \in [Jobs -> JobSet] /\ job[j] \in JobSet BY DEF ProcessInv, ProcessTypes
          <6> QED BY <1>4, <6>1 DEF Process!Return, JobSet
        <5> QED BY <2>1, <5>1
      <4> QED BY <3>1, <4>1 DEF JobSound
    <3>2. CASE i # j
      <4>1. job'[i] = job[i] BY <2>1, <3>2 DEF JobMoves
      <4>2. JobSound(i) BY DEF ProcessInv
      <4>3. job[i].waits # 0 => job[i].waits \in started BY <4>2 DEF JobSound
      <4> QED BY <1>4, <2>9, <4>1, <4>2, <4>3 DEF JobSound
    <3> QED BY <3>1, <3>2
  <2>12. Process!ReplacedWhenStopped' BY <2>11 DEF Process!ReplacedWhenStopped, Process!At, Process!Alive
  <2> QED BY <2>6, <2>10, <2>11, <2>12 DEF ProcessInv
<1> QED BY <1>3, <1>4 DEF Process!StartProcess, Process!Exec

\* Processes end, are waited for and forgotten; the program is started again.
LEMMA EndsKeep ==
  ASSUME ProcessInv,
         Process!Restart \/ \E p \in DOMAIN proc : Process!Exit(p) \/ Process!WaitReturns(p) \/ Process!ClearCmd(p)
  PROVE  ProcessInv'
<1>1. proc \in Seq(ProcStates) /\ started \subseteq DOMAIN proc /\ job \in [Jobs -> JobSet]
  BY DEF ProcessInv, ProcessTypes
<1>2. CASE Process!Restart
  <2>1. cmd' = 0 /\ started' = {} /\ job' = [j \in Jobs |-> Process!Free] /\ exe' = exe
        /\ proc' = [p \in DOMAIN proc |-> IF Process!Alive(p) THEN "alive" ELSE "gone"]
    BY <1>2 DEF Process!Restart
  <2>2. DOMAIN proc = 1..Len(proc) /\ Len(proc) \in Nat BY <1>1, LenProperties
  <2>3. \A p \in 1..Len(proc) : (IF Process!Alive(p) THEN "alive" ELSE "gone") \in ProcStates BY DEF ProcStates
  <2>4. proc' \in [1..Len(proc) -> ProcStates] BY <2>1, <2>2, <2>3
  <2>5. proc' \in Seq(ProcStates) BY <2>2, <2>4
  <2>6. Process!Free \in JobSet
    BY DEF Process!Free, JobSet, JobPcs, Process!NoFile, Process!Files, Process!Whole
  <2>7. ProcessTypes' BY <2>1, <2>5, <2>6 DEF ProcessInv, ProcessTypes
  <2>8. \A j \in Jobs : job'[j] = Process!Free BY <2>1
  <2>9. Process!AliveIsTracked' BY <2>1 DEF Process!AliveIsTracked
  <2>10. Process!ReplacedWhenStopped' BY <2>8 DEF Process!ReplacedWhenStopped, Process!At, Process!Free
  <2> QED BY <2>7, <2>8, <2>9, <2>10 DEF ProcessInv, JobSound, Process!Free
<1>3. ASSUME NEW p \in DOMAIN proc, Process!Exit(p) \/ Process!WaitReturns(p) \/ Process!ClearCmd(p)
      PROVE  ProcessInv'
  <2>1. \E s \in {"exited", "waited", "gone"} : proc' = [proc EXCEPT ![p] = s]
    BY <1>3 DEF Process!Exit, Process!WaitReturns, Process!ClearCmd
  <2>2. PICK s \in {"exited", "waited", "gone"} : proc' = [proc EXCEPT ![p] = s] BY <2>1
  <2>3. UNCHANGED <<exe, job, started>>
    BY <1>3 DEF Process!Exit, Process!WaitReturns, Process!ClearCmd
  <2>4. cmd' = cmd \/ (cmd' = 0 /\ cmd = p /\ proc[p] = "waited")
    BY <1>3 DEF Process!Exit, Process!WaitReturns, Process!ClearCmd
  <2>5. s \in ProcStates BY DEF ProcStates
  <2>6. proc' \in Seq(ProcStates) /\ DOMAIN proc' = DOMAIN proc BY <1>1, <1>3, <2>2, <2>5, ExceptSeq
  <2>7. \A q \in DOMAIN proc : proc'[q] = "alive" => proc[q] = "alive" BY <1>3, <2>2
  <2>8. ProcessTypes' BY <2>3, <2>4, <2>6 DEF ProcessInv, ProcessTypes
  <2>9. Process!AliveIsTracked'
    BY <1>1, <2>3, <2>4, <2>7 DEF ProcessInv, Process!AliveIsTracked, Process!Alive
  <2>10. \A j \in Jobs : JobSound(j)' BY <2>3 DEF ProcessInv, JobSound
  <2>11. Process!ReplacedWhenStopped'
    <3> SUFFICES ASSUME NEW j \in Jobs, job[j].pc = "rename", job[j].waits # 0
                 PROVE  proc'[job[j].waits] # "alive"
      BY <2>3 DEF Process!ReplacedWhenStopped, Process!At, Process!Alive
    <3>1. job[j].waits \in started BY DEF ProcessInv, JobSound
    <3>2. proc[job[j].waits] # "alive"
      BY DEF ProcessInv, Process!ReplacedWhenStopped, Process!At, Process!Alive
    <3> QED BY <1>1, <2>7, <3>1, <3>2
  <2> QED BY <2>8, <2>9, <2>10, <2>11 DEF ProcessInv
<1> QED BY <1>2, <1>3

\* Every step of the manager, of its processes and of the program keeps it.
LEMMA ProcessStepKeeps == ASSUME ProcessInv, Process!Next PROVE ProcessInv'
<1>1. CASE Process!Restart \/ \E p \in DOMAIN proc : Process!Exit(p) \/ Process!WaitReturns(p) \/ Process!ClearCmd(p)
  BY <1>1, EndsKeep
<1>2. ASSUME NEW j \in Jobs,
             \/ Process!BeginStart(j) \/ Process!BeginStop(j) \/ Process!BeginRestart(j) \/ Process!BeginUpdate(j)
             \/ Process!EnsureInstalled(j) \/ Process!InstallRelease(j)
             \/ Process!CheckRunning(j) \/ Process!ProbePort(j) \/ Process!OpenExe(j)
      PROVE  ProcessInv'
  BY <1>2, LooksKeep
<1>3. ASSUME NEW j \in Jobs,
             \/ Process!RenameExe(j) \/ Process!ReplaceExe(j) \/ Process!StopProcess(j) \/ Process!AwaitStopped(j)
      PROVE  ProcessInv'
  BY <1>3, UpdatesKeep
<1>4. ASSUME NEW j \in Jobs, Process!StartProcess(j) PROVE ProcessInv' BY <1>4, StartKeeps
<1> QED BY <1>1, <1>2, <1>3, <1>4 DEF Process!Next

\* So does a step of another part.
LEMMA ProcessStutters == ASSUME ProcessInv, UNCHANGED processVars PROVE ProcessInv'
BY DEF processVars, ProcessInv, ProcessTypes, JobSound, Process!AliveIsTracked, Process!Alive,
       Process!ReplacedWhenStopped, Process!At

-----------------------------------------------------------------------------
(* The backups.                                                             *)

\* What is assumed of days and intervals.
LEMMA BackupDays ==
  /\ Day \in Nat /\ Day > 0 /\ Four \in Nat /\ RetentionDays \in Nat /\ RetryDelay \in Nat
  /\ Intervals \subseteq Nat
BY InstancesAllowed DEF Backups!BackupConstants

\* Days come in the order of their times, and so do their 04:00.
LEMMA DaysInOrder ==
  ASSUME NEW s \in Nat, NEW t \in Nat, s <= t
  PROVE  /\ Backups!DayOf(s) \in Nat /\ Backups!DayOf(t) \in Nat /\ Backups!DayOf(s) <= Backups!DayOf(t)
         /\ Backups!FourOf(s) \in Nat /\ Backups!FourOf(t) \in Nat /\ Backups!FourOf(s) <= Backups!FourOf(t)
<1>1. PICK d : d = Day OBVIOUS
<1>2. d \in Nat /\ d > 0 BY <1>1, BackupDays
<1>3. PICK a \in Nat : a = s \div d BY <1>2
<1>4. PICK b \in Nat : b = t \div d BY <1>2
<1>5. s = d * a + (s % d) /\ s % d \in 0..(d - 1) BY <1>2, <1>3
<1>6. t = d * b + (t % d) /\ t % d \in 0..(d - 1) BY <1>2, <1>4
<1>7. a <= b
  <2>1. SUFFICES ASSUME b + 1 <= a PROVE FALSE BY <1>3, <1>4
  <2>2. d * (b + 1) <= d * a BY <1>2, <2>1
  <2>3. d * (b + 1) = d * b + d BY <1>2
  <2>4. d * a \in Nat /\ d * b \in Nat BY <1>2
  <2> QED BY <1>2, <1>5, <1>6, <2>2, <2>3, <2>4
<1>8. a * d <= b * d /\ a * d \in Nat /\ b * d \in Nat BY <1>2, <1>7
<1> QED BY <1>1, <1>3, <1>4, <1>7, <1>8, BackupDays DEF Backups!DayOf, Backups!FourOf

\* The newest of backups that are all made by now was made by now.
LEMMA NewestByNow ==
  ASSUME NEW t \in Nat, NEW S, S \subseteq 0..t, S # {}
  PROVE  Backups!Max(S) \in S
<1>1. PICK left : left = {t - s : s \in S} OBVIOUS
<1>2. left \subseteq Nat /\ left # {}
  <2>1. \A s \in S : s \in 0..t /\ t - s \in Nat OBVIOUS
  <2> QED BY <1>1, <2>1
<1>3. \E m \in left : \A n \in left : ~ (<<n, m>> \in OpToRel(<, Nat))
  BY <1>2, NatLessThanWellFounded, WFMin, Zenon
<1>4. PICK m \in left : \A n \in left : ~ (<<n, m>> \in OpToRel(<, Nat)) BY <1>3
<1>5. \A n \in left : ~(n < m) BY <1>2, <1>4, Zenon DEF OpToRel
<1>6. PICK s \in S : m = t - s BY <1>1
<1>7. \A r \in S : s >= r
  <2> SUFFICES ASSUME NEW r \in S PROVE s >= r OBVIOUS
  <2>1. t - r \in left BY <1>1
  <2>2. ~(t - r < t - s) BY <1>5, <1>6, <2>1
  <2> QED BY <2>2
<1> QED BY <1>7 DEF Backups!Max

BackupTypes ==
  /\ now \in Nat /\ interval \in Intervals /\ files \subseteq 0..now /\ last \in 0..now
  /\ asleep \in 0..now /\ wake \in Nat /\ pending \in BOOLEAN

BackupInv == BackupTypes /\ Backups!SleepsAnInterval

\* When the task goes to sleep, it is for an interval at most.
LEMMA SleepsWell ==
  ASSUME NEW t \in Nat, NEW kept, NEW memory, kept \subseteq 0..t, memory \in 0..t, interval \in Intervals,
         NEW newest \in Backups!Newest(kept, memory), NEW retry \in BOOLEAN, NEW w,
         w = Backups!NextWake(t, retry, newest)
  PROVE  /\ w \in Nat
         /\ w <= Backups!Later(t + Backups!Later(RetryDelay, interval), Backups!FourOf(t) + interval)
<1>1. interval \in Nat /\ RetryDelay \in Nat /\ Day \in Nat /\ Day > 0 BY BackupDays
<1>2. newest \in 0..t
  <2>1. kept \union {memory} \subseteq 0..t /\ kept \union {memory} # {} OBVIOUS
  <2>2. Backups!Max(kept \union {memory}) \in kept \union {memory} BY <2>1, NewestByNow
  <2> QED BY <2>1, <2>2 DEF Backups!Newest
<1>3. PICK f : f = Backups!FourOf(t) OBVIOUS
<1>4. PICK g : g = Backups!FourOf(newest) OBVIOUS
<1>5. f \in Nat /\ g \in Nat /\ g <= f BY <1>2, <1>3, <1>4, DaysInOrder
<1>6. CASE retry
  BY <1>1, <1>3, <1>5, <1>6 DEF Backups!NextWake, Backups!Later
<1>7. CASE ~retry /\ interval >= Day /\ interval % Day = 0
  <2>1. w = Backups!NextDaily(t, newest) BY <1>7 DEF Backups!NextWake
  <2>2. w \in {f, f + Day, g + interval} BY <2>1, <1>3, <1>4 DEF Backups!NextDaily
  <2>3. w \in Nat /\ w <= f + interval BY <1>1, <1>5, <1>7, <2>2
  <2> QED BY <1>1, <1>3, <1>5, <2>3 DEF Backups!Later
<1>8. CASE ~retry /\ ~(interval >= Day /\ interval % Day = 0)
  <2>1. w = t \/ w = Backups!Later(t, newest + interval) BY <1>8 DEF Backups!NextWake
  <2>2. w \in Nat /\ w <= t + interval BY <1>1, <1>2, <2>1 DEF Backups!Later
  <2> QED BY <1>1, <1>3, <1>5, <2>2 DEF Backups!Later
<1> QED BY <1>6, <1>7, <1>8

\* It holds when the task starts.
LEMMA BackupInvInit == Backups!Init => BackupInv
<1> SUFFICES ASSUME Backups!Init PROVE BackupInv OBVIOUS
<1>1. now \in Nat /\ now > 0 /\ interval \in Intervals /\ files \subseteq 0..now /\ last = 0
      /\ asleep = now /\ pending = FALSE
  <2>1. Day \in Nat /\ Day > 0 /\ now \in Day..(2 * Day) BY BackupDays DEF Backups!Init
  <2>2. now \in Nat /\ now > 0 BY <2>1
  <2> QED BY <2>2 DEF Backups!Init, Backups!Never
<1>2. PICK newest \in Backups!Newest(files, last) : wake = Backups!NextWake(now, FALSE, newest)
  BY DEF Backups!Init
<1>3. /\ wake \in Nat
      /\ wake <= Backups!Later(now + Backups!Later(RetryDelay, interval), Backups!FourOf(now) + interval)
  <2>1. FALSE \in BOOLEAN /\ last \in 0..now BY <1>1
  <2> QED BY <1>1, <1>2, <2>1, SleepsWell
<1>4. Backups!SleepsAnInterval BY <1>1, <1>3 DEF Backups!SleepsAnInterval
<1>5. last \in 0..now /\ asleep \in 0..now BY <1>1
<1>6. pending \in BOOLEAN BY <1>1, Zenon
<1> QED BY <1>1, <1>3, <1>4, <1>5, <1>6 DEF BackupInv, BackupTypes

\* Going to sleep again keeps to it.
LEMMA SleepKeeps ==
  ASSUME BackupInv, Backups!Sleep, now' = now, interval' = interval,
         files' \subseteq 0..now, last' \in 0..now, pending' \in BOOLEAN
  PROVE  BackupInv'
<1>1. now \in Nat /\ interval \in Intervals BY DEF BackupInv, BackupTypes
<1>2. PICK newest \in Backups!Newest(files', last') : wake' = Backups!NextWake(now, pending', newest)
  BY DEF Backups!Sleep
<1>3. /\ wake' \in Nat
      /\ wake' <= Backups!Later(now + Backups!Later(RetryDelay, interval), Backups!FourOf(now) + interval)
  BY <1>1, <1>2, SleepsWell
<1>4. asleep' = now BY DEF Backups!Sleep
<1>5. Backups!SleepsAnInterval'
  BY <1>3, <1>4 DEF Backups!SleepsAnInterval, Backups!Later, Backups!FourOf, Backups!DayOf
<1> QED BY <1>1, <1>3, <1>4, <1>5 DEF BackupInv, BackupTypes

\* Every step keeps it and removes only backups whose days are over.
LEMMA BackupStepKeeps ==
  ASSUME BackupInv, Backups!Next
  PROVE  BackupInv' /\ Backups!RemovesOnlyOld
<1>1. now \in Nat /\ files \subseteq 0..now /\ last \in 0..now /\ RetentionDays \in Nat
  BY BackupDays DEF BackupInv, BackupTypes
<1>2. CASE Backups!Tick
  <2>1. now' = now + 1 /\ UNCHANGED <<interval, files, last, pending, asleep, wake>>
    BY <1>2 DEF Backups!Tick
  <2>2. BackupTypes' BY <1>1, <2>1 DEF BackupInv, BackupTypes
  <2>3. Backups!SleepsAnInterval'
    BY <2>1 DEF BackupInv, Backups!SleepsAnInterval, Backups!Later, Backups!FourOf, Backups!DayOf
  <2> QED BY <2>1, <2>2, <2>3 DEF BackupInv, Backups!RemovesOnlyOld
<1>3. CASE Backups!Restart
  <2>1. now' = now /\ interval' = interval /\ files' = files /\ last' = 0 /\ pending' = FALSE /\ Backups!Sleep
    BY <1>3 DEF Backups!Restart, Backups!Never
  <2>2. files' \subseteq 0..now /\ last' \in 0..now BY <1>1, <2>1
  <2>3. pending' \in BOOLEAN BY <2>1, Zenon
  <2>4. BackupInv' BY <2>1, <2>2, <2>3, SleepKeeps
  <2> QED BY <2>1, <2>4 DEF Backups!RemovesOnlyOld
<1>4. CASE Backups!Backup
  <2>1. now' = now /\ interval' = interval /\ Backups!Sleep BY <1>4 DEF Backups!Backup
  <2>2. \E all \in {files, files \union {now}} : files' \in Backups!Cleaned(now, all)
    BY <1>4 DEF Backups!Backup
  <2>3. PICK all \in {files, files \union {now}} : files' \in Backups!Cleaned(now, all) BY <2>2
  <2>4. last' \in {last, now} /\ pending' \in BOOLEAN
    <3>1. last' \in {last, now} /\ (pending' = FALSE \/ pending' = (attempts' <= 3))
      BY <1>4 DEF Backups!Backup
    <3>2. (attempts' <= 3) \in BOOLEAN OBVIOUS
    <3> QED BY <3>1, <3>2, Zenon
  <2>5. /\ files' \subseteq all
        /\ \A f \in all \ files' : ~(RetentionDays = 0 \/ Backups!DayOf(f) + RetentionDays > Backups!DayOf(now))
    BY <2>3 DEF Backups!Cleaned, Backups!Kept
  <2>6. BackupInv' BY <1>1, <2>1, <2>3, <2>4, <2>5, SleepKeeps
  <2>7. ASSUME NEW f \in files \ files'
        PROVE  RetentionDays > 0 /\ Backups!DayOf(f) + RetentionDays <= Backups!DayOf(now)
    <3>1. f \in Nat /\ f <= now BY <1>1
    <3>2. Backups!DayOf(f) \in Nat /\ Backups!DayOf(now) \in Nat BY <1>1, <3>1, DaysInOrder
    <3>3. f \in all \ files' BY <2>3
    <3> QED BY <1>1, <2>5, <3>2, <3>3
  <2> QED BY <2>6, <2>7 DEF Backups!RemovesOnlyOld
<1> QED BY <1>2, <1>3, <1>4 DEF Backups!Next

\* A step of another part does neither harm.
LEMMA BackupStutters ==
  ASSUME BackupInv, UNCHANGED backupVars, UNCHANGED now PROVE BackupInv' /\ Backups!RemovesOnlyOld
BY DEF backupVars, BackupInv, BackupTypes, Backups!SleepsAnInterval, Backups!Later, Backups!FourOf,
       Backups!DayOf, Backups!RemovesOnlyOld

-----------------------------------------------------------------------------
(* The proxies.                                                             *)

\* The results in the channel are those of the goroutines that have sent.
ProbeInv == asked \in [Targets -> {"none", "asked", "answered", "sent"}] /\ results = {t \in Targets : asked[t] = "sent"}

\* It holds before any test.
LEMMA ProbeInvInit == Proxies!Init => ProbeInv
BY DEF Proxies!Init, ProbeInv

\* A test begins and ends with an empty channel, and each goroutine puts one result into it.
LEMMA ProbeStepKeeps == ProbeInv /\ Proxies!Next => ProbeInv'
<1> SUFFICES ASSUME ProbeInv, Proxies!Next PROVE ProbeInv' OBVIOUS
<1>1. CASE UNCHANGED <<asked, results>> BY <1>1 DEF ProbeInv
<1>2. CASE Proxies!CreateProxyPool \/ Proxies!UpdateProxyPool \/ Proxies!DeleteProxyPool \/ Proxies!Rebound \/ Proxies!GiveUp
  BY <1>1, <1>2 DEF Proxies!CreateProxyPool, Proxies!UpdateProxyPool, Proxies!DeleteProxyPool, Proxies!Rebound,
     Proxies!GiveUp, Proxies!Edit
<1>3. CASE Proxies!TestProxyPool \/ Proxies!AllSent
  <2>1. results' = {} /\ (asked' = [t \in Targets |-> "asked"] \/ asked' = [t \in Targets |-> "none"])
    BY <1>3 DEF Proxies!TestProxyPool, Proxies!AllSent
  <2> QED BY <2>1 DEF ProbeInv
<1>4. ASSUME NEW t \in Targets, Proxies!ProbeEnds(t) PROVE ProbeInv' BY <1>4 DEF Proxies!ProbeEnds, ProbeInv
<1>5. ASSUME NEW t \in Targets, Proxies!SendResult(t) PROVE ProbeInv' BY <1>5 DEF Proxies!SendResult, ProbeInv
<1> QED BY <1>2, <1>3, <1>4, <1>5 DEF Proxies!Next

\* A step of another part keeps it.
LEMMA ProbeStutters == ProbeInv /\ UNCHANGED <<asked, results>> => ProbeInv'
BY DEF ProbeInv

\* While one has a result to send there are fewer results than targets.
LEMMA ProbeSafe == ProbeInv => Proxies!ProbesNeverStuck
<1> SUFFICES ASSUME ProbeInv, NEW t \in Targets, asked[t] = "answered"
             PROVE  Proxies!Cardinality(results) < Proxies!Room
  BY DEF Proxies!ProbesNeverStuck
<1>1. results \subseteq Targets /\ t \notin results BY DEF ProbeInv
<1>2. IsFiniteSet(Targets) BY InstancesAllowed DEF Proxies!ProxyConstants, Proxies!IsFiniteSet, IsFiniteSet
<1>3. IsFiniteSet(results) /\ Cardinality(results) \in Nat /\ Cardinality(Targets) \in Nat /\ Cardinality(results) <= Cardinality(Targets)
      /\ (Cardinality(results) = Cardinality(Targets) => results = Targets)
  BY <1>1, <1>2, FS_Subset, FS_CardinalityType
<1>4. Cardinality(results) < Cardinality(Targets) BY <1>1, <1>3
<1> QED BY <1>4 DEF Proxies!Room, Proxies!Cardinality, Cardinality

\* A sum over a set, element by element.
Some(s) == CHOOSE x \in s : TRUE
Adds(f, S, g) == g = [s \in SUBSET S |-> IF s = {} THEN 0 ELSE f[Some(s)] + g[s \ {Some(s)}]]

\* What the fold computes is such a sum.
LEMMA FoldAdds ==
  ASSUME NEW S, NEW f, NEW g, Adds(f, S, g)
  PROVE  \E h : Adds(f, S, h) /\ Proxies!FoldFunctionOnSet(+, 0, f, S) = h[S]
<1> DEFINE h == CHOOSE h : h = [s \in SUBSET S |->
     IF s = {} THEN 0 ELSE f[CHOOSE x \in s : TRUE] + h[s \ {CHOOSE x \in s : TRUE}]]
<1>1. Adds(f, S, h) BY Zenon DEF Adds, Some
<1>2. Proxies!FoldFunctionOnSet(+, 0, f, S) = h[S] BY Zenon DEF Proxies!FoldFunctionOnSet, Proxies!MapThenFoldSet
<1> QED BY <1>1, <1>2

\* The sum is the one function that adds so.
LEMMA FoldIs ==
  ASSUME NEW S, IsFiniteSet(S), NEW f, NEW g, Adds(f, S, g)
  PROVE  Proxies!FoldFunctionOnSet(+, 0, f, S) = g[S]
<1>1. PICK h : Adds(f, S, h) /\ Proxies!FoldFunctionOnSet(+, 0, f, S) = h[S] BY FoldAdds
<1> SUFFICES ASSUME g[S] # h[S] PROVE FALSE BY <1>1
<1> DEFINE Bad == {s \in SUBSET S : g[s] # h[s]}
           Sizes == {Cardinality(s) : s \in Bad}
<1>2. \A s \in SUBSET S : IsFiniteSet(s) /\ Cardinality(s) \in Nat BY FS_Subset, FS_CardinalityType
<1>3. Sizes \subseteq Nat /\ Sizes # {} BY <1>2
<1>4. PICK k \in Sizes : \A j \in Sizes : k <= j BY <1>3, LeastOf
<1>5. PICK s \in Bad : Cardinality(s) = k OBVIOUS
<1>6. /\ g[s] = IF s = {} THEN 0 ELSE f[Some(s)] + g[s \ {Some(s)}]
      /\ h[s] = IF s = {} THEN 0 ELSE f[Some(s)] + h[s \ {Some(s)}]
  <2>1. g = [t \in SUBSET S |-> IF t = {} THEN 0 ELSE f[Some(t)] + g[t \ {Some(t)}]] BY DEF Adds
  <2>2. h = [t \in SUBSET S |-> IF t = {} THEN 0 ELSE f[Some(t)] + h[t \ {Some(t)}]] BY <1>1 DEF Adds
  <2> QED BY <2>1, <2>2, Zenon
<1>7. s # {} BY <1>5, <1>6
<1>8. Some(s) \in s BY <1>7 DEF Some
<1>9. PICK t : t = s \ {Some(s)} OBVIOUS
<1>10. t \in SUBSET S /\ Cardinality(t) = k - 1 BY <1>2, <1>5, <1>8, <1>9, FS_RemoveElement
<1>11. t \notin Bad
  <2> SUFFICES ASSUME t \in Bad PROVE FALSE OBVIOUS
  <2>1. Cardinality(t) \in Sizes OBVIOUS
  <2> QED BY <1>3, <1>4, <1>10, <2>1
<1>12. g[t] = h[t] BY <1>10, <1>11
<1> QED BY <1>5, <1>6, <1>9, <1>12

\* The files shown by a row: those bound to its address, unless a later row has it too.
ShownBy(n) == {f \in AuthFiles : bound[f] = pools[n] /\ ~\E m \in Proxies!Rows : m > n /\ pools[m] = pools[n]}
ShownByAny(s) == {f \in AuthFiles : \E n \in s : f \in ShownBy(n)}

\* The count of a row is of the files it shows.
LEMMA CountIs == \A n \in Proxies!Rows : Proxies!BoundAuthFileCount(n) = Cardinality(ShownBy(n))
<1> SUFFICES ASSUME NEW n \in Proxies!Rows PROVE Proxies!BoundAuthFileCount(n) = Cardinality(ShownBy(n)) OBVIOUS
<1>1. CASE \E m \in Proxies!Rows : m > n /\ pools[m] = pools[n]
  <2>1. ShownBy(n) = {} BY <1>1 DEF ShownBy
  <2>2. Proxies!BoundAuthFileCount(n) = 0 BY <1>1, Zenon DEF Proxies!BoundAuthFileCount
  <2> QED BY <2>1, <2>2, FS_EmptySet
<1>2. CASE ~\E m \in Proxies!Rows : m > n /\ pools[m] = pools[n]
  <2>1. ShownBy(n) = {f \in AuthFiles : bound[f] = pools[n]} BY <1>2 DEF ShownBy
  <2>2. Proxies!BoundAuthFileCount(n) = Proxies!Cardinality({f \in AuthFiles : bound[f] = pools[n]})
    BY <1>2, Zenon DEF Proxies!BoundAuthFileCount
  <2> QED BY <2>1, <2>2 DEF Proxies!Cardinality, Cardinality
<1> QED BY <1>1, <1>2

\* The counts of the list add up to the files bound to an address of it.
LEMMA CountsAddUp == Proxies!BindingsCountedOnce
<1>1. Names \subseteq Nat /\ IsFiniteSet(Names) /\ IsFiniteSet(AuthFiles)
  BY InstancesAllowed DEF Proxies!ProxyConstants, Proxies!IsFiniteSet, IsFiniteSet
<1>2. PICK listed : listed = Proxies!Rows OBVIOUS
<1>3. listed \subseteq Names /\ listed \subseteq Nat BY <1>1, <1>2 DEF Proxies!Rows
<1>4. IsFiniteSet(listed) BY <1>1, <1>3, FS_Subset
<1>5. PICK f : f = [n \in Names |-> Proxies!BoundAuthFileCount(n)] OBVIOUS
<1>6. PICK g : g = [s \in SUBSET listed |-> Cardinality(ShownByAny(s))] OBVIOUS
<1>7. \A n : IsFiniteSet(ShownBy(n)) /\ Cardinality(ShownBy(n)) \in Nat
  BY <1>1, FS_Subset, FS_CardinalityType DEF ShownBy
<1>8. \A s : IsFiniteSet(ShownByAny(s)) /\ Cardinality(ShownByAny(s)) \in Nat
  BY <1>1, FS_Subset, FS_CardinalityType DEF ShownByAny
<1>9. ASSUME NEW s \in SUBSET listed PROVE g[s] = IF s = {} THEN 0 ELSE f[Some(s)] + g[s \ {Some(s)}]
  <2>1. CASE s = {}
    <3>1. ShownByAny(s) = {} BY <2>1 DEF ShownByAny
    <3> QED BY <1>6, <2>1, <3>1, FS_EmptySet
  <2>2. CASE s # {}
    <3>1. PICK x : x = Some(s) OBVIOUS
    <3>2. x \in s /\ x \in listed BY <2>2, <3>1 DEF Some
    <3>3. f[x] = Cardinality(ShownBy(x)) BY <1>2, <1>3, <1>5, <3>2, CountIs
    <3>4. PICK t : t = s \ {x} OBVIOUS
    <3>5. t \in SUBSET listed BY <3>4
    <3>6. ShownByAny(s) = ShownBy(x) \cup ShownByAny(t) BY <3>2, <3>4 DEF ShownByAny, ShownBy
    <3>7. ShownBy(x) \cap ShownByAny(t) = {}
      <4> SUFFICES ASSUME NEW a \in ShownBy(x), NEW n \in t, a \in ShownBy(n) PROVE FALSE BY DEF ShownByAny
      <4>1. n # x /\ n \in listed /\ n \in Nat /\ x \in Nat BY <1>3, <3>2, <3>4, <3>5
      <4>2. pools[n] = pools[x] BY DEF ShownBy
      <4>3. ~(x > n) /\ ~(n > x) BY <1>2, <3>2, <4>1, <4>2 DEF ShownBy
      <4> QED BY <4>1, <4>3
    <3>8. Cardinality(ShownByAny(s)) = Cardinality(ShownBy(x)) + Cardinality(ShownByAny(t))
      <4>1. Cardinality(ShownBy(x) \cup ShownByAny(t))
              = Cardinality(ShownBy(x)) + Cardinality(ShownByAny(t)) - Cardinality(ShownBy(x) \cap ShownByAny(t))
        BY <1>7, <1>8, FS_Union
      <4>2. Cardinality(ShownBy(x) \cap ShownByAny(t)) = 0 BY <3>7, FS_EmptySet
      <4> QED BY <1>7, <1>8, <3>6, <4>1, <4>2
    <3>9. g[s] = Cardinality(ShownByAny(s)) /\ g[t] = Cardinality(ShownByAny(t)) BY <1>6, <3>5
    <3> QED BY <2>2, <3>1, <3>3, <3>4, <3>8, <3>9
  <2> QED BY <2>1, <2>2
<1>10. Adds(f, listed, g)
  <2>1. g = [s \in SUBSET listed |-> g[s]] BY <1>6
  <2> QED BY <1>9, <2>1, Zenon DEF Adds
<1>11. Proxies!FoldFunctionOnSet(+, 0, f, listed) = Cardinality(ShownByAny(listed))
  <2>1. Proxies!FoldFunctionOnSet(+, 0, f, listed) = g[listed] BY <1>4, <1>10, FoldIs, Zenon
  <2>2. g[listed] = Cardinality(ShownByAny(listed)) BY <1>6
  <2> QED BY <2>1, <2>2, Zenon
<1>12. ShownByAny(listed) = {a \in AuthFiles : \E n \in listed : pools[n] = bound[a]}
  <2>1. ASSUME NEW a \in AuthFiles, NEW n \in listed, pools[n] = bound[a] PROVE a \in ShownByAny(listed)
    <3>1. PICK same : same = {m \in listed : pools[m] = bound[a]} OBVIOUS
    <3>2. same \subseteq listed /\ same # {} /\ same \subseteq Nat BY <1>3, <2>1, <3>1
    <3>3. IsFiniteSet(same) BY <1>4, <3>2, FS_Subset
    <3>4. PICK m \in same : \A k \in same : k <= m BY <3>2, <3>3, GreatestOf
    <3>5. ~\E k \in listed : k > m /\ pools[k] = pools[m] BY <3>1, <3>2, <3>4
    <3> QED BY <1>2, <3>1, <3>5 DEF ShownByAny, ShownBy
  <2>2. ASSUME NEW a \in ShownByAny(listed) PROVE a \in AuthFiles /\ \E n \in listed : pools[n] = bound[a]
    BY DEF ShownByAny, ShownBy
  <2> QED BY <2>1, <2>2 DEF ShownByAny
<1>13. Proxies!FoldFunctionOnSet(+, 0, f, listed)
         = Proxies!Cardinality({a \in AuthFiles : \E n \in listed : pools[n] = bound[a]})
  BY <1>11, <1>12 DEF Proxies!Cardinality, Cardinality
<1> QED BY <1>2, <1>5, <1>13, Zenon DEF Proxies!BindingsCountedOnce

-----------------------------------------------------------------------------
(* Imports of credentials.                                                  *)

\* Below any value there is one of a kind that has none of the kind in it.
LEMMA NodesAre ==
  /\ Contents \subseteq Nodes
  /\ \A v \in Nodes : /\ v.kids \in Seq(Nodes) /\ DOMAIN v.kids = 1..Len(v.kids) /\ Len(v.kids) \in Nat
                      /\ v.token \in BOOLEAN
                      /\ \A k \in DOMAIN v.kids : v.kids[k] \in Nodes
  /\ \A S \in SUBSET Nodes : S # {} => \E v \in S : \A k \in DOMAIN v.kids : v.kids[k] \notin S
<1>1. /\ Contents \subseteq Nodes
      /\ \A v \in Nodes : v.kids \in Seq(Nodes) /\ v.token \in BOOLEAN
  BY InstancesAllowed DEF Import!ImportConstants
<1>2. \A S \in SUBSET Nodes : S # {} => \E v \in S : Import!ToSet(v.kids) \cap S = {}
  BY InstancesAllowed DEF Import!ImportConstants
<1>3. ASSUME NEW S \in SUBSET Nodes, S # {}
      PROVE  \E v \in S : \A k \in DOMAIN v.kids : v.kids[k] \notin S
  <2>1. PICK v \in S : Import!ToSet(v.kids) \cap S = {} BY <1>2, <1>3
  <2>2. \A k \in DOMAIN v.kids : v.kids[k] \in Import!ToSet(v.kids) BY DEF Import!ToSet
  <2> QED BY <2>1, <2>2
<1>4. ASSUME NEW v \in Nodes
      PROVE  /\ DOMAIN v.kids = 1..Len(v.kids) /\ Len(v.kids) \in Nat
             /\ \A k \in DOMAIN v.kids : v.kids[k] \in Nodes
  <2>1. PICK s \in Seq(Nodes) : s = v.kids BY <1>1
  <2>2. DOMAIN s = 1..Len(s) /\ Len(s) \in Nat /\ \A k \in DOMAIN s : s[k] \in Nodes OBVIOUS
  <2> QED BY <2>1, <2>2
<1> QED BY <1>1, <1>3, <1>4

\* What is D of a value, given what it is of those in it; and a function that is so.
StepsOf(D, F) == \A v \in Nodes : F[v] \in [[DOMAIN v.kids -> D] -> D]
GrownBy(D, F, g) ==
  /\ g \in [Nodes -> D]
  /\ \A v \in Nodes : g[v] = F[v][[k \in DOMAIN v.kids |-> g[v.kids[k]]]]

\* A function of values is defined by what it is of a value, given what it is of those in it.
LEMMA TreeExists ==
  ASSUME NEW D, NEW F, StepsOf(D, F)
  PROVE  \E g : GrownBy(D, F, g)
<1>0. \A v \in Nodes : F[v] \in [[DOMAIN v.kids -> D] -> D] BY DEF StepsOf
<1> DEFINE Given(g, v) == [k \in DOMAIN v.kids |-> g[v.kids[k]]]
           Solves(g, S) == /\ \A v \in S : \A k \in DOMAIN v.kids : v.kids[k] \in S
                           /\ \A v \in S : g[v] = F[v][Given(g, v)]
           Val(v, d) == \E S \in SUBSET Nodes : \E g \in [S -> D] : v \in S /\ Solves(g, S) /\ g[v] = d
<1>1. ASSUME NEW S \in SUBSET Nodes, NEW T \in SUBSET Nodes, NEW g \in [S -> D], NEW h \in [T -> D],
             Solves(g, S), Solves(h, T)
      PROVE  \A v \in S \cap T : g[v] = h[v]
  <2> DEFINE B == {v \in S \cap T : g[v] # h[v]}
  <2> SUFFICES ASSUME B # {} PROVE FALSE OBVIOUS
  <2>1. B \in SUBSET Nodes OBVIOUS
  <2>2. PICK v \in B : \A k \in DOMAIN v.kids : v.kids[k] \notin B BY <2>1, NodesAre
  <2>3. v \in S /\ v \in T /\ g[v] # h[v] OBVIOUS
  <2>4. \A k \in DOMAIN v.kids : v.kids[k] \in S \cap T BY <1>1, <2>3
  <2>5. \A k \in DOMAIN v.kids : g[v.kids[k]] = h[v.kids[k]] BY <2>2, <2>4
  <2>6. Given(g, v) = Given(h, v) BY <2>5
  <2>7. g[v] = F[v][Given(g, v)] /\ h[v] = F[v][Given(h, v)] BY <1>1, <2>3
  <2> QED BY <2>3, <2>6, <2>7
<1>2. ASSUME NEW v, NEW d, NEW e, Val(v, d), Val(v, e) PROVE d = e
  <2>1a. PICK S \in SUBSET Nodes : \E g \in [S -> D] : v \in S /\ Solves(g, S) /\ g[v] = d BY <1>2
  <2>1. PICK g \in [S -> D] : v \in S /\ Solves(g, S) /\ g[v] = d BY <2>1a
  <2>2a. PICK T \in SUBSET Nodes : \E h \in [T -> D] : v \in T /\ Solves(h, T) /\ h[v] = e BY <1>2
  <2>2. PICK h \in [T -> D] : v \in T /\ Solves(h, T) /\ h[v] = e BY <2>2a
  <2>3. g[v] = h[v]
    <3>1. v \in S \cap T /\ Solves(g, S) /\ Solves(h, T) BY <2>1, <2>2
    <3> HIDE DEF Solves
    <3> QED BY <1>1, <3>1
  <2> QED BY <2>1, <2>2, <2>3
<1> DEFINE Has == {v \in Nodes : \E d \in D : Val(v, d)}
           G == [v \in Has |-> CHOOSE d \in D : Val(v, d)]
<1>3. G \in [Has -> D] /\ \A v \in Has : Val(v, G[v])
  <2>1. ASSUME NEW v \in Has PROVE G[v] \in D /\ Val(v, G[v])
    <3>1. \E d \in D : Val(v, d) OBVIOUS
    <3>2. G[v] = CHOOSE d \in D : Val(v, d) OBVIOUS
    <3> HIDE DEF Val
    <3> QED BY <3>1, <3>2
  <2> QED BY <2>1
<1>4. ASSUME NEW v \in Has
      PROVE  /\ \A k \in DOMAIN v.kids : v.kids[k] \in Has
             /\ G[v] = F[v][Given(G, v)]
  <2>1. Val(v, G[v]) BY <1>3, Zenon
  <2>2a. PICK T \in SUBSET Nodes : \E h \in [T -> D] : v \in T /\ Solves(h, T) /\ h[v] = G[v] BY <2>1
  <2>2. PICK h \in [T -> D] : v \in T /\ Solves(h, T) /\ h[v] = G[v] BY <2>2a, Zenon
  <2>3. ASSUME NEW w \in T PROVE w \in Has /\ G[w] = h[w]
    <3>1. Val(w, h[w]) /\ h[w] \in D BY <2>2
    <3>2. w \in Has BY <3>1
    <3>3. Val(w, G[w]) BY <1>3, <3>2
    <3> HIDE DEF Val, Has, G
    <3> QED BY <1>2, <3>1, <3>2, <3>3
  <2>4. \A k \in DOMAIN v.kids : v.kids[k] \in T BY <2>2
  <2> HIDE DEF Has, G
  <2>5. \A k \in DOMAIN v.kids : v.kids[k] \in Has /\ G[v.kids[k]] = h[v.kids[k]] BY <2>3, <2>4
  <2>6. Given(G, v) = Given(h, v) BY <2>5
  <2>7. h[v] = F[v][Given(h, v)] BY <2>2
  <2> QED BY <2>2, <2>5, <2>6, <2>7
<1>5. Has = Nodes
  <2> SUFFICES ASSUME Nodes \ Has # {} PROVE FALSE BY DEF Has
  <2>1. PICK v \in Nodes \ Has : \A k \in DOMAIN v.kids : v.kids[k] \notin Nodes \ Has
    <3> HIDE DEF Has
    <3> QED BY NodesAre
  <2>2. \A k \in DOMAIN v.kids : v.kids[k] \in Has
    <3> HIDE DEF Has
    <3> QED BY <2>1, NodesAre
  <2>3. PICK d : d = F[v][Given(G, v)] BY Zenon
  <2>4. d \in D
    <3>1. Given(G, v) \in [DOMAIN v.kids -> D]
      <4> HIDE DEF Has, G
      <4> QED BY <1>3, <2>2
    <3> HIDE DEF Has, G, Given
    <3> QED BY <1>0, <2>3, <3>1
  <2>5. PICK T : T = Has \cup {v} OBVIOUS
  <2>6. PICK h : h = [w \in T |-> IF w = v THEN d ELSE G[w]] OBVIOUS
  <2>7. v \notin Has /\ v \in T /\ T \in SUBSET Nodes BY <2>5 DEF Has
  <2>8. h \in [T -> D] /\ h[v] = d /\ \A w \in Has : h[w] = G[w]
    <3> HIDE DEF Has, G
    <3> QED BY <1>3, <2>4, <2>5, <2>6, <2>7
  <2>9. Solves(h, T)
    <3> HIDE DEF Has, G
    <3>1. ASSUME NEW w \in T
          PROVE (\A k \in DOMAIN w.kids : w.kids[k] \in T) /\ h[w] = F[w][Given(h, w)]
      <4>1. CASE w = v
        <5>1. \A k \in DOMAIN w.kids : w.kids[k] \in T /\ h[w.kids[k]] = G[w.kids[k]]
          BY <2>2, <2>5, <2>8, <4>1
        <5>2. Given(h, w) = Given(G, v) BY <4>1, <5>1
        <5> HIDE DEF Given
        <5> QED BY <2>3, <2>8, <4>1, <5>1, <5>2
      <4>2. CASE w \in Has
        <5>1. \A k \in DOMAIN w.kids : w.kids[k] \in T /\ h[w.kids[k]] = G[w.kids[k]]
          <6>1. \A k \in DOMAIN w.kids : w.kids[k] \in Has BY <1>4, <4>2
          <6> QED BY <2>5, <2>8, <6>1
        <5>2. Given(h, w) = Given(G, w) BY <5>1
        <5>3. G[w] = F[w][Given(G, w)] BY <1>4, <4>2
        <5>4. h[w] = G[w] BY <2>8, <4>2, Zenon
        <5> HIDE DEF Given
        <5> QED BY <5>1, <5>2, <5>3, <5>4
      <4> QED BY <2>5, <4>1, <4>2
    <3> QED BY <3>1
  <2>10. Val(v, d) BY <2>7, <2>8, <2>9
  <2>11. v \in Has BY <2>4, <2>10
  <2> QED BY <2>7, <2>11
<1> HIDE DEF Has, G
<1>6. G \in [Nodes -> D] BY <1>3, <1>5
<1>7. \A v \in Nodes : G[v] = F[v][Given(G, v)] BY <1>4, <1>5
<1> QED BY <1>6, <1>7 DEF GrownBy

\* What is in two sequences, one after the other.
LEMMA BothParts ==
  ASSUME NEW X, NEW s \in Seq(X), NEW t \in Seq(X)
  PROVE  s \o t \in Seq(X) /\ Import!ToSet(s \o t) = Import!ToSet(s) \cup Import!ToSet(t)
<1>1. s \o t \in Seq(X) /\ Len(s \o t) = Len(s) + Len(t) OBVIOUS
<1>2. \A i \in 1..Len(s \o t) : (s \o t)[i] = IF i <= Len(s) THEN s[i] ELSE t[i - Len(s)] OBVIOUS
<1>3. DOMAIN s = 1..Len(s) /\ DOMAIN t = 1..Len(t) /\ DOMAIN (s \o t) = 1..Len(s \o t)
      /\ Len(s) \in Nat /\ Len(t) \in Nat
  BY <1>1
<1> DEFINE u == s \o t
<1> HIDE DEF u
<1>4. u \in Seq(X) /\ DOMAIN u = 1..(Len(s) + Len(t))
      /\ \A i \in 1..(Len(s) + Len(t)) : u[i] = IF i <= Len(s) THEN s[i] ELSE t[i - Len(s)]
  BY <1>1, <1>2, <1>3 DEF u
<1>5. ASSUME NEW i \in DOMAIN u PROVE u[i] \in Import!ToSet(s) \cup Import!ToSet(t)
  <2>1. CASE i <= Len(s)
    <3>1. i \in DOMAIN s /\ u[i] = s[i] BY <1>3, <1>4, <2>1
    <3> QED BY <3>1 DEF Import!ToSet
  <2>2. CASE ~(i <= Len(s))
    <3>1. i - Len(s) \in DOMAIN t /\ u[i] = t[i - Len(s)] BY <1>3, <1>4, <2>2
    <3> QED BY <3>1 DEF Import!ToSet
  <2> QED BY <2>1, <2>2
<1>6. ASSUME NEW i \in DOMAIN s PROVE s[i] \in Import!ToSet(u)
  <2>1. i \in DOMAIN u /\ u[i] = s[i] BY <1>3, <1>4
  <2> QED BY <2>1 DEF Import!ToSet
<1>7. ASSUME NEW i \in DOMAIN t PROVE t[i] \in Import!ToSet(u)
  <2>1. i + Len(s) \in DOMAIN u /\ u[i + Len(s)] = t[(i + Len(s)) - Len(s)] BY <1>3, <1>4
  <2>2. (i + Len(s)) - Len(s) = i BY <1>3
  <2>3. u[i + Len(s)] = t[i] BY <2>1, <2>2
  <2> QED BY <2>1, <2>3 DEF Import!ToSet
<1>8. Import!ToSet(u) = Import!ToSet(s) \cup Import!ToSet(t) BY <1>5, <1>6, <1>7 DEF Import!ToSet
<1> QED BY <1>4, <1>8 DEF u

\* Sequences one after another are a sequence, of what is in any of them.
Flattened(X, s) ==
  /\ Import!FlattenSeq(s) \in Seq(X)
  /\ Import!ToSet(Import!FlattenSeq(s)) = UNION {Import!ToSet(s[k]) : k \in DOMAIN s}

\* They are, by what is put together of the first of them, then of the first two, and so on.
LEMMA FlattenIs ==
  ASSUME NEW X, NEW s \in Seq(Seq(X))
  PROVE  Flattened(X, s)
<1> USE DEF Flattened
<1>0. DOMAIN s = 1..Len(s) /\ Len(s) \in Nat /\ \A k \in DOMAIN s : s[k] \in Seq(X) OBVIOUS
<1>1. CASE Len(s) = 0
  <2>1. s = <<>> /\ DOMAIN s = {} BY <1>0, <1>1
  <2>2. Import!FlattenSeq(s) = <<>> BY <1>1, <2>1 DEF Import!FlattenSeq
  <2>3. Import!ToSet(Import!FlattenSeq(s)) = {} BY <2>1, <2>2 DEF Import!ToSet
  <2>4. UNION {Import!ToSet(s[k]) : k \in DOMAIN s} = {} BY <2>1
  <2>5. Import!FlattenSeq(s) \in Seq(X) BY <2>2
  <2> QED BY <2>3, <2>4, <2>5
<1>2. CASE Len(s) # 0
  <2> DEFINE n == Len(s)
             Longer(g, i) == IF i = 1 THEN s[i] ELSE g[i - 1] \o s[i]
             Solves(g, k) == g \in [1..k -> Seq(X)] /\ \A i \in 1..k : g[i] = Longer(g, i)
             Bad == {k \in 0..n : ~\E g : Solves(g, k)}
  <2>1. Bad = {}
    <3> SUFFICES ASSUME Bad # {} PROVE FALSE OBVIOUS
    <3>1. PICK k \in Bad : \A j \in Bad : k <= j
      <4>1. Bad \subseteq Nat BY <1>0
      <4> HIDE DEF Bad
      <4> QED BY <4>1, LeastOf
    <3>2. CASE k = 0
      <4>1. PICK g : g = [i \in 1..0 |-> <<>>] OBVIOUS
      <4>2. Solves(g, 0) BY <4>1
      <4> QED BY <3>2, <4>2
    <3>3. CASE k # 0
      <4>1. k \in 1..n /\ k - 1 \in 0..n /\ k - 1 \notin Bad
        <5>1. k \in 1..n /\ k - 1 \in 0..n /\ ~(k <= k - 1) BY <1>0, <3>3
        <5> QED BY <3>1, <5>1
      <4>2. PICK g : Solves(g, k - 1) BY <4>1
      <4>3. PICK h : h = [i \in 1..k |-> IF i = k THEN Longer(g, k) ELSE g[i]] OBVIOUS
      <4>4. Longer(g, k) \in Seq(X)
        <5>1. s[k] \in Seq(X) BY <1>0, <4>1
        <5>2. k # 1 => g[k - 1] \in Seq(X)
          <6>1. k # 1 => k - 1 \in 1..(k - 1) BY <4>1
          <6> QED BY <4>2, <6>1
        <5>3. k # 1 => g[k - 1] \o s[k] \in Seq(X) BY <5>1, <5>2, BothParts
        <5> QED BY <5>1, <5>3
      <4>5. \A i \in 1..(k - 1) : i \in 1..k /\ i # k /\ h[i] = g[i] BY <4>1, <4>3
      <4>6. h \in [1..k -> Seq(X)]
        <5>1. ASSUME NEW i \in 1..k PROVE h[i] \in Seq(X)
          <6>1. CASE i = k
            <7>1. h[i] = Longer(g, k) BY <4>3, <6>1
            <7> QED BY <4>4, <7>1
          <6>2. CASE i # k
            <7>1. i \in 1..(k - 1) BY <4>1, <6>2
            <7> QED BY <4>2, <4>5, <7>1
          <6> QED BY <6>1, <6>2
        <5> QED BY <4>3, <5>1
      <4>7. ASSUME NEW i \in 1..k PROVE h[i] = Longer(h, i)
        <5>1. i # 1 => i - 1 \in 1..(k - 1) BY <4>1
        <5>2. i # 1 => h[i - 1] = g[i - 1] BY <4>5, <5>1
        <5>3. Longer(h, i) = Longer(g, i) BY <5>2
        <5>4. CASE i = k BY <4>3, <5>3, <5>4
        <5>5. CASE i # k
          <6>1. i \in 1..(k - 1) BY <4>1, <5>5
          <6>2. g[i] = Longer(g, i) /\ h[i] = g[i] BY <4>2, <4>5, <6>1
          <6> QED BY <5>3, <6>2
        <5> QED BY <5>4, <5>5
      <4>8. Solves(h, k) BY <4>6, <4>7
      <4> HIDE DEF Solves
      <4> QED BY <4>8
    <3> QED BY <3>2, <3>3
  <2>2. PICK g : Solves(g, n)
    <3>1. n \in 0..n BY <1>0, <1>2
    <3> HIDE DEF Solves
    <3> QED BY <2>1, <3>1
  <2> DEFINE f == CHOOSE f : f = [i \in 1..Len(s) |-> IF i = 1 THEN s[i] ELSE f[i - 1] \o s[i]]
  <2>3. g = [i \in 1..Len(s) |-> IF i = 1 THEN s[i] ELSE g[i - 1] \o s[i]] BY <2>2
  <2>4. f = [i \in 1..Len(s) |-> IF i = 1 THEN s[i] ELSE f[i - 1] \o s[i]]
    <3> HIDE DEF Solves, Bad, Longer
    <3> QED BY <2>3, Zenon
  <2>5. Import!FlattenSeq(s) = f[Len(s)] BY <1>2, Zenon DEF Import!FlattenSeq
  <2> HIDE DEF f
  <2> DEFINE In(i) == UNION {Import!ToSet(s[k]) : k \in 1..i}
             Wrong == {i \in 1..n : ~(f[i] \in Seq(X) /\ Import!ToSet(f[i]) = In(i))}
  <2>6. Wrong = {}
    <3> SUFFICES ASSUME Wrong # {} PROVE FALSE OBVIOUS
    <3>1. PICK i \in Wrong : \A j \in Wrong : i <= j
      <4>1. Wrong \subseteq Nat BY <1>0
      <4> HIDE DEF Wrong
      <4> QED BY <4>1, LeastOf
    <3>2. i \in 1..n /\ s[i] \in Seq(X) /\ n \in Nat BY <1>0
    <3>3. CASE i = 1
      <4>1. f[1] = s[1] BY <2>4, <3>2, <3>3
      <4>2. 1..1 = {1} OBVIOUS
      <4>3. In(1) = Import!ToSet(s[1]) BY <4>2
      <4> QED BY <3>2, <3>3, <4>1, <4>3
    <3>4. CASE i # 1
      <4>1. i - 1 \in 1..n /\ i - 1 \notin Wrong
        <5>1. i - 1 \in 1..n /\ ~(i <= i - 1) BY <3>2, <3>4
        <5> QED BY <3>1, <5>1
      <4>2. f[i - 1] \in Seq(X) /\ Import!ToSet(f[i - 1]) = In(i - 1) BY <4>1
      <4>3. f[i] = f[i - 1] \o s[i] BY <2>4, <3>2, <3>4
      <4>4. f[i] \in Seq(X) /\ Import!ToSet(f[i]) = In(i - 1) \cup Import!ToSet(s[i])
        <5> HIDE DEF In
        <5> QED BY <3>2, <4>2, <4>3, BothParts
      <4>5. 1..i = 1..(i - 1) \cup {i} BY <3>2
      <4>6. In(i) = In(i - 1) \cup Import!ToSet(s[i]) BY <4>5
      <4> QED BY <4>4, <4>6
    <3> QED BY <3>3, <3>4
  <2>7. n \in 1..n BY <1>0, <1>2
  <2>8. f[n] \in Seq(X) /\ Import!ToSet(f[n]) = In(n) BY <2>6, <2>7
  <2> QED BY <1>0, <2>5, <2>8
<1> QED BY <1>1, <1>2

\* What is found in a value, and what of it is in no other session: both are looked for from a
\* value to those in it.
SearchedBy(h) ==
  h = [w \in Nodes |->
         IF w.token THEN <<w>>
         ELSE Import!FlattenSeq([k \in DOMAIN w.kids |-> IF k \in w.hidden THEN <<>> ELSE h[w.kids[k]]])]
NumberedBy(h) ==
  h = [w \in Nodes |->
         IF w.token THEN {w.id} ELSE UNION {h[w.kids[k]] : k \in DOMAIN w.kids \ w.hidden}]

\* The sessions found in the values of a value are a sequence of sequences.
LEMMA FoundBelow ==
  ASSUME NEW w \in Nodes, NEW a, \A k \in DOMAIN w.kids : a[k] \in Seq(Nodes),
         NEW s, s = [k \in DOMAIN w.kids |-> IF k \in w.hidden THEN <<>> ELSE a[k]]
  PROVE  /\ Import!FlattenSeq(s) \in Seq(Nodes)
         /\ Import!ToSet(Import!FlattenSeq(s)) = UNION {Import!ToSet(a[k]) : k \in DOMAIN w.kids \ w.hidden}
<1>1. DOMAIN w.kids = 1..Len(w.kids) /\ Len(w.kids) \in Nat BY NodesAre
<1>2. PICK n : n = Len(w.kids) OBVIOUS
<1>3. s = [k \in 1..n |-> IF k \in w.hidden THEN <<>> ELSE a[k]] BY <1>1, <1>2
<1>4. \A k \in 1..n : s[k] \in Seq(Nodes)
  <2>1. <<>> \in Seq(Nodes) OBVIOUS
  <2> QED BY <1>1, <1>2, <1>3, <2>1
<1>5. s \in Seq(Seq(Nodes)) /\ Len(s) = n /\ DOMAIN s = 1..n
  <2>1. s \in [1..n -> Seq(Nodes)] BY <1>3, <1>4
  <2> QED BY <1>1, <1>2, <2>1
<1>6. /\ Import!FlattenSeq(s) \in Seq(Nodes)
      /\ Import!ToSet(Import!FlattenSeq(s)) = UNION {Import!ToSet(s[k]) : k \in DOMAIN s}
  <2>1. Flattened(Nodes, s) BY <1>5, FlattenIs
  <2> QED BY <2>1, Zenon DEF Flattened
<1>7. \A k \in 1..n : Import!ToSet(s[k]) = IF k \in w.hidden THEN {} ELSE Import!ToSet(a[k])
  <2>1. Import!ToSet(<<>>) = {} BY DEF Import!ToSet
  <2>2. \A k \in 1..n : s[k] = IF k \in w.hidden THEN <<>> ELSE a[k] BY <1>3
  <2>3. ASSUME NEW k \in 1..n PROVE Import!ToSet(s[k]) = IF k \in w.hidden THEN {} ELSE Import!ToSet(a[k])
    <3>1. CASE k \in w.hidden
      <4>1. s[k] = <<>> BY <2>2, <3>1
      <4> QED BY <2>1, <3>1, <4>1
    <3>2. CASE k \notin w.hidden
      <4>1. s[k] = a[k] BY <2>2, <3>2
      <4> QED BY <3>2, <4>1
    <3> QED BY <3>1, <3>2
  <2> QED BY <2>3
<1>8. UNION {Import!ToSet(s[k]) : k \in 1..n} = UNION {Import!ToSet(a[k]) : k \in (1..n) \ w.hidden}
  <2>1. ASSUME NEW x, NEW k \in 1..n, x \in Import!ToSet(s[k])
        PROVE  k \in (1..n) \ w.hidden /\ x \in Import!ToSet(a[k])
    <3>1. Import!ToSet(s[k]) = IF k \in w.hidden THEN {} ELSE Import!ToSet(a[k]) BY <1>7
    <3>2. k \notin w.hidden BY <2>1, <3>1
    <3> QED BY <2>1, <3>1, <3>2
  <2>2. \A k \in (1..n) \ w.hidden : Import!ToSet(a[k]) = Import!ToSet(s[k]) BY <1>7
  <2> QED BY <2>1, <2>2
<1> QED BY <1>1, <1>2, <1>5, <1>6, <1>8

\* There are such functions.
LEMMA SearchExists == (\E h : SearchedBy(h)) /\ (\E h : NumberedBy(h))
<1>1. \E h : SearchedBy(h)
  <2> DEFINE F == [w \in Nodes |-> [a \in [DOMAIN w.kids -> Seq(Nodes)] |->
                    IF w.token THEN <<w>>
                    ELSE Import!FlattenSeq([k \in DOMAIN w.kids |-> IF k \in w.hidden THEN <<>> ELSE a[k]])]]
  <2>1. ASSUME NEW w \in Nodes, NEW a \in [DOMAIN w.kids -> Seq(Nodes)]
        PROVE  (IF w.token THEN <<w>>
                ELSE Import!FlattenSeq([k \in DOMAIN w.kids |-> IF k \in w.hidden THEN <<>> ELSE a[k]])) \in Seq(Nodes)
    <3>1. Import!FlattenSeq([k \in DOMAIN w.kids |-> IF k \in w.hidden THEN <<>> ELSE a[k]]) \in Seq(Nodes)
      BY FoundBelow
    <3>2. <<w>> \in Seq(Nodes) OBVIOUS
    <3> QED BY <3>1, <3>2
  <2>2. \A w \in Nodes : F[w] \in [[DOMAIN w.kids -> Seq(Nodes)] -> Seq(Nodes)] BY <2>1
  <2>3. PICK g : /\ g \in [Nodes -> Seq(Nodes)]
                 /\ \A w \in Nodes : g[w] = F[w][[k \in DOMAIN w.kids |-> g[w.kids[k]]]]
    <3>1. PICK D, G : D = Seq(Nodes) /\ G = F OBVIOUS
    <3>2. StepsOf(D, G) BY <2>2, <3>1 DEF StepsOf
    <3>3. \E g : GrownBy(D, G, g) BY <3>2, TreeExists
    <3> HIDE DEF F
    <3> QED BY <3>1, <3>3, Zenon DEF GrownBy
  <2>4. ASSUME NEW w \in Nodes
        PROVE  g[w] = IF w.token THEN <<w>>
                      ELSE Import!FlattenSeq([k \in DOMAIN w.kids |-> IF k \in w.hidden THEN <<>> ELSE g[w.kids[k]]])
    <3>1. PICK a : a = [k \in DOMAIN w.kids |-> g[w.kids[k]]] OBVIOUS
    <3>2. a \in [DOMAIN w.kids -> Seq(Nodes)] BY <2>3, <3>1, NodesAre
    <3>3. g[w] = F[w][a] BY <2>3, <3>1
    <3>4. [k \in DOMAIN w.kids |-> IF k \in w.hidden THEN <<>> ELSE a[k]]
            = [k \in DOMAIN w.kids |-> IF k \in w.hidden THEN <<>> ELSE g[w.kids[k]]] BY <3>1
    <3>5. F[w][a] = IF w.token THEN <<w>>
                    ELSE Import!FlattenSeq([k \in DOMAIN w.kids |-> IF k \in w.hidden THEN <<>> ELSE a[k]])
      BY <3>2
    <3> QED BY <3>3, <3>4, <3>5
  <2>5. SearchedBy(g) BY <2>3, <2>4 DEF SearchedBy
  <2> QED BY <2>5
<1>2. \E h : NumberedBy(h)
  <2> DEFINE Numbers == {w.id : w \in Nodes}
             F == [w \in Nodes |-> [a \in [DOMAIN w.kids -> SUBSET Numbers] |->
                    IF w.token THEN {w.id} ELSE UNION {a[k] : k \in DOMAIN w.kids \ w.hidden}]]
  <2>1. \A w \in Nodes : F[w] \in [[DOMAIN w.kids -> SUBSET Numbers] -> SUBSET Numbers]
    <3>1. ASSUME NEW w \in Nodes, NEW a \in [DOMAIN w.kids -> SUBSET Numbers]
          PROVE  (IF w.token THEN {w.id} ELSE UNION {a[k] : k \in DOMAIN w.kids \ w.hidden}) \in SUBSET Numbers
      OBVIOUS
    <3> QED BY <3>1
  <2>2. PICK g : /\ g \in [Nodes -> SUBSET Numbers]
                 /\ \A w \in Nodes : g[w] = F[w][[k \in DOMAIN w.kids |-> g[w.kids[k]]]]
    <3>1. PICK D, G : D = SUBSET Numbers /\ G = F OBVIOUS
    <3>2. StepsOf(D, G) BY <2>1, <3>1 DEF StepsOf
    <3>3. \E g : GrownBy(D, G, g) BY <3>2, TreeExists
    <3> HIDE DEF F, Numbers
    <3> QED BY <3>1, <3>3, Zenon DEF GrownBy
  <2>3. ASSUME NEW w \in Nodes
        PROVE  g[w] = IF w.token THEN {w.id} ELSE UNION {g[w.kids[k]] : k \in DOMAIN w.kids \ w.hidden}
    <3>1. PICK a : a = [k \in DOMAIN w.kids |-> g[w.kids[k]]] OBVIOUS
    <3>2. a \in [DOMAIN w.kids -> SUBSET Numbers] BY <2>2, <3>1, NodesAre
    <3>3. g[w] = F[w][a] BY <2>2, <3>1
    <3>4. F[w][a] = IF w.token THEN {w.id} ELSE UNION {a[k] : k \in DOMAIN w.kids \ w.hidden} BY <3>2
    <3>5. UNION {a[k] : k \in DOMAIN w.kids \ w.hidden} = UNION {g[w.kids[k]] : k \in DOMAIN w.kids \ w.hidden}
      BY <3>1
    <3> QED BY <3>3, <3>4, <3>5
  <2>4. NumberedBy(g) BY <2>2, <2>3 DEF NumberedBy
  <2> QED BY <2>4
<1> QED BY <1>1, <1>2

\* The sessions found in a value are the outermost ones.
LEMMA CollectIs ==
  \A v \in Nodes : /\ Import!Collect(v) \in Seq(Nodes)
                   /\ {w.id : w \in Import!ToSet(Import!Collect(v))} = Import!Outermost(v)
<1> DEFINE h == CHOOSE h : h = [w \in Nodes |->
             IF w.token THEN <<w>>
             ELSE Import!FlattenSeq([k \in DOMAIN w.kids |-> IF k \in w.hidden THEN <<>> ELSE h[w.kids[k]]])]
           o == CHOOSE o : o = [w \in Nodes |->
             IF w.token THEN {w.id} ELSE UNION {o[w.kids[k]] : k \in DOMAIN w.kids \ w.hidden}]
<1>1. SearchedBy(h)
  <2>1. \E g : g = [w \in Nodes |->
             IF w.token THEN <<w>>
             ELSE Import!FlattenSeq([k \in DOMAIN w.kids |-> IF k \in w.hidden THEN <<>> ELSE g[w.kids[k]]])]
    BY SearchExists, Zenon DEF SearchedBy
  <2> QED BY <2>1, Zenon DEF SearchedBy
<1>2. NumberedBy(o)
  <2>1. \E g : g = [w \in Nodes |->
             IF w.token THEN {w.id} ELSE UNION {g[w.kids[k]] : k \in DOMAIN w.kids \ w.hidden}]
    BY SearchExists, Zenon DEF NumberedBy
  <2> QED BY <2>1, Zenon DEF NumberedBy
<1>3. ASSUME NEW v \in Nodes PROVE Import!Collect(v) = h[v] /\ Import!Outermost(v) = o[v]
  <2>1. Import!Collect(v) = h[v] BY Zenon DEF Import!Collect
  <2>2. Import!Outermost(v) = o[v] BY Zenon DEF Import!Outermost
  <2> QED BY <2>1, <2>2
<1> HIDE DEF h, o
<1> DEFINE Numbers(s) == {w.id : w \in Import!ToSet(s)}
           Bad == {v \in Nodes : ~(h[v] \in Seq(Nodes) /\ Numbers(h[v]) = o[v])}
<1>4. Bad = {}
  <2> SUFFICES ASSUME Bad # {} PROVE FALSE OBVIOUS
  <2>1. PICK v \in Bad : \A k \in DOMAIN v.kids : v.kids[k] \notin Bad
    <3>1. Bad \in SUBSET Nodes OBVIOUS
    <3> HIDE DEF Bad
    <3> QED BY <3>1, NodesAre
  <2>2. v \in Nodes OBVIOUS
  <2>3. \A k \in DOMAIN v.kids : h[v.kids[k]] \in Seq(Nodes) /\ Numbers(h[v.kids[k]]) = o[v.kids[k]]
    BY <2>1, <2>2, NodesAre
  <2>4. CASE v.token
    <3>1. h[v] = <<v>> /\ o[v] = {v.id} BY <1>1, <1>2, <2>2, <2>4 DEF SearchedBy, NumberedBy
    <3>2. Import!ToSet(<<v>>) = {v} BY DEF Import!ToSet
    <3>3. Numbers(<<v>>) = {v.id} BY <3>2
    <3>4. <<v>> \in Seq(Nodes) BY <2>2
    <3> QED BY <3>1, <3>3, <3>4
  <2>5. CASE ~v.token
    <3>1. PICK a : a = [k \in DOMAIN v.kids |-> h[v.kids[k]]] OBVIOUS
    <3>2. PICK s : s = [k \in DOMAIN v.kids |-> IF k \in v.hidden THEN <<>> ELSE a[k]] OBVIOUS
    <3>3. s = [k \in DOMAIN v.kids |-> IF k \in v.hidden THEN <<>> ELSE h[v.kids[k]]] BY <3>1, <3>2
    <3>4. h[v] = Import!FlattenSeq(s)
      <4>1. h[v] = Import!FlattenSeq([k \in DOMAIN v.kids |-> IF k \in v.hidden THEN <<>> ELSE h[v.kids[k]]])
        BY <1>1, <2>2, <2>5 DEF SearchedBy
      <4> QED BY <3>3, <4>1
    <3>5. /\ h[v] \in Seq(Nodes)
          /\ Import!ToSet(h[v]) = UNION {Import!ToSet(a[k]) : k \in DOMAIN v.kids \ v.hidden}
      <4>1. \A k \in DOMAIN v.kids : a[k] \in Seq(Nodes) BY <2>3, <3>1
      <4> QED BY <2>2, <3>2, <3>4, <4>1, FoundBelow
    <3>6. o[v] = UNION {o[v.kids[k]] : k \in DOMAIN v.kids \ v.hidden}
      BY <1>2, <2>2, <2>5 DEF NumberedBy
    <3>7. Numbers(h[v]) = UNION {Numbers(a[k]) : k \in DOMAIN v.kids \ v.hidden} BY <3>5
    <3>8. \A k \in DOMAIN v.kids \ v.hidden : Numbers(a[k]) = o[v.kids[k]] BY <2>3, <3>1
    <3>9. UNION {Numbers(a[k]) : k \in DOMAIN v.kids \ v.hidden} = UNION {o[v.kids[k]] : k \in DOMAIN v.kids \ v.hidden}
      <4> HIDE DEF Numbers
      <4> QED BY <3>8
    <3> QED BY <3>5, <3>6, <3>7, <3>9
  <2> QED BY <2>2, <2>4, <2>5, NodesAre
<1> QED BY <1>3, <1>4

\* Which file of a seed one is, is a number that grows with the files: no two have one name.
LEMMA NamesDiffer ==
  ASSUME NEW n \in Nat, NEW seeds, NEW t, NEW i \in 1..n, NEW j \in 1..n, i < j
  PROVE  Import!UniqueName(seeds, i, t) # Import!UniqueName(seeds, j, t)
<1> SUFFICES ASSUME Import!UniqueName(seeds, i, t) = Import!UniqueName(seeds, j, t) PROVE FALSE OBVIOUS
<1> DEFINE Upto(k) == {l \in 1..k : seeds[l] = seeds[k]}
<1>1. seeds[i] = seeds[j] /\ Import!Cardinality(Upto(i)) = Import!Cardinality(Upto(j))
  BY DEF Import!UniqueName
<1>2. Cardinality(Upto(i)) = Cardinality(Upto(j)) BY <1>1 DEF Import!Cardinality, Cardinality
<1>3. IsFiniteSet(1..j) BY FS_Interval
<1>4. IsFiniteSet(Upto(j))
  <2>1. Upto(j) \in SUBSET (1..j) OBVIOUS
  <2> QED BY <1>3, <2>1, FS_Subset
<1>5. Upto(i) \in SUBSET Upto(j) /\ j \in Upto(j) /\ j \notin Upto(i) BY <1>1
<1> HIDE DEF Upto
<1>6. Upto(i) = Upto(j) BY <1>2, <1>4, <1>5, FS_Subset
<1> QED BY <1>5, <1>6

\* The files made of a content: a sequence of them, with as many names, one for each session.
LEMMA FilesAre ==
  ASSUME NEW c \in Contents, NEW t, NEW fs, fs = Import!Files(c, t)
  PROVE  /\ DOMAIN fs = 1..Len(fs) /\ Len(fs) \in Nat
         /\ {f.payload.session.id : f \in Import!ToSet(fs)} = Import!Outermost(c)
         /\ Import!Cardinality({f.name : f \in Import!ToSet(fs)}) = Len(fs)
<1>1. PICK records : records = Import!Collect(c) OBVIOUS
<1>2. /\ records \in Seq(Nodes)
      /\ {w.id : w \in Import!ToSet(records)} = Import!Outermost(c)
  BY <1>1, CollectIs, NodesAre
<1>3. PICK n : n = Len(records) OBVIOUS
<1>4. n \in Nat /\ DOMAIN records = 1..n BY <1>2, <1>3
<1>5. PICK seeds : seeds = [i \in DOMAIN records |-> records[i].seed] OBVIOUS
<1>6. fs = [i \in 1..n |-> [name |-> Import!UniqueName(seeds, i, t),
                            payload |-> Import!Converted(records[i], t)]]
  BY <1>1, <1>4, <1>5 DEF Import!Files
<1>7. DOMAIN fs = 1..n /\ Len(fs) = n BY <1>4, <1>6
<1>8. \A i \in 1..n : fs[i].name = Import!UniqueName(seeds, i, t) /\ fs[i].payload.session = records[i]
  BY <1>6 DEF Import!Converted
<1>9. {f.payload.session.id : f \in Import!ToSet(fs)} = Import!Outermost(c)
  <2>1. {f.payload.session.id : f \in Import!ToSet(fs)} = {fs[i].payload.session.id : i \in 1..n}
    BY <1>7 DEF Import!ToSet
  <2>2. {w.id : w \in Import!ToSet(records)} = {records[i].id : i \in 1..n} BY <1>4 DEF Import!ToSet
  <2>3. {fs[i].payload.session.id : i \in 1..n} = {records[i].id : i \in 1..n} BY <1>8
  <2> QED BY <1>2, <2>1, <2>2, <2>3
<1>10. Import!Cardinality({f.name : f \in Import!ToSet(fs)}) = n
  <2> DEFINE names == {fs[i].name : i \in 1..n}
  <2>1. {f.name : f \in Import!ToSet(fs)} = names BY <1>7 DEF Import!ToSet
  <2>2. PICK g : g = [i \in 1..n |-> fs[i].name] OBVIOUS
  <2>3. ASSUME NEW i \in 1..n, NEW j \in 1..n, g[i] = g[j] PROVE i = j
    <3>1. Import!UniqueName(seeds, i, t) = Import!UniqueName(seeds, j, t) BY <1>8, <2>2, <2>3
    <3>2. ~(i < j) BY <1>4, <3>1, NamesDiffer
    <3>3. ~(j < i) BY <1>4, <3>1, NamesDiffer
    <3> QED BY <1>4, <3>2, <3>3
  <2>4. g \in Bijection(1..n, names)
    <3>1. g \in [1..n -> names] BY <2>2
    <3>2. \A y \in names : \E i \in 1..n : g[i] = y BY <2>2
    <3> HIDE DEF names
    <3> QED BY <2>3, <3>1, <3>2 DEF Bijection, Injection, Surjection, IsInjective
  <2>5. IsFiniteSet(1..n) /\ Cardinality(1..n) = n BY <1>4, FS_Interval
  <2>6. Cardinality(names) = n
    <3>1. ExistsBijection(1..n, names) BY <2>4 DEF ExistsBijection
    <3> HIDE DEF names
    <3> QED BY <2>5, <3>1, FS_Bijection
  <2> QED BY <2>1, <2>6 DEF Import!Cardinality, Cardinality
<1> QED BY <1>4, <1>7, <1>9, <1>10

\* The names of files.
NamesOf(S) == {f.name : f \in S}

\* A request holds the files of a content; those uploaded are in CPA under their names, and of one
\* that is answered the synchronisation has seen them all.
ImportSound(r) ==
  /\ imports[r].pc \in {"idle", "upload", "answered"}
  /\ imports[r].pc # "idle" =>
       /\ imports[r].content \in Contents
       /\ \E t : imports[r].files = Import!Files(imports[r].content, t)
       /\ imports[r].done \in 0..Len(imports[r].files)
       /\ \A i \in 1..imports[r].done : imports[r].files[i].name \in NamesOf(cpa)
  /\ imports[r].pc = "answered" => NamesOf(Import!ToSet(imports[r].files)) \subseteq synced

ImportInv ==
  /\ imports = [r \in Imports |-> [pc |-> imports[r].pc, content |-> imports[r].content,
                                   files |-> imports[r].files, done |-> imports[r].done]]
  /\ synced \subseteq NamesOf(cpa)
  /\ \A r \in Imports : ImportSound(r)

\* No request is there at the start.
LEMMA ImportInvInit == Import!Init => ImportInv
<1> SUFFICES ASSUME Import!Init PROVE ImportInv OBVIOUS
<1>1. imports = [r \in Imports |-> Import!Idle] /\ synced = {} BY DEF Import!Init
<1>2. \A r \in Imports : imports[r].pc = "idle" BY <1>1 DEF Import!Idle
<1>3. \A r \in Imports : ImportSound(r) BY <1>2 DEF ImportSound
<1>4. \A r \in Imports : Import!Idle = [pc |-> imports[r].pc, content |-> imports[r].content,
                                        files |-> imports[r].files, done |-> imports[r].done]
  BY <1>1 DEF Import!Idle
<1>5. imports = [r \in Imports |-> [pc |-> imports[r].pc, content |-> imports[r].content,
                                    files |-> imports[r].files, done |-> imports[r].done]]
  BY <1>1, <1>4
<1> QED BY <1>1, <1>3, <1>5 DEF ImportInv

\* Where no name goes, those who do nothing keep to it.
LEMMA OthersKeep ==
  ASSUME NEW r, ImportSound(r), imports'[r] = imports[r],
         NamesOf(cpa) \subseteq NamesOf(cpa'), synced \subseteq synced'
  PROVE  ImportSound(r)'
BY DEF ImportSound

\* The state after a request has moved.
LEMMA Moved ==
  ASSUME ImportInv, NEW r \in Imports, NEW q, imports' = [imports EXCEPT ![r] = q],
         q = [pc |-> q.pc, content |-> q.content, files |-> q.files, done |-> q.done]
  PROVE  /\ imports'[r] = q /\ \A s \in Imports : s # r => imports'[s] = imports[s]
         /\ imports' = [s \in Imports |-> [pc |-> imports'[s].pc, content |-> imports'[s].content,
                                           files |-> imports'[s].files, done |-> imports'[s].done]]
<1> DEFINE shape(x) == [pc |-> x.pc, content |-> x.content, files |-> x.files, done |-> x.done]
<1>1. imports = [s \in Imports |-> shape(imports[s])] BY DEF ImportInv
<1>2. DOMAIN imports = Imports /\ \A s \in Imports : imports[s] = shape(imports[s]) BY <1>1
<1>3. imports' = [s \in Imports |-> IF s = r THEN q ELSE imports[s]] BY <1>2
<1>4. imports'[r] = q /\ \A s \in Imports : s # r => imports'[s] = imports[s] BY <1>3
<1>5. \A s \in Imports : imports'[s] = shape(imports'[s])
  <2>1. q = shape(q) OBVIOUS
  <2> HIDE DEF shape
  <2> QED BY <1>2, <1>4, <2>1
<1>6. imports' = [s \in Imports |-> imports'[s]] BY <1>3
<1>7. imports' = [s \in Imports |-> shape(imports'[s])]
  <2> HIDE DEF shape
  <2> QED BY <1>5, <1>6
<1> QED BY <1>4, <1>7

\* A step keeps to it: an upload adds a name, and a synchronisation has seen all there are.
LEMMA ImportStepKeeps == ImportInv /\ Import!Next => ImportInv'
<1> SUFFICES ASSUME ImportInv, Import!Next PROVE ImportInv' OBVIOUS
<1> DEFINE shaped(m) == m = [s \in Imports |-> [pc |-> m[s].pc, content |-> m[s].content,
                                                files |-> m[s].files, done |-> m[s].done]]
<1>0. /\ shaped(imports) /\ synced \subseteq NamesOf(cpa) /\ \A r \in Imports : ImportSound(r)
      /\ \A r \in Imports : imports[r] = [pc |-> imports[r].pc, content |-> imports[r].content,
                                          files |-> imports[r].files, done |-> imports[r].done]
  BY DEF ImportInv
<1>1. CASE Import!Tick
  <2>1. imports' = imports /\ cpa' = cpa /\ synced' = synced BY <1>1 DEF Import!Tick
  <2>2. \A r \in Imports : ImportSound(r)' BY <1>0, <2>1, OthersKeep, Zenon
  <2> QED BY <1>0, <2>1, <2>2 DEF ImportInv
<1>2. ASSUME NEW r \in Imports, Import!ImportAuthFiles(r) PROVE ImportInv'
  <2>1. PICK c \in Contents :
          imports' = [imports EXCEPT ![r] = [pc |-> "upload", content |-> c, files |-> Import!Files(c, now), done |-> 0]]
    BY <1>2 DEF Import!ImportAuthFiles
  <2>2. cpa' = cpa /\ synced' = synced BY <1>2 DEF Import!ImportAuthFiles
  <2>3. PICK q : q = [pc |-> "upload", content |-> c, files |-> Import!Files(c, now), done |-> 0] OBVIOUS
  <2>4. q.pc = "upload" /\ q.content = c /\ q.files = Import!Files(c, now) /\ q.done = 0 BY <2>3
  <2>5. imports' = [imports EXCEPT ![r] = q]
        /\ q = [pc |-> q.pc, content |-> q.content, files |-> q.files, done |-> q.done] BY <2>1, <2>3, <2>4
  <2>6. /\ imports'[r] = q /\ \A s \in Imports : s # r => imports'[s] = imports[s]
        /\ shaped(imports')
    BY <2>5, Moved
  <2>7. Len(q.files) \in Nat BY <2>4, FilesAre
  <2>8. ImportSound(r)' BY <2>4, <2>6, <2>7 DEF ImportSound
  <2>9. \A s \in Imports : s # r => ImportSound(s)' BY <1>0, <2>2, <2>6, OthersKeep, Zenon
  <2> QED BY <1>0, <2>2, <2>6, <2>8, <2>9 DEF ImportInv
<1>3. ASSUME NEW r \in Imports, Import!ImportAuthFile(r) PROVE ImportInv'
  <2>1. imports[r].pc = "upload" /\ imports[r].done < Len(imports[r].files) /\ synced' = synced
    BY <1>3 DEF Import!ImportAuthFile
  <2>2. /\ imports[r].content \in Contents
        /\ \E t : imports[r].files = Import!Files(imports[r].content, t)
        /\ imports[r].done \in 0..Len(imports[r].files)
        /\ \A i \in 1..imports[r].done : imports[r].files[i].name \in NamesOf(cpa)
    BY <1>0, <2>1 DEF ImportSound
  <2>3. Len(imports[r].files) \in Nat BY <2>2, FilesAre
  <2>4. PICK file : file = imports[r].files[imports[r].done + 1] OBVIOUS
  <2>5. CASE cpa' = Import!Stored(file) /\ imports' = [imports EXCEPT ![r].done = @ + 1]
    <3>1. NamesOf(cpa') = NamesOf(cpa) \cup {file.name} BY <2>5 DEF NamesOf, Import!Stored
    <3>2. PICK q : q = [imports[r] EXCEPT !.done = @ + 1] OBVIOUS
    <3>3. imports' = [imports EXCEPT ![r] = q] BY <2>5, <3>2
    <3>4. q.pc = imports[r].pc /\ q.content = imports[r].content /\ q.files = imports[r].files
          /\ q.done = imports[r].done + 1
          /\ q = [pc |-> q.pc, content |-> q.content, files |-> q.files, done |-> q.done]
      <4>1. PICK m : m = imports[r] OBVIOUS
      <4>2. m = [pc |-> m.pc, content |-> m.content, files |-> m.files, done |-> m.done] BY <1>0, <4>1
      <4>3. q = [m EXCEPT !.done = @ + 1] BY <3>2, <4>1
      <4>4. q = [pc |-> m.pc, content |-> m.content, files |-> m.files, done |-> m.done + 1] BY <4>2, <4>3
      <4> QED BY <4>1, <4>4
    <3>5. /\ imports'[r] = q /\ \A s \in Imports : s # r => imports'[s] = imports[s]
          /\ shaped(imports')
      BY <3>3, <3>4, Moved
    <3>6. \A i \in 1..(imports[r].done + 1) : imports[r].files[i].name \in NamesOf(cpa')
      <4>1. ASSUME NEW i \in 1..(imports[r].done + 1) PROVE imports[r].files[i].name \in NamesOf(cpa')
        <5>1. CASE i \in 1..imports[r].done BY <2>2, <3>1, <5>1
        <5>2. CASE i = imports[r].done + 1 BY <2>4, <3>1, <5>2
        <5>3. imports[r].done \in Nat BY <2>2
        <5> QED BY <5>1, <5>2, <5>3
      <4> QED BY <4>1
    <3>7. imports[r].done + 1 \in 0..Len(imports[r].files) BY <2>1, <2>2, <2>3
    <3>8. ImportSound(r)'
      <4>1. imports'[r].pc = "upload" /\ imports'[r].content = imports[r].content
            /\ imports'[r].files = imports[r].files /\ imports'[r].done = imports[r].done + 1
        BY <2>1, <3>4, <3>5
      <4> QED BY <2>2, <3>6, <3>7, <4>1 DEF ImportSound
    <3>9. \A s \in Imports : s # r => ImportSound(s)' BY <1>0, <2>1, <3>1, <3>5, OthersKeep, Zenon
    <3> QED BY <1>0, <2>1, <3>1, <3>5, <3>8, <3>9 DEF ImportInv
  <2>6. CASE cpa' = cpa /\ imports' = [imports EXCEPT ![r] = Import!Idle]
    <3>1. /\ Import!Idle.pc = "idle"
          /\ Import!Idle = [pc |-> Import!Idle.pc, content |-> Import!Idle.content,
                            files |-> Import!Idle.files, done |-> Import!Idle.done]
      BY DEF Import!Idle
    <3>2. /\ imports'[r] = Import!Idle /\ \A s \in Imports : s # r => imports'[s] = imports[s]
          /\ shaped(imports')
      BY <2>6, <3>1, Moved
    <3>3. ImportSound(r)' BY <3>1, <3>2 DEF ImportSound
    <3>4. \A s \in Imports : s # r => ImportSound(s)' BY <1>0, <2>1, <2>6, <3>2, OthersKeep, Zenon
    <3> QED BY <1>0, <2>1, <2>6, <3>2, <3>3, <3>4, Zenon DEF ImportInv
  <2> QED BY <1>3, <2>4, <2>5, <2>6 DEF Import!ImportAuthFile
<1>4. ASSUME NEW r \in Imports, Import!SyncImported(r) PROVE ImportInv'
  <2>1. /\ imports[r].pc = "upload" /\ imports[r].done = Len(imports[r].files)
        /\ synced' = NamesOf(cpa) /\ cpa' = cpa
        /\ imports' = [imports EXCEPT ![r].pc = "answered"]
    BY <1>4 DEF Import!SyncImported, NamesOf
  <2>2. /\ imports[r].content \in Contents
        /\ \E t : imports[r].files = Import!Files(imports[r].content, t)
        /\ imports[r].done \in 0..Len(imports[r].files)
        /\ \A i \in 1..imports[r].done : imports[r].files[i].name \in NamesOf(cpa)
    BY <1>0, <2>1 DEF ImportSound
  <2>3. DOMAIN imports[r].files = 1..Len(imports[r].files) BY <2>2, FilesAre
  <2>4. NamesOf(Import!ToSet(imports[r].files)) \subseteq NamesOf(cpa)
    <3>1. NamesOf(Import!ToSet(imports[r].files)) = {imports[r].files[i].name : i \in DOMAIN imports[r].files}
      BY DEF NamesOf, Import!ToSet
    <3> QED BY <2>1, <2>2, <2>3, <3>1
  <2>5. PICK q : q = [imports[r] EXCEPT !.pc = "answered"] OBVIOUS
  <2>6. imports' = [imports EXCEPT ![r] = q] BY <2>1, <2>5
  <2>7. q.pc = "answered" /\ q.content = imports[r].content /\ q.files = imports[r].files
        /\ q.done = imports[r].done
        /\ q = [pc |-> q.pc, content |-> q.content, files |-> q.files, done |-> q.done]
    <3>1. PICK m : m = imports[r] OBVIOUS
    <3>2. m = [pc |-> m.pc, content |-> m.content, files |-> m.files, done |-> m.done] BY <1>0, <3>1
    <3>3. q = [m EXCEPT !.pc = "answered"] BY <2>5, <3>1
    <3>4. q = [pc |-> "answered", content |-> m.content, files |-> m.files, done |-> m.done] BY <3>2, <3>3
    <3> QED BY <3>1, <3>4
  <2>8. /\ imports'[r] = q /\ \A s \in Imports : s # r => imports'[s] = imports[s]
        /\ shaped(imports')
    BY <2>6, <2>7, Moved
  <2>9. ImportSound(r)'
    <3>1. imports'[r].pc = "answered" /\ imports'[r].content = imports[r].content
          /\ imports'[r].files = imports[r].files /\ imports'[r].done = imports[r].done
      BY <2>7, <2>8
    <3> QED BY <2>1, <2>2, <2>4, <3>1 DEF ImportSound
  <2>10. \A s \in Imports : s # r => ImportSound(s)' BY <1>0, <2>1, <2>8, OthersKeep, Zenon
  <2> QED BY <2>1, <2>8, <2>9, <2>10, Zenon DEF ImportInv
<1>5. ASSUME NEW r \in Imports, Import!Forget(r) PROVE ImportInv'
  <2>1. cpa' = cpa /\ synced' = synced /\ imports' = [imports EXCEPT ![r] = Import!Idle]
    BY <1>5 DEF Import!Forget
  <2>2. /\ Import!Idle.pc = "idle"
        /\ Import!Idle = [pc |-> Import!Idle.pc, content |-> Import!Idle.content,
                          files |-> Import!Idle.files, done |-> Import!Idle.done]
    BY DEF Import!Idle
  <2>3. /\ imports'[r] = Import!Idle /\ \A s \in Imports : s # r => imports'[s] = imports[s]
        /\ shaped(imports')
    BY <2>1, <2>2, Moved
  <2>4. ImportSound(r)' BY <2>2, <2>3 DEF ImportSound
  <2>5. \A s \in Imports : s # r => ImportSound(s)' BY <1>0, <2>1, <2>3, OthersKeep, Zenon
  <2> QED BY <1>0, <2>1, <2>3, <2>4, <2>5, Zenon DEF ImportInv
<1> QED BY <1>1, <1>2, <1>3, <1>4, <1>5 DEF Import!Next

\* Nothing that is not of an import disturbs it.
LEMMA ImportStutters == ImportInv /\ UNCHANGED importVars => ImportInv'
BY DEF importVars, ImportInv, ImportSound

\* It says that each session has its file.
LEMMA ImportSafe == ImportInv => Import!EachSessionHasItsFile
<1> SUFFICES ASSUME ImportInv, NEW r \in Imports, imports[r].pc = "answered",
                    NEW fs, fs = imports[r].files
             PROVE  LET names == {f.name : f \in Import!ToSet(fs)} IN
                      /\ {f.payload.session.id : f \in Import!ToSet(fs)} = Import!Outermost(imports[r].content)
                      /\ Import!Cardinality(names) = Len(imports[r].files) /\ names \subseteq synced
  BY DEF Import!EachSessionHasItsFile
<1>1. /\ imports[r].content \in Contents
      /\ \E t : fs = Import!Files(imports[r].content, t)
      /\ NamesOf(Import!ToSet(fs)) \subseteq synced
  BY DEF ImportInv, ImportSound
<1>2. /\ {f.payload.session.id : f \in Import!ToSet(fs)} = Import!Outermost(imports[r].content)
      /\ Import!Cardinality({f.name : f \in Import!ToSet(fs)}) = Len(fs)
  BY <1>1, FilesAre
<1> QED BY <1>1, <1>2 DEF NamesOf

-----------------------------------------------------------------------------
(* Changes of auth files.                                                   *)

\* The types of files, of the goroutine of a name, and of requests.
EditValues == Values \union {"none"}
FileSet == [is : {"whole", "cut", "gone"}, proxy : EditValues, note : EditValues, rest : Nat]
WorkSet == [pc : {"none", "wait", "call", "open", "write", "done"}, read : FileSet, wrote : Nat]
EditKinds == {"status", "proxy", "note", "delete"}
ReqSet == [pc : {"idle", "run", "sync", "store", "answered"}, kind : EditKinds,
           names : SUBSET AuthFiles, value : EditValues, ok : BOOLEAN, cancelled : BOOLEAN,
           told : [AuthFiles -> Nat]]

EditTypes ==
  /\ disk \in [AuthFiles -> FileSet] /\ want \in [AuthFiles -> FileSet]
  /\ writes \in [AuthFiles -> Nat] /\ clean \subseteq AuthFiles
  /\ reqs \in [Editors -> ReqSet]
  /\ work \in [Editors -> [AuthFiles -> WorkSet]]

\* The goroutines of a request run while it does, one for each of its names; what is done without
\* an error was written, no later than the files were read for the answer.
ReqSound(r) ==
  /\ reqs[r].pc # "run" => \A n \in AuthFiles : work[r][n].pc \in {"none", "done"}
  /\ reqs[r].pc # "idle" => \A n \in reqs[r].names : work[r][n].pc # "none"
  /\ reqs[r].kind = "delete" => \A n \in AuthFiles : work[r][n].pc \in {"none", "call", "done"}
  /\ \A n \in AuthFiles : work[r][n].wrote <= writes[n]
  /\ reqs[r].ok => \A n \in AuthFiles : work[r][n].pc = "done" => work[r][n].wrote # 0
  /\ reqs[r].pc = "store" \/ (reqs[r].pc = "answered" /\ reqs[r].ok /\ reqs[r].kind # "status") =>
       \A n \in AuthFiles : work[r][n].wrote <= reqs[r].told[n]

Changing(r, n) == work[r][n].pc \in {"open", "write"}
Agree(n) == disk[n].is = want[n].is /\ (disk[n].is = "whole" => disk[n] = want[n])

\* A file whose changes never overlapped is as it was taken for while nobody has it; those who
\* have read it, have read that; one that writes it is alone.
FileSound(n) ==
  n \in clean =>
    /\ (\A r \in Editors : ~Changing(r, n)) => Agree(n)
    /\ \A r \in Editors : work[r][n].pc = "open" =>
         work[r][n].read = want[n] /\ want[n].is = "whole" /\ disk[n] = want[n]
    /\ \A r \in Editors : work[r][n].pc = "write" =>
         /\ \A s \in Editors : Changing(s, n) => s = r
         /\ work[r][n].read = want[n] /\ want[n].is = "whole" /\ disk[n].is = "cut"

EditInv ==
  /\ EditTypes
  /\ \A r \in Editors : ReqSound(r)
  /\ \A n \in AuthFiles : FileSound(n)

\* Who has a file, said of each request.
LEMMA NobodyEdits ==
  ASSUME NEW n
  PROVE  /\ Edits!Editing(n) = {} <=> \A r \in Editors : ~Changing(r, n)
         /\ \A r \in Editors : Edits!Editing(n) \ {r} = {} <=> \A s \in Editors \ {r} : ~Changing(s, n)
         /\ Edits!Editing(n) \ {"cpa"} = {} <=> \A s \in Editors : ~Changing(s, n)
<1>1. "cpa" \notin Editors BY InstancesAllowed DEF Edits!EditConstants
<1> QED BY <1>1 DEF Edits!Editing, Changing

\* A new file, and one without work.
LEMMA NewShapes ==
  /\ Edits!New \in FileSet /\ Edits!New.is = "whole"
  /\ Edits!NoWork \in WorkSet /\ Edits!NoWork.pc = "none" /\ Edits!NoWork.wrote = 0
  /\ Edits!NoReq \in ReqSet
<1>1. Edits!New \in FileSet /\ Edits!New.is = "whole" BY DEF Edits!New, FileSet, EditValues
<1>2. Edits!NoWork \in WorkSet /\ Edits!NoWork.pc = "none" /\ Edits!NoWork.wrote = 0
  BY <1>1 DEF Edits!NoWork, WorkSet
<1>3. Edits!NoReq \in ReqSet BY DEF Edits!NoReq, ReqSet, EditKinds, EditValues
<1> QED BY <1>1, <1>2, <1>3

\* It holds before any request.
LEMMA EditInvInit == Edits!Init => EditInv
<1> SUFFICES ASSUME Edits!Init PROVE EditInv OBVIOUS
<1>1. /\ disk = [n \in AuthFiles |-> Edits!New] /\ want = disk
      /\ writes = [n \in AuthFiles |-> 0] /\ reqs = [r \in Editors |-> Edits!NoReq]
      /\ work = [r \in Editors |-> [n \in AuthFiles |-> Edits!NoWork]] /\ clean = AuthFiles
  BY DEF Edits!Init
<1>2. EditTypes BY <1>1, NewShapes DEF EditTypes
<1>3. \A r \in Editors : reqs[r] = Edits!NoReq /\ \A n \in AuthFiles : work[r][n] = Edits!NoWork BY <1>1
<1>4. Edits!NoReq.pc = "idle" /\ Edits!NoReq.kind = "status" BY DEF Edits!NoReq
<1>5. \A r \in Editors : ReqSound(r)
  <2> SUFFICES ASSUME NEW r \in Editors PROVE ReqSound(r) OBVIOUS
  <2>1. \A n \in AuthFiles : work[r][n].pc = "none" /\ work[r][n].wrote = 0 /\ writes[n] = 0
    BY <1>1, <1>3, NewShapes
  <2> QED BY <1>3, <1>4, <2>1 DEF ReqSound
<1>6. \A n \in AuthFiles : FileSound(n)
  <2> SUFFICES ASSUME NEW n \in AuthFiles PROVE FileSound(n) OBVIOUS
  <2>1. \A r \in Editors : work[r][n].pc = "none" BY <1>3, NewShapes
  <2>2. disk[n] = want[n] BY <1>1
  <2> QED BY <2>1, <2>2 DEF FileSound, Agree
<1> QED BY <1>2, <1>5, <1>6 DEF EditInv

\* The goroutine of one name goes on.
Becomes(r, n, x) == work' = [work EXCEPT ![r][n] = x]

\* One goroutine is another afterwards, the others are the same.
LEMMA WorkAt ==
  ASSUME EditTypes, NEW r \in Editors, NEW n \in AuthFiles, NEW x \in WorkSet, Becomes(r, n, x)
  PROVE  /\ work' \in [Editors -> [AuthFiles -> WorkSet]] /\ work'[r][n] = x
         /\ \A s \in Editors, m \in AuthFiles : (s # r \/ m # n) => work'[s][m] = work[s][m]
<1>1. work \in [Editors -> [AuthFiles -> WorkSet]] /\ work[r] \in [AuthFiles -> WorkSet] BY DEF EditTypes
<1>2. work' = [work EXCEPT ![r] = [work[r] EXCEPT ![n] = x]] BY <1>1 DEF Becomes
<1>3. [work[r] EXCEPT ![n] = x] \in [AuthFiles -> WorkSet] BY <1>1
<1>4. work'[r] = [work[r] EXCEPT ![n] = x] /\ \A s \in Editors \ {r} : work'[s] = work[s] BY <1>1, <1>2
<1> QED BY <1>1, <1>2, <1>3, <1>4

\* A file that stays as it was, with the same people at it.
LEMMA FileStays ==
  ASSUME EditInv, NEW n \in AuthFiles, disk'[n] = disk[n], want'[n] = want[n], n \in clean' => n \in clean,
         \A s \in Editors : \/ work'[s][n] = work[s][n]
                            \/ ~Changing(s, n) /\ work'[s][n].pc \notin {"open", "write"}
  PROVE  FileSound(n)'
BY DEF EditInv, FileSound, Changing, Agree

\* A file that is changed while nobody has it.
LEMMA FileMoves ==
  ASSUME EditInv, NEW n \in AuthFiles, Agree(n)',
         \A s \in Editors : work'[s][n].pc \notin {"open", "write"}
  PROVE  FileSound(n)'
BY DEF FileSound, Changing

\* A request that runs, at one of its names.
LEMMA ReqStays ==
  ASSUME EditInv, NEW r \in Editors, NEW n \in AuthFiles, NEW x \in WorkSet, Becomes(r, n, x),
         reqs' \in [Editors -> ReqSet], \A s \in Editors \ {r} : reqs'[s] = reqs[s],
         reqs[r].pc = "run", reqs'[r].pc = "run", reqs'[r].kind = reqs[r].kind, reqs'[r].names = reqs[r].names,
         reqs'[r].ok => reqs[r].ok,
         writes' \in [AuthFiles -> Nat], \A m \in AuthFiles : writes[m] <= writes'[m],
         x.pc # "none", reqs[r].kind = "delete" => x.pc \in {"call", "done"},
         x.wrote <= writes'[n], reqs'[r].ok /\ x.pc = "done" => x.wrote # 0
  PROVE  \A s \in Editors : ReqSound(s)'
<1>1. /\ work' \in [Editors -> [AuthFiles -> WorkSet]] /\ work'[r][n] = x
      /\ \A s \in Editors, m \in AuthFiles : (s # r \/ m # n) => work'[s][m] = work[s][m]
  <2>1. EditTypes BY DEF EditInv
  <2> QED BY <2>1, WorkAt
<1>2. \A s \in Editors, m \in AuthFiles : work[s][m] \in WorkSet /\ work[s][m].wrote \in Nat
  BY DEF EditInv, EditTypes, WorkSet
<1>3. x.wrote \in Nat BY DEF WorkSet
<1>4. \A m \in AuthFiles : writes[m] \in Nat /\ writes'[m] \in Nat BY DEF EditInv, EditTypes
<1>5. ASSUME NEW s \in Editors \ {r} PROVE ReqSound(s)'
  <2>1. \A m \in AuthFiles : work'[s][m] = work[s][m] BY <1>1
  <2>2. \A m \in AuthFiles : work[s][m].wrote <= writes[m] BY DEF EditInv, ReqSound
  <2>3. \A m \in AuthFiles : work[s][m].wrote <= writes'[m] BY <1>2, <1>4, <2>2
  <2>4. ReqSound(s) /\ reqs'[s] = reqs[s] /\ reqs[s] \in ReqSet BY DEF EditInv, EditTypes
  <2>5. reqs[s].names \subseteq AuthFiles BY <2>4 DEF ReqSet
  <2> QED BY <2>1, <2>3, <2>4, <2>5 DEF ReqSound
<1>6. ReqSound(r)'
  <2>1. ReqSound(r) /\ reqs[r] \in ReqSet BY DEF EditInv, EditTypes
  <2>2. reqs[r].names \subseteq AuthFiles BY <2>1 DEF ReqSet
  <2>3. \A m \in AuthFiles : work'[r][m].wrote <= writes'[m] BY <1>1, <1>2, <1>3, <1>4, <2>1 DEF ReqSound
  <2>4. \A m \in reqs'[r].names : work'[r][m].pc # "none" BY <1>1, <2>1, <2>2 DEF ReqSound
  <2>5. reqs'[r].kind = "delete" => \A m \in AuthFiles : work'[r][m].pc \in {"none", "call", "done"}
    BY <1>1, <2>1 DEF ReqSound
  <2>6. reqs'[r].ok => \A m \in AuthFiles : work'[r][m].pc = "done" => work'[r][m].wrote # 0
    BY <1>1, <2>1 DEF ReqSound
  <2> QED BY <2>3, <2>4, <2>5, <2>6 DEF ReqSound
<1> QED BY <1>5, <1>6

\* An error of one name is one of its request.
LEMMA NotOk ==
  ASSUME EditTypes, NEW r \in Editors, reqs' = [reqs EXCEPT ![r].ok = FALSE]
  PROVE  /\ reqs' \in [Editors -> ReqSet] /\ \A s \in Editors \ {r} : reqs'[s] = reqs[s]
         /\ ~reqs'[r].ok /\ reqs'[r].pc = reqs[r].pc /\ reqs'[r].kind = reqs[r].kind /\ reqs'[r].names = reqs[r].names
<1>1. reqs \in [Editors -> ReqSet] /\ reqs[r] \in ReqSet BY DEF EditTypes
<1>2. reqs' = [reqs EXCEPT ![r] = [reqs[r] EXCEPT !.ok = FALSE]] BY <1>1
<1>3. [reqs[r] EXCEPT !.ok = FALSE] \in ReqSet BY <1>1 DEF ReqSet
<1>4. reqs'[r] = [reqs[r] EXCEPT !.ok = FALSE] BY <1>1, <1>2
<1> QED BY <1>1, <1>2, <1>3, <1>4 DEF ReqSet

\* CPA writes a file nobody has, or one whose changes overlap from now on.
LEMMA CpaWritesKeeps == ASSUME EditInv, NEW n \in AuthFiles, Edits!CpaWrites(n) PROVE EditInv'
<1>1. /\ disk[n].is = "whole" /\ disk' = [disk EXCEPT ![n] = [disk[n] EXCEPT !.rest = disk[n].rest + 1]]
      /\ want' = [want EXCEPT ![n] = [want[n] EXCEPT !.rest = want[n].rest + 1]]
      /\ clean' = IF Edits!Editing(n) \ {"cpa"} = {} THEN clean ELSE clean \ {n}
      /\ UNCHANGED <<writes, reqs, work>>
  <2>1. disk \in [AuthFiles -> FileSet] /\ want \in [AuthFiles -> FileSet] BY DEF EditInv, EditTypes
  <2> QED BY <2>1 DEF Edits!CpaWrites, Edits!Ask, Edits!Overlap
<1>2. disk \in [AuthFiles -> FileSet] /\ want \in [AuthFiles -> FileSet] BY DEF EditInv, EditTypes
<1>3. disk[n] \in FileSet /\ want[n] \in FileSet BY <1>2
<1>4. [disk[n] EXCEPT !.rest = disk[n].rest + 1] \in FileSet /\ [want[n] EXCEPT !.rest = want[n].rest + 1] \in FileSet
  BY <1>3 DEF FileSet
<1>5. EditTypes' BY <1>1, <1>2, <1>4 DEF EditInv, EditTypes
<1>6. \A r \in Editors : ReqSound(r)' BY <1>1 DEF EditInv, ReqSound
<1>7. ASSUME NEW m \in AuthFiles PROVE FileSound(m)'
  <2>1. CASE m # n
    <3>1. disk'[m] = disk[m] /\ want'[m] = want[m] /\ (m \in clean' => m \in clean) BY <1>1, <1>2, <2>1
    <3> QED BY <1>1, <3>1, FileStays
  <2>2. CASE m = n
    <3>1. CASE \E s \in Editors : Changing(s, n)
      <4>1. n \notin clean' BY <1>1, <3>1, NobodyEdits
      <4> QED BY <2>2, <4>1 DEF FileSound
    <3>2. CASE \A s \in Editors : ~Changing(s, n)
      <4>1. CASE n \notin clean BY <1>1, <2>2, <4>1 DEF FileSound
      <4>2. CASE n \in clean
        <5>1. disk[n] = want[n] BY <1>1, <3>2, <4>2 DEF EditInv, FileSound, Agree
        <5>2. disk'[n] = want'[n] BY <1>1, <1>2, <5>1
        <5>3. Agree(n)' BY <5>2 DEF Agree
        <5> QED BY <1>1, <2>2, <3>2, <5>3, FileMoves DEF Changing
      <4> QED BY <4>1, <4>2
    <3> QED BY <3>1, <3>2
  <2> QED BY <2>1, <2>2
<1> QED BY <1>5, <1>6, <1>7 DEF EditInv

\* A request is taken in.
LEMMA RequestKeeps ==
  ASSUME EditInv, NEW r \in Editors, NEW kind \in EditKinds, Edits!Request(r, kind)
  PROVE  EditInv'
<1>1. PICK names \in Edits!CleanNames(r), v \in IF kind \in Edits!Fields THEN Values ELSE {"none"} :
        /\ reqs' = [reqs EXCEPT ![r] = [Edits!NoReq EXCEPT !.pc = "run", !.kind = kind, !.names = names, !.value = v]]
        /\ work' = [work EXCEPT ![r] = [n \in AuthFiles |->
             IF n \in names THEN [Edits!NoWork EXCEPT !.pc = IF kind = "delete" THEN "call" ELSE "wait"]
             ELSE Edits!NoWork]]
  BY DEF Edits!Request
<1>2. reqs[r].pc = "idle" /\ UNCHANGED <<disk, writes, want, clean>> BY DEF Edits!Request
<1>3. names \subseteq AuthFiles /\ v \in EditValues
  BY InstancesAllowed DEF Edits!CleanNames, Edits!EditConstants, EditValues
<1>4. PICK taken : taken = [Edits!NoReq EXCEPT !.pc = "run", !.kind = kind, !.names = names, !.value = v] OBVIOUS
<1>5. taken = [pc |-> "run", kind |-> kind, names |-> names, value |-> v, ok |-> TRUE, cancelled |-> FALSE,
               told |-> [n \in AuthFiles |-> 0]]
  BY <1>4 DEF Edits!NoReq
<1>6. taken \in ReqSet BY <1>3, <1>5 DEF ReqSet
<1>7. PICK begun : begun = [Edits!NoWork EXCEPT !.pc = IF kind = "delete" THEN "call" ELSE "wait"] OBVIOUS
<1>8. begun \in WorkSet /\ begun.wrote = 0 /\ begun.pc = IF kind = "delete" THEN "call" ELSE "wait"
  <2>1. begun = [pc |-> IF kind = "delete" THEN "call" ELSE "wait", read |-> Edits!New, wrote |-> 0]
    BY <1>7 DEF Edits!NoWork
  <2> QED BY <2>1, NewShapes DEF WorkSet
<1>9. /\ work' \in [Editors -> [AuthFiles -> WorkSet]]
      /\ \A n \in AuthFiles : work'[r][n] = IF n \in names THEN begun ELSE Edits!NoWork
      /\ \A s \in Editors \ {r} : work'[s] = work[s]
  BY <1>1, <1>7, <1>8, NewShapes DEF EditInv, EditTypes
<1>10. /\ reqs' \in [Editors -> ReqSet] /\ reqs'[r] = taken /\ \A s \in Editors \ {r} : reqs'[s] = reqs[s]
  BY <1>1, <1>4, <1>6 DEF EditInv, EditTypes
<1>11. EditTypes' BY <1>2, <1>9, <1>10 DEF EditInv, EditTypes
<1>12. \A s \in Editors \ {r} : ReqSound(s)' BY <1>2, <1>9, <1>10 DEF EditInv, ReqSound
<1>13. ReqSound(r)'
  <2>1. \A n \in AuthFiles : work'[r][n].wrote = 0 /\ work'[r][n].pc \in {"none", "call", "wait"}
    BY <1>8, <1>9, NewShapes
  <2>2. \A n \in AuthFiles : writes'[n] \in Nat BY <1>11 DEF EditTypes
  <2>3. \A n \in names : work'[r][n].pc # "none" BY <1>3, <1>8, <1>9
  <2>4. kind = "delete" => \A n \in AuthFiles : work'[r][n].pc \in {"none", "call", "done"}
    BY <1>8, <1>9, NewShapes
  <2> QED BY <1>5, <1>10, <2>1, <2>2, <2>3, <2>4 DEF ReqSound
<1>14. ASSUME NEW n \in AuthFiles PROVE FileSound(n)'
  <2>1. ~Changing(r, n) BY <1>2 DEF EditInv, ReqSound, Changing
  <2>2. work'[r][n].pc \notin {"open", "write"} BY <1>8, <1>9, NewShapes
  <2>3. \A s \in Editors : \/ work'[s][n] = work[s][n]
                           \/ ~Changing(s, n) /\ work'[s][n].pc \notin {"open", "write"}
    BY <1>9, <2>1, <2>2
  <2> QED BY <1>2, <2>3, FileStays
<1> QED BY <1>11, <1>12, <1>13, <1>14 DEF EditInv

\* A goroutine goes on, or fails, without touching the files.
LEMMA GoesOn ==
  ASSUME EditInv, NEW r \in Editors, NEW n \in AuthFiles, reqs[r].pc = "run",
         NEW x \in WorkSet, Becomes(r, n, x), x.wrote <= writes[n], ~Changing(r, n),
         x.pc \in {"call", "done"}, UNCHANGED <<disk, writes, want, clean>>,
         \/ reqs' = reqs /\ (x.pc = "done" => x.wrote # 0)
         \/ reqs' = [reqs EXCEPT ![r].ok = FALSE]
  PROVE  EditInv'
<1>1. EditTypes BY DEF EditInv
<1>2. /\ work' \in [Editors -> [AuthFiles -> WorkSet]] /\ work'[r][n] = x
      /\ \A s \in Editors, m \in AuthFiles : (s # r \/ m # n) => work'[s][m] = work[s][m]
  BY <1>1, WorkAt
<1>3. /\ reqs' \in [Editors -> ReqSet] /\ \A s \in Editors \ {r} : reqs'[s] = reqs[s]
      /\ reqs'[r].pc = "run" /\ reqs'[r].kind = reqs[r].kind /\ reqs'[r].names = reqs[r].names
      /\ reqs'[r].ok => reqs[r].ok
      /\ reqs'[r].ok /\ x.pc = "done" => x.wrote # 0
  <2>1. CASE reqs' = reqs /\ (x.pc = "done" => x.wrote # 0) BY <1>1, <2>1 DEF EditTypes
  <2>2. CASE reqs' = [reqs EXCEPT ![r].ok = FALSE] BY <1>1, <2>2, NotOk
  <2> QED BY <2>1, <2>2
<1>4. EditTypes' BY <1>1, <1>2, <1>3 DEF EditTypes
<1>5. writes' \in [AuthFiles -> Nat] /\ \A m \in AuthFiles : writes[m] <= writes'[m] BY <1>1 DEF EditTypes
<1>6. \A s \in Editors : ReqSound(s)' BY <1>3, <1>5, ReqStays
<1>7. ASSUME NEW m \in AuthFiles PROVE FileSound(m)'
  <2>1. \A s \in Editors : \/ work'[s][m] = work[s][m]
                           \/ ~Changing(s, m) /\ work'[s][m].pc \notin {"open", "write"}
    BY <1>2
  <2> QED BY <2>1, FileStays
<1> QED BY <1>4, <1>6, <1>7 DEF EditInv

\* What the shape of a goroutine becomes.
LEMMA WorkShapes ==
  ASSUME EditInv, NEW r \in Editors, NEW n \in AuthFiles
  PROVE  /\ \A pc \in {"call", "write"} : Edits!Goto(r, n, pc) =>
              LET x == [work[r][n] EXCEPT !.pc = pc] IN
              x \in WorkSet /\ Becomes(r, n, x) /\ x.pc = pc
                /\ x.wrote = work[r][n].wrote /\ x.read = work[r][n].read
         /\ [Edits!NoWork EXCEPT !.pc = "done"] \in WorkSet
         /\ [Edits!NoWork EXCEPT !.pc = "done"].pc = "done" /\ [Edits!NoWork EXCEPT !.pc = "done"].wrote = 0
         /\ LET y == [Edits!NoWork EXCEPT !.pc = "done", !.wrote = writes[n] + 1] IN
            y \in WorkSet /\ y.pc = "done" /\ y.wrote = writes[n] + 1
         /\ work[r][n].wrote <= writes[n] /\ writes[n] \in Nat
<1>1. work[r][n] \in WorkSet /\ work \in [Editors -> [AuthFiles -> WorkSet]] /\ writes[n] \in Nat
  BY DEF EditInv, EditTypes
<1>2. ASSUME NEW pc \in {"call", "write"}, Edits!Goto(r, n, pc), NEW x, x = [work[r][n] EXCEPT !.pc = pc]
      PROVE  /\ x \in WorkSet /\ Becomes(r, n, x) /\ x.pc = pc
             /\ x.wrote = work[r][n].wrote /\ x.read = work[r][n].read
  <2>1. Becomes(r, n, x) BY <1>1, <1>2 DEF Edits!Goto, Becomes
  <2>2. x = [pc |-> pc, read |-> work[r][n].read, wrote |-> work[r][n].wrote] BY <1>1, <1>2 DEF WorkSet
  <2>3. work[r][n].read \in FileSet /\ work[r][n].wrote \in Nat BY <1>1 DEF WorkSet
  <2> QED BY <2>1, <2>2, <2>3 DEF WorkSet
<1>3. [Edits!NoWork EXCEPT !.pc = "done"] = [pc |-> "done", read |-> Edits!New, wrote |-> 0] BY DEF Edits!NoWork
<1>4. [Edits!NoWork EXCEPT !.pc = "done", !.wrote = writes[n] + 1]
        = [pc |-> "done", read |-> Edits!New, wrote |-> writes[n] + 1]
  <2>1. PICK k : k = writes[n] + 1 OBVIOUS
  <2>2. PICK y : y = [Edits!NoWork EXCEPT !.pc = "done", !.wrote = k] OBVIOUS
  <2>3. y = [pc |-> "done", read |-> Edits!New, wrote |-> k] BY <2>2 DEF Edits!NoWork
  <2> QED BY <2>1, <2>2, <2>3
<1>5. work[r][n].wrote <= writes[n] BY DEF EditInv, ReqSound
<1> QED BY <1>1, <1>2, <1>3, <1>4, <1>5, NewShapes DEF WorkSet

\* What At, Done and Failed say of a goroutine.
LEMMA Ends ==
  ASSUME EditInv, NEW r \in Editors, NEW n \in AuthFiles
  PROVE  /\ Edits!Done(r, n) =>
              \E y \in WorkSet : Becomes(r, n, y) /\ y.pc = "done" /\ y.wrote = writes[n] + 1
         /\ Edits!Failed(r, n) =>
              /\ \E y \in WorkSet : Becomes(r, n, y) /\ y.pc = "done" /\ y.wrote = 0
              /\ reqs' = [reqs EXCEPT ![r].ok = FALSE]
BY WorkShapes DEF Edits!Done, Edits!Failed, Becomes

\* A name takes a slot, or does not come to it any more.
LEMMA SlotKeeps ==
  ASSUME EditInv, NEW r \in Editors, NEW n \in AuthFiles, Edits!TakeSlot(r, n) \/ Edits!Skipped(r, n)
  PROVE  EditInv'
<1>1. reqs[r].pc = "run" /\ work[r][n].pc = "wait" /\ UNCHANGED <<disk, writes, want, clean>>
  BY DEF Edits!TakeSlot, Edits!Skipped, Edits!At
<1>2. ~Changing(r, n) BY <1>1 DEF Changing
<1>3. writes[n] \in Nat BY DEF EditInv, EditTypes
<1>4. CASE Edits!TakeSlot(r, n)
  <2>1. reqs' = reqs /\ Edits!Goto(r, n, "call") BY <1>4 DEF Edits!TakeSlot
  <2>2. PICK x : x = [work[r][n] EXCEPT !.pc = "call"] OBVIOUS
  <2>3. x \in WorkSet /\ Becomes(r, n, x) /\ x.pc = "call" /\ x.wrote <= writes[n]
    BY <2>1, <2>2, WorkShapes
  <2> QED BY <1>1, <1>2, <2>1, <2>3, GoesOn
<1>5. CASE Edits!Skipped(r, n)
  <2>1. Edits!Failed(r, n) BY <1>5 DEF Edits!Skipped
  <2>2. PICK y \in WorkSet : Becomes(r, n, y) /\ y.pc = "done" /\ y.wrote = 0 BY <2>1, Ends
  <2>3. reqs' = [reqs EXCEPT ![r].ok = FALSE] BY <2>1, Ends
  <2>4. y.wrote <= writes[n] BY <1>3, <2>2
  <2> QED BY <1>1, <1>2, <2>2, <2>3, <2>4, GoesOn
<1> QED BY <1>4, <1>5

\* A goroutine changes the file of its name, or ends: what is left to show is the file.
LEMMA Writes ==
  ASSUME EditInv, NEW r \in Editors, NEW n \in AuthFiles, reqs[r].pc = "run", reqs[r].kind # "delete",
         NEW x \in WorkSet, Becomes(r, n, x), x.pc # "none", x.wrote <= writes'[n],
         disk' \in [AuthFiles -> FileSet], want' \in [AuthFiles -> FileSet], clean' \subseteq clean,
         writes' \in [AuthFiles -> Nat], \A m \in AuthFiles : writes[m] <= writes'[m],
         \A m \in AuthFiles \ {n} : disk'[m] = disk[m] /\ want'[m] = want[m],
         \/ reqs' = reqs /\ (x.pc = "done" => x.wrote # 0)
         \/ reqs' = [reqs EXCEPT ![r].ok = FALSE],
         FileSound(n)'
  PROVE  EditInv'
<1>1. EditTypes BY DEF EditInv
<1>2. /\ work' \in [Editors -> [AuthFiles -> WorkSet]] /\ work'[r][n] = x
      /\ \A s \in Editors, m \in AuthFiles : (s # r \/ m # n) => work'[s][m] = work[s][m]
  BY <1>1, WorkAt
<1>3. /\ reqs' \in [Editors -> ReqSet] /\ \A s \in Editors \ {r} : reqs'[s] = reqs[s]
      /\ reqs'[r].pc = "run" /\ reqs'[r].kind = reqs[r].kind /\ reqs'[r].names = reqs[r].names
      /\ reqs'[r].ok => reqs[r].ok
      /\ reqs'[r].ok /\ x.pc = "done" => x.wrote # 0
  <2>1. CASE reqs' = reqs /\ (x.pc = "done" => x.wrote # 0) BY <1>1, <2>1 DEF EditTypes
  <2>2. CASE reqs' = [reqs EXCEPT ![r].ok = FALSE] BY <1>1, <2>2, NotOk
  <2> QED BY <2>1, <2>2
<1>4. EditTypes' BY <1>1, <1>2, <1>3 DEF EditTypes
<1>5. \A s \in Editors : ReqSound(s)' BY <1>3, ReqStays
<1>6. ASSUME NEW m \in AuthFiles \ {n} PROVE FileSound(m)'
  <2>1. \A s \in Editors : work'[s][m] = work[s][m] BY <1>2
  <2> QED BY <2>1, FileStays
<1> QED BY <1>4, <1>5, <1>6 DEF EditInv

\* CPA changes the status of a file nobody has, or one whose changes overlap from now on.
LEMMA StatusKeeps ==
  ASSUME EditInv, NEW r \in Editors, NEW n \in AuthFiles, Edits!UpdateAuthFileStatus(r, n)
  PROVE  EditInv'
<1>1. reqs[r].pc = "run" /\ work[r][n].pc = "call" /\ reqs[r].kind = "status"
  BY DEF Edits!UpdateAuthFileStatus, Edits!At
<1>2. ~Changing(r, n) BY <1>1 DEF Changing
<1>3. writes[n] \in Nat /\ writes \in [AuthFiles -> Nat] BY DEF EditInv, EditTypes
<1>4. disk \in [AuthFiles -> FileSet] /\ want \in [AuthFiles -> FileSet] BY DEF EditInv, EditTypes
<1>5. CASE Edits!Failed(r, n) /\ UNCHANGED <<disk, writes, want, clean>>
  <2>1. PICK y \in WorkSet : Becomes(r, n, y) /\ y.pc = "done" /\ y.wrote = 0 BY <1>5, Ends
  <2>2. reqs' = [reqs EXCEPT ![r].ok = FALSE] BY <1>5, Ends
  <2>3. y.wrote <= writes[n] BY <1>3, <2>1
  <2> QED BY <1>1, <1>2, <1>5, <2>1, <2>2, <2>3, GoesOn
<1>6. ASSUME disk[n].is = "whole", disk' = [disk EXCEPT ![n].rest = @ + 1], Edits!Count(n),
             Edits!Ask(n, [want[n] EXCEPT !.rest = @ + 1]), Edits!Overlap(r, n),
             \/ Edits!Done(r, n) /\ UNCHANGED reqs
             \/ Edits!Failed(r, n)
      PROVE  EditInv'
  <2>1. disk' = [disk EXCEPT ![n] = [disk[n] EXCEPT !.rest = disk[n].rest + 1]] BY <1>4, <1>6
  <2>2. want' = [want EXCEPT ![n] = [want[n] EXCEPT !.rest = want[n].rest + 1]] BY <1>4, <1>6 DEF Edits!Ask
  <2>3. disk[n] \in FileSet /\ want[n] \in FileSet BY <1>4
  <2>4. [disk[n] EXCEPT !.rest = disk[n].rest + 1] \in FileSet /\ [want[n] EXCEPT !.rest = want[n].rest + 1] \in FileSet
    BY <2>3 DEF FileSet
  <2>5. disk' \in [AuthFiles -> FileSet] /\ want' \in [AuthFiles -> FileSet] BY <1>4, <2>1, <2>2, <2>4
  <2>6. \A m \in AuthFiles \ {n} : disk'[m] = disk[m] /\ want'[m] = want[m] BY <1>4, <2>1, <2>2
  <2>7. /\ writes' \in [AuthFiles -> Nat] /\ writes'[n] = writes[n] + 1
        /\ \A m \in AuthFiles : writes[m] <= writes'[m]
    BY <1>3, <1>6 DEF Edits!Count
  <2>8. clean' = IF Edits!Editing(n) \ {r} = {} THEN clean ELSE clean \ {n} BY <1>6 DEF Edits!Overlap
  <2>9. clean' \subseteq clean BY <2>8
  <2>10. \E x \in WorkSet : /\ Becomes(r, n, x) /\ x.pc = "done" /\ x.wrote <= writes'[n]
                            /\ \/ reqs' = reqs /\ x.wrote # 0
                               \/ reqs' = [reqs EXCEPT ![r].ok = FALSE]
    <3>1. CASE Edits!Done(r, n) /\ UNCHANGED reqs
      <4>1. PICK y \in WorkSet : Becomes(r, n, y) /\ y.pc = "done" /\ y.wrote = writes[n] + 1 BY <3>1, Ends
      <4>2. y.wrote <= writes'[n] /\ y.wrote # 0 BY <1>3, <2>7, <4>1
      <4> QED BY <3>1, <4>1, <4>2
    <3>2. CASE Edits!Failed(r, n)
      <4>1. PICK y \in WorkSet : Becomes(r, n, y) /\ y.pc = "done" /\ y.wrote = 0 BY <3>2, Ends
      <4>2. reqs' = [reqs EXCEPT ![r].ok = FALSE] BY <3>2, Ends
      <4>3. y.wrote <= writes'[n] BY <1>3, <2>7, <4>1
      <4> QED BY <4>1, <4>2, <4>3
    <3> QED BY <1>6, <3>1, <3>2
  <2>11. PICK x \in WorkSet : /\ Becomes(r, n, x) /\ x.pc = "done" /\ x.wrote <= writes'[n]
                              /\ \/ reqs' = reqs /\ x.wrote # 0
                                 \/ reqs' = [reqs EXCEPT ![r].ok = FALSE]
    BY <2>10
  <2>12. /\ work'[r][n] = x /\ \A s \in Editors \ {r} : work'[s][n] = work[s][n]
    <3>1. EditTypes BY DEF EditInv
    <3> QED BY <2>11, <3>1, WorkAt
  <2>13. FileSound(n)'
    <3>1. CASE \E s \in Editors : Changing(s, n)
      <4>1. n \notin clean' BY <1>2, <2>8, <3>1, NobodyEdits
      <4> QED BY <4>1 DEF FileSound
    <3>2. CASE (\A s \in Editors : ~Changing(s, n)) /\ n \notin clean BY <2>9, <3>2 DEF FileSound
    <3>3. CASE (\A s \in Editors : ~Changing(s, n)) /\ n \in clean
      <4>1. disk[n] = want[n] BY <1>6, <3>3 DEF EditInv, FileSound, Agree
      <4>2. disk'[n] = want'[n] BY <1>4, <2>1, <2>2, <4>1
      <4>3. Agree(n)' BY <4>2 DEF Agree
      <4>4. \A s \in Editors : work'[s][n].pc \notin {"open", "write"} BY <2>11, <2>12, <3>3 DEF Changing
      <4> QED BY <4>3, <4>4, FileMoves
    <3> QED BY <3>1, <3>2, <3>3
  <2>14. x.pc # "none" /\ reqs[r].kind # "delete" BY <1>1, <2>11
  <2> QED BY <1>1, <2>5, <2>6, <2>7, <2>9, <2>11, <2>13, <2>14, Writes
<1> QED BY <1>5, <1>6 DEF Edits!UpdateAuthFileStatus

\* A file is read.
LEMMA ReadKeeps ==
  ASSUME EditInv, NEW r \in Editors, NEW n \in AuthFiles, Edits!ReadAuthFile(r, n)
  PROVE  EditInv'
<1>1. /\ reqs[r].pc = "run" /\ work[r][n].pc = "call" /\ reqs[r].kind # "delete"
      /\ UNCHANGED <<disk, writes, want, clean>>
  BY DEF Edits!ReadAuthFile, Edits!At, Edits!Fields
<1>2. ~Changing(r, n) BY <1>1 DEF Changing
<1>3. /\ writes[n] \in Nat /\ writes \in [AuthFiles -> Nat] /\ disk \in [AuthFiles -> FileSet]
      /\ want \in [AuthFiles -> FileSet] /\ work \in [Editors -> [AuthFiles -> WorkSet]]
      /\ work[r][n] \in WorkSet /\ disk[n] \in FileSet
  BY DEF EditInv, EditTypes
<1>4. CASE Edits!Failed(r, n)
  <2>1. PICK y \in WorkSet : Becomes(r, n, y) /\ y.pc = "done" /\ y.wrote = 0 BY <1>4, Ends
  <2>2. reqs' = [reqs EXCEPT ![r].ok = FALSE] BY <1>4, Ends
  <2>3. y.wrote <= writes[n] BY <1>3, <2>1
  <2> QED BY <1>1, <1>2, <2>1, <2>2, <2>3, GoesOn
<1>5. ASSUME disk[n].is = "whole", reqs' = reqs,
             work' = [work EXCEPT ![r][n] = [@ EXCEPT !.pc = "open", !.read = disk[n]]]
      PROVE  EditInv'
  <2>1. PICK x : x = [work[r][n] EXCEPT !.pc = "open", !.read = disk[n]] OBVIOUS
  <2>2. Becomes(r, n, x) BY <1>3, <1>5, <2>1 DEF Becomes
  <2>3. x = [pc |-> "open", read |-> disk[n], wrote |-> work[r][n].wrote] BY <1>3, <2>1 DEF WorkSet
  <2>4. x \in WorkSet /\ x.pc = "open" /\ x.read = disk[n] /\ x.wrote <= writes[n]
    BY <1>3, <2>3, WorkShapes DEF WorkSet
  <2>5. /\ work'[r][n] = x /\ \A s \in Editors \ {r} : work'[s][n] = work[s][n]
    <3>1. EditTypes BY DEF EditInv
    <3> QED BY <2>2, <2>4, <3>1, WorkAt
  <2>6. FileSound(n)'
    <3> SUFFICES ASSUME n \in clean PROVE FileSound(n)' BY <1>1 DEF FileSound
    <3>1. \A s \in Editors : work[s][n].pc # "write" BY <1>5 DEF EditInv, FileSound
    <3>2. disk[n] = want[n]
      <4>1. CASE \A s \in Editors : ~Changing(s, n) BY <1>5, <4>1 DEF EditInv, FileSound, Agree
      <4>2. CASE \E s \in Editors : Changing(s, n) BY <3>1, <4>2 DEF EditInv, FileSound, Changing
      <4> QED BY <4>1, <4>2
    <3>3. \A s \in Editors : work'[s][n].pc # "write" BY <2>4, <2>5, <3>1
    <3>4. \A s \in Editors : work'[s][n].pc = "open" => work'[s][n].read = want[n]
      BY <2>4, <2>5, <3>2 DEF EditInv, FileSound
    <3>5. Changing(r, n)' BY <2>4, <2>5 DEF Changing
    <3> QED BY <1>1, <1>5, <3>2, <3>3, <3>4, <3>5 DEF FileSound
  <2>7. \A m \in AuthFiles : writes[m] <= writes'[m] BY <1>1, <1>3
  <2> QED BY <1>1, <1>3, <1>5, <2>2, <2>4, <2>6, <2>7, Writes
<1> QED BY <1>4, <1>5 DEF Edits!ReadAuthFile

\* A file with one key changed.
LEMMA KeyChanged ==
  ASSUME NEW f \in FileSet, NEW kind \in EditKinds \ {"delete"}, NEW v \in EditValues
  PROVE  [f EXCEPT ![kind] = v] \in FileSet
<1>1. f = [is |-> f.is, proxy |-> f.proxy, note |-> f.note, rest |-> f.rest] BY DEF FileSet
<1>2. f.is \in {"whole", "cut", "gone"} /\ f.proxy \in EditValues /\ f.note \in EditValues /\ f.rest \in Nat
  BY DEF FileSet
<1>3. CASE kind = "proxy"
  <2>1. PICK g : g = [f EXCEPT !["proxy"] = v] OBVIOUS
  <2>2. g = [is |-> f.is, proxy |-> v, note |-> f.note, rest |-> f.rest] BY <1>1, <2>1
  <2> QED BY <1>2, <1>3, <2>1, <2>2 DEF FileSet
<1>4. CASE kind = "note"
  <2>1. PICK g : g = [f EXCEPT !["note"] = v] OBVIOUS
  <2>2. g = [is |-> f.is, proxy |-> f.proxy, note |-> v, rest |-> f.rest] BY <1>1, <2>1
  <2> QED BY <1>2, <1>4, <2>1, <2>2 DEF FileSet
<1>5. CASE kind = "status"
  <2>1. PICK g : g = [f EXCEPT !["status"] = v] OBVIOUS
  <2>2. g = f BY <1>1, <2>1
  <2> QED BY <1>5, <2>1, <2>2
<1> QED BY <1>3, <1>4, <1>5 DEF EditKinds

\* A file is opened for writing.
LEMMA OpenKeeps ==
  ASSUME EditInv, NEW r \in Editors, NEW n \in AuthFiles, Edits!OpenAuthFile(r, n)
  PROVE  EditInv'
<1>1. /\ reqs[r].pc = "run" /\ work[r][n].pc = "open" /\ Edits!Goto(r, n, "write")
      /\ disk' = [disk EXCEPT ![n].is = "cut"] /\ UNCHANGED <<writes, reqs, want>>
      /\ clean' = IF Edits!Editing(n) \ {r} = {} THEN clean ELSE clean \ {n}
  BY DEF Edits!OpenAuthFile, Edits!At, Edits!Overlap
<1>2. /\ writes[n] \in Nat /\ writes \in [AuthFiles -> Nat] /\ disk \in [AuthFiles -> FileSet]
      /\ want \in [AuthFiles -> FileSet] /\ work[r][n] \in WorkSet /\ disk[n] \in FileSet
  BY DEF EditInv, EditTypes
<1>3. disk' = [disk EXCEPT ![n] = [disk[n] EXCEPT !.is = "cut"]] BY <1>1, <1>2
<1>4. [disk[n] EXCEPT !.is = "cut"] \in FileSet /\ [disk[n] EXCEPT !.is = "cut"].is = "cut" BY <1>2 DEF FileSet
<1>5. /\ disk' \in [AuthFiles -> FileSet] /\ disk'[n].is = "cut"
      /\ \A m \in AuthFiles \ {n} : disk'[m] = disk[m]
  BY <1>2, <1>3, <1>4
<1>6. PICK x : x = [work[r][n] EXCEPT !.pc = "write"] OBVIOUS
<1>7. /\ x \in WorkSet /\ Becomes(r, n, x) /\ x.pc = "write" /\ x.wrote <= writes'[n]
      /\ x.read = work[r][n].read
  BY <1>1, <1>6, WorkShapes
<1>8. /\ work'[r][n] = x /\ \A s \in Editors \ {r} : work'[s][n] = work[s][n]
  <2>1. EditTypes BY DEF EditInv
  <2> QED BY <1>7, <2>1, WorkAt
<1>9. FileSound(n)'
  <2> SUFFICES ASSUME n \in clean' PROVE FileSound(n)' BY DEF FileSound
  <2>1. n \in clean /\ Edits!Editing(n) \ {r} = {} BY <1>1
  <2>2. \A s \in Editors \ {r} : ~Changing(s, n) BY <2>1, NobodyEdits
  <2>3. work[r][n].read = want[n] /\ want[n].is = "whole" BY <1>1, <2>1 DEF EditInv, FileSound
  <2>4. \A s \in Editors \ {r} : work'[s][n].pc \notin {"open", "write"} BY <1>8, <2>2 DEF Changing
  <2>5. Changing(r, n)' BY <1>7, <1>8 DEF Changing
  <2> QED BY <1>1, <1>5, <1>7, <1>8, <2>3, <2>4, <2>5 DEF FileSound, Changing
<1>10. \A m \in AuthFiles : writes[m] <= writes'[m] BY <1>1, <1>2
<1>11. reqs[r].kind # "delete" BY <1>1 DEF EditInv, ReqSound
<1>12. clean' \subseteq clean /\ reqs' = reqs /\ x.pc # "none" /\ x.pc # "done" BY <1>1, <1>7
<1>13. want' \in [AuthFiles -> FileSet] /\ writes' \in [AuthFiles -> Nat]
       /\ \A m \in AuthFiles \ {n} : disk'[m] = disk[m] /\ want'[m] = want[m]
  BY <1>1, <1>2, <1>5
<1> QED BY <1>1, <1>5, <1>7, <1>9, <1>10, <1>11, <1>12, <1>13, Writes

\* A file is written, or cannot be.
LEMMA WriteKeeps ==
  ASSUME EditInv, NEW r \in Editors, NEW n \in AuthFiles, Edits!WriteAuthFile(r, n)
  PROVE  EditInv'
<1>1. reqs[r].pc = "run" /\ work[r][n].pc = "write" /\ Edits!Count(n) BY DEF Edits!WriteAuthFile, Edits!At
<1>2. /\ writes[n] \in Nat /\ writes \in [AuthFiles -> Nat] /\ disk \in [AuthFiles -> FileSet]
      /\ want \in [AuthFiles -> FileSet] /\ work[r][n] \in WorkSet /\ disk[n] \in FileSet
      /\ want[n] \in FileSet /\ reqs[r] \in ReqSet
  BY DEF EditInv, EditTypes
<1>3. reqs[r].kind # "delete" BY <1>1 DEF EditInv, ReqSound
<1>4. /\ writes' \in [AuthFiles -> Nat] /\ writes'[n] = writes[n] + 1
      /\ \A m \in AuthFiles : writes[m] <= writes'[m]
  BY <1>1, <1>2 DEF Edits!Count
<1>5. reqs[r].kind \in EditKinds \ {"delete"} /\ reqs[r].value \in EditValues /\ work[r][n].read \in FileSet
  BY <1>2, <1>3 DEF ReqSet, WorkSet
<1>6. CASE Edits!Failed(r, n) /\ Edits!Spoil(n) /\ UNCHANGED <<disk, want>>
  <2>1. PICK y \in WorkSet : Becomes(r, n, y) /\ y.pc = "done" /\ y.wrote = 0 BY <1>6, Ends
  <2>2. reqs' = [reqs EXCEPT ![r].ok = FALSE] BY <1>6, Ends
  <2>3. y.wrote <= writes'[n] /\ y.pc # "none" BY <1>2, <1>4, <2>1
  <2>4. clean' \subseteq clean /\ n \notin clean' BY <1>6 DEF Edits!Spoil
  <2>5. FileSound(n)' BY <2>4 DEF FileSound
  <2>6. /\ disk' \in [AuthFiles -> FileSet] /\ want' \in [AuthFiles -> FileSet]
        /\ \A m \in AuthFiles \ {n} : disk'[m] = disk[m] /\ want'[m] = want[m]
    BY <1>2, <1>6
  <2> QED BY <1>1, <1>3, <1>4, <2>1, <2>2, <2>3, <2>4, <2>5, <2>6, Writes
<1>7. ASSUME \/ disk[n].is # "gone" /\ disk' = [disk EXCEPT ![n] = Edits!Edited(r, n)]
             \/ disk[n].is = "whole" /\ disk' = [disk EXCEPT ![n].is = "cut"]
             \/ disk[n].is = "gone" /\ UNCHANGED disk,
             Edits!Ask(n, [want[n] EXCEPT ![reqs[r].kind] = reqs[r].value]), Edits!Overlap(r, n),
             Edits!Done(r, n), UNCHANGED reqs
      PROVE  EditInv'
  <2>1. PICK y \in WorkSet : Becomes(r, n, y) /\ y.pc = "done" /\ y.wrote = writes[n] + 1 BY <1>7, Ends
  <2>2. y.wrote <= writes'[n] /\ y.pc # "none" /\ y.wrote # 0 BY <1>2, <1>4, <2>1
  <2>3. PICK asks : asks = [want[n] EXCEPT ![reqs[r].kind] = reqs[r].value] OBVIOUS
  <2>4. asks \in FileSet BY <1>2, <1>5, <2>3, KeyChanged
  <2>5. want' = [want EXCEPT ![n] = asks] BY <1>7, <2>3 DEF Edits!Ask
  <2>6. want' \in [AuthFiles -> FileSet] /\ want'[n] = asks /\ \A m \in AuthFiles \ {n} : want'[m] = want[m]
    BY <1>2, <2>4, <2>5
  <2>7. PICK puts : puts = Edits!Edited(r, n) OBVIOUS
  <2>8. puts \in FileSet BY <1>5, <2>7, KeyChanged DEF Edits!Edited
  <2>9. /\ disk' \in [AuthFiles -> FileSet] /\ \A m \in AuthFiles \ {n} : disk'[m] = disk[m]
        /\ disk[n].is = "cut" => disk'[n] = puts
    <3>1. CASE disk[n].is # "gone" /\ disk' = [disk EXCEPT ![n] = Edits!Edited(r, n)]
      BY <1>2, <2>7, <2>8, <3>1
    <3>2. CASE disk[n].is = "whole" /\ disk' = [disk EXCEPT ![n].is = "cut"]
      <4>1. disk' = [disk EXCEPT ![n] = [disk[n] EXCEPT !.is = "cut"]] BY <1>2, <3>2
      <4>2. [disk[n] EXCEPT !.is = "cut"] \in FileSet BY <1>2 DEF FileSet
      <4> QED BY <1>2, <3>2, <4>1, <4>2
    <3>3. CASE disk[n].is = "gone" /\ UNCHANGED disk BY <1>2, <3>3
    <3> QED BY <1>7, <3>1, <3>2, <3>3
  <2>10. clean' = IF Edits!Editing(n) \ {r} = {} THEN clean ELSE clean \ {n} BY <1>7 DEF Edits!Overlap
  <2>11. /\ work'[r][n] = y /\ \A s \in Editors \ {r} : work'[s][n] = work[s][n]
    <3>1. EditTypes BY DEF EditInv
    <3> QED BY <2>1, <3>1, WorkAt
  <2>12. FileSound(n)'
    <3> SUFFICES ASSUME n \in clean' PROVE FileSound(n)' BY DEF FileSound
    <3>1. n \in clean /\ Edits!Editing(n) \ {r} = {} BY <2>10
    <3>2. \A s \in Editors \ {r} : ~Changing(s, n) BY <3>1, NobodyEdits
    <3>3. work[r][n].read = want[n] /\ disk[n].is = "cut" BY <1>1, <3>1 DEF EditInv, FileSound
    <3>4. puts = asks BY <2>3, <2>7, <3>3 DEF Edits!Edited
    <3>5. disk'[n] = want'[n] BY <2>6, <2>9, <3>3, <3>4
    <3>6. Agree(n)' BY <3>5 DEF Agree
    <3>7. \A s \in Editors : work'[s][n].pc \notin {"open", "write"} BY <2>1, <2>11, <3>2 DEF Changing
    <3> QED BY <3>6, <3>7, FileMoves
  <2>13. clean' \subseteq clean /\ \A m \in AuthFiles \ {n} : disk'[m] = disk[m] /\ want'[m] = want[m]
    BY <2>6, <2>9, <2>10
  <2> QED BY <1>1, <1>3, <1>4, <1>7, <2>1, <2>2, <2>6, <2>9, <2>12, <2>13, Writes
<1> QED BY <1>6, <1>7 DEF Edits!WriteAuthFile

\* CPA removes the files of a request, or does not.
LEMMA DeleteKeeps ==
  ASSUME EditInv, NEW r \in Editors, Edits!DeleteAuthFiles(r)
  PROVE  EditInv'
<1>1. reqs[r].pc = "run" /\ reqs[r].kind = "delete" BY DEF Edits!DeleteAuthFiles
<1>2. /\ writes \in [AuthFiles -> Nat] /\ disk \in [AuthFiles -> FileSet] /\ reqs[r] \in ReqSet
      /\ want \in [AuthFiles -> FileSet] /\ work \in [Editors -> [AuthFiles -> WorkSet]]
      /\ reqs \in [Editors -> ReqSet] /\ clean \subseteq AuthFiles
  BY DEF EditInv, EditTypes
<1>3. reqs[r].names \subseteq AuthFiles BY <1>2 DEF ReqSet
<1>4. \A n \in AuthFiles : ~Changing(r, n) BY <1>1 DEF EditInv, ReqSound, Changing
<1>5. ASSUME NEW m \in [AuthFiles -> WorkSet], work' = [work EXCEPT ![r] = m],
             \A n \in AuthFiles : m[n].pc \in {"none", "done"} /\ m[n].wrote <= writes'[n],
             \A n \in reqs[r].names : m[n].pc # "none",
             writes' \in [AuthFiles -> Nat], \A n \in AuthFiles : writes[n] <= writes'[n],
             disk' \in [AuthFiles -> FileSet], want' \in [AuthFiles -> FileSet], clean' \subseteq clean,
             \/ reqs' = reqs /\ \A n \in AuthFiles : m[n].pc = "done" => m[n].wrote # 0
             \/ reqs' = [reqs EXCEPT ![r].ok = FALSE],
             \A n \in AuthFiles : \/ disk'[n] = disk[n] /\ want'[n] = want[n]
                                  \/ n \in clean' => Edits!Editing(n) = {} /\ (Agree(n) => Agree(n)')
      PROVE  EditInv'
  <2>1. /\ work' \in [Editors -> [AuthFiles -> WorkSet]] /\ work'[r] = m
        /\ \A s \in Editors \ {r} : work'[s] = work[s]
    BY <1>2, <1>5
  <2>2. /\ reqs' \in [Editors -> ReqSet] /\ \A s \in Editors \ {r} : reqs'[s] = reqs[s]
        /\ reqs'[r].pc = "run" /\ reqs'[r].kind = "delete" /\ reqs'[r].names = reqs[r].names
        /\ reqs'[r].ok => \A n \in AuthFiles : m[n].pc = "done" => m[n].wrote # 0
    <3>1. CASE reqs' = reqs /\ \A n \in AuthFiles : m[n].pc = "done" => m[n].wrote # 0 BY <1>1, <1>2, <3>1
    <3>2. CASE reqs' = [reqs EXCEPT ![r].ok = FALSE]
      <4>1. EditTypes BY DEF EditInv
      <4> QED BY <1>1, <3>2, <4>1, NotOk
    <3> QED BY <1>5, <3>1, <3>2
  <2>3. EditTypes' BY <1>2, <1>5, <2>1, <2>2 DEF EditTypes
  <2>4. ASSUME NEW s \in Editors \ {r} PROVE ReqSound(s)'
    <3>1. \A n \in AuthFiles : work[s][n].wrote \in Nat /\ work[s][n].wrote <= writes[n]
      BY <1>2 DEF EditInv, ReqSound, WorkSet
    <3>2. \A n \in AuthFiles : work[s][n].wrote <= writes'[n] BY <1>2, <1>5, <3>1
    <3> QED BY <2>1, <2>2, <3>2 DEF EditInv, ReqSound
  <2>5. ReqSound(r)' BY <1>3, <1>5, <2>1, <2>2 DEF ReqSound
  <2>6. ASSUME NEW n \in AuthFiles PROVE FileSound(n)'
    <3>1. work'[r][n].pc \notin {"open", "write"} /\ ~Changing(r, n) BY <1>4, <1>5, <2>1
    <3>2. CASE disk'[n] = disk[n] /\ want'[n] = want[n]
      <4>1. \A s \in Editors : \/ work'[s][n] = work[s][n]
                               \/ ~Changing(s, n) /\ work'[s][n].pc \notin {"open", "write"}
        BY <2>1, <3>1
      <4>2. n \in clean' => n \in clean BY <1>5
      <4> QED BY <3>2, <4>1, <4>2, FileStays
    <3>3. CASE n \notin clean' BY <3>3 DEF FileSound
    <3>4. CASE n \in clean' /\ Edits!Editing(n) = {} /\ (Agree(n) => Agree(n)')
      <4>1. \A s \in Editors : ~Changing(s, n) BY <3>4, NobodyEdits
      <4>2. Agree(n) BY <1>5, <3>4, <4>1 DEF EditInv, FileSound
      <4>3. \A s \in Editors : work'[s][n].pc \notin {"open", "write"} BY <2>1, <3>1, <4>1 DEF Changing
      <4> QED BY <3>4, <4>2, <4>3, FileMoves
    <3> QED BY <1>5, <3>2, <3>3, <3>4
  <2> QED BY <2>3, <2>4, <2>5, <2>6 DEF EditInv
<1>6. CASE /\ work' = [work EXCEPT ![r] = [n \in AuthFiles |-> [Edits!NoWork EXCEPT !.pc = "done"]]]
           /\ reqs' = [reqs EXCEPT ![r].ok = FALSE] /\ UNCHANGED <<disk, want, writes, clean>>
  <2>1. PICK m : m = [n \in AuthFiles |-> [Edits!NoWork EXCEPT !.pc = "done"]] OBVIOUS
  <2>2. PICK y : y = [Edits!NoWork EXCEPT !.pc = "done"] OBVIOUS
  <2>3. \A n \in AuthFiles : y \in WorkSet /\ y.pc = "done" /\ y.wrote = 0 BY <2>2, WorkShapes
  <2>4. \A n \in AuthFiles : m[n] = y BY <2>1, <2>2
  <2>5. m \in [AuthFiles -> WorkSet] BY <2>1, <2>3, <2>4
  <2>6. \A n \in AuthFiles : m[n].pc \in {"none", "done"} /\ m[n].pc # "none" /\ m[n].wrote <= writes'[n]
    BY <1>2, <1>6, <2>3, <2>4
  <2>7. work' = [work EXCEPT ![r] = m] BY <1>6, <2>1
  <2>8. \A n \in AuthFiles : writes[n] <= writes'[n] /\ disk'[n] = disk[n] /\ want'[n] = want[n] BY <1>2, <1>6
  <2>9. \A n \in reqs[r].names : m[n].pc # "none" BY <1>3, <2>6
  <2> QED BY <1>2, <1>5, <1>6, <2>5, <2>6, <2>7, <2>8, <2>9
<1>7. ASSUME disk' = [n \in AuthFiles |-> IF n \in reqs[r].names THEN [disk[n] EXCEPT !.is = "gone"] ELSE disk[n]],
             want' = [n \in AuthFiles |-> IF n \in reqs[r].names THEN [want[n] EXCEPT !.is = "gone"] ELSE want[n]],
             writes' = [n \in AuthFiles |-> IF n \in reqs[r].names THEN writes[n] + 1 ELSE writes[n]],
             clean' = clean \ {n \in reqs[r].names : Edits!Editing(n) # {}},
             work' = [work EXCEPT ![r] = [n \in AuthFiles |->
               IF n \in reqs[r].names THEN [Edits!NoWork EXCEPT !.pc = "done", !.wrote = writes[n] + 1] ELSE Edits!NoWork]],
             \/ UNCHANGED reqs
             \/ reqs' = [reqs EXCEPT ![r].ok = FALSE]
      PROVE  EditInv'
  <2>1. PICK m : m = [n \in AuthFiles |->
          IF n \in reqs[r].names THEN [Edits!NoWork EXCEPT !.pc = "done", !.wrote = writes[n] + 1] ELSE Edits!NoWork]
    OBVIOUS
  <2>2. work' = [work EXCEPT ![r] = m] BY <1>7, <2>1
  <2>3. writes' \in [AuthFiles -> Nat] /\ \A n \in AuthFiles : writes[n] <= writes'[n]
    <3>1. \A n \in AuthFiles : writes[n] \in Nat BY <1>2
    <3>2. writes' = [n \in AuthFiles |-> IF n \in reqs[r].names THEN writes[n] + 1 ELSE writes[n]] BY <1>7
    <3>3. \A n \in AuthFiles : writes'[n] \in Nat /\ writes[n] <= writes'[n] BY <3>1, <3>2
    <3> QED BY <3>2, <3>3
  <2>4. ASSUME NEW n \in AuthFiles
        PROVE  /\ m[n] \in WorkSet /\ m[n].pc \in {"none", "done"} /\ m[n].wrote <= writes'[n]
               /\ n \in reqs[r].names => m[n].pc # "none"
               /\ m[n].pc = "done" => m[n].wrote # 0
    <3>1. writes[n] \in Nat /\ writes'[n] = IF n \in reqs[r].names THEN writes[n] + 1 ELSE writes[n] BY <1>2, <1>7
    <3>2. CASE n \in reqs[r].names
      <4>1. PICK y : y = [Edits!NoWork EXCEPT !.pc = "done", !.wrote = writes[n] + 1] OBVIOUS
      <4>2. y \in WorkSet /\ y.pc = "done" /\ y.wrote = writes[n] + 1 BY <4>1, WorkShapes
      <4>3. m[n] = y BY <2>1, <3>2, <4>1
      <4> QED BY <3>1, <3>2, <4>2, <4>3
    <3>3. CASE n \notin reqs[r].names
      <4>1. m[n] = Edits!NoWork BY <2>1, <3>3
      <4>2. m[n] \in WorkSet /\ m[n].pc = "none" /\ m[n].wrote = 0 BY <4>1, NewShapes
      <4> QED BY <3>1, <3>3, <4>2
    <3> QED BY <3>2, <3>3
  <2>5. m \in [AuthFiles -> WorkSet] BY <2>1, <2>4
  <2>6. \A f \in FileSet : [f EXCEPT !.is = "gone"] \in FileSet /\ [f EXCEPT !.is = "gone"].is = "gone" BY DEF FileSet
  <2>7. \A n \in AuthFiles : disk[n] \in FileSet /\ want[n] \in FileSet BY <1>2
  <2>8. disk' \in [AuthFiles -> FileSet] /\ want' \in [AuthFiles -> FileSet] BY <1>7, <2>6, <2>7
  <2>9. ASSUME NEW n \in AuthFiles
        PROVE  \/ disk'[n] = disk[n] /\ want'[n] = want[n]
               \/ n \in clean' => Edits!Editing(n) = {} /\ (Agree(n) => Agree(n)')
    <3>1. CASE n \notin reqs[r].names BY <1>7, <3>1
    <3>2. CASE n \in reqs[r].names
      <4>1. n \in clean' => Edits!Editing(n) = {} BY <1>7, <3>2
      <4>2. disk'[n] = [disk[n] EXCEPT !.is = "gone"] /\ want'[n] = [want[n] EXCEPT !.is = "gone"] BY <1>7, <3>2
      <4>3. disk'[n].is = "gone" /\ want'[n].is = "gone" BY <2>6, <2>7, <4>2
      <4>4. Agree(n)' BY <4>3 DEF Agree
      <4> QED BY <4>1, <4>4
    <3> QED BY <3>1, <3>2
  <2>10. clean' \subseteq clean BY <1>7
  <2>11. \A n \in reqs[r].names : m[n].pc # "none" BY <1>3, <2>4
  <2> QED BY <1>5, <1>7, <2>2, <2>3, <2>4, <2>5, <2>8, <2>9, <2>10, <2>11
<1> QED BY <1>6, <1>7 DEF Edits!DeleteAuthFiles

\* A request goes on while its goroutines, and the files, stay as they are.
LEMMA RequestGoesOn ==
  ASSUME EditInv, NEW r \in Editors, NEW x \in ReqSet, reqs' = [reqs EXCEPT ![r] = x],
         UNCHANGED <<disk, writes, work, want, clean>>,
         x.pc # "run" => \A n \in AuthFiles : work[r][n].pc \in {"none", "done"},
         x.kind = reqs[r].kind, x.names = reqs[r].names, reqs[r].pc # "idle", x.pc # "idle",
         x.ok => reqs[r].ok,
         x.pc = "store" \/ (x.pc = "answered" /\ x.ok /\ x.kind # "status") =>
           \A n \in AuthFiles : work[r][n].wrote <= x.told[n]
  PROVE  EditInv'
<1>1. reqs \in [Editors -> ReqSet] BY DEF EditInv, EditTypes
<1>2. reqs' \in [Editors -> ReqSet] /\ reqs'[r] = x /\ \A s \in Editors \ {r} : reqs'[s] = reqs[s] BY <1>1
<1>3. EditTypes' BY <1>2 DEF EditInv, EditTypes
<1>4. \A s \in Editors \ {r} : ReqSound(s)' BY <1>2 DEF EditInv, ReqSound
<1>5. ReqSound(r)' BY <1>2 DEF EditInv, ReqSound
<1>6. \A n \in AuthFiles : FileSound(n)' BY DEF EditInv, FileSound, Changing, Agree
<1> QED BY <1>3, <1>4, <1>5, <1>6 DEF EditInv

\* The browser goes away; the answer; the metadata after it.
LEMMA AnswerKeeps ==
  ASSUME EditInv, NEW r \in Editors,
         Edits!Cancel(r) \/ Edits!Answer(r) \/ Edits!FetchAuthFiles(r) \/ Edits!SyncAuthFiles(r)
  PROVE  EditInv'
<1>1. /\ reqs \in [Editors -> ReqSet] /\ reqs[r] \in ReqSet /\ writes \in [AuthFiles -> Nat] /\ ReqSound(r)
      /\ \A n \in AuthFiles : work[r][n].wrote <= writes[n]
  BY DEF EditInv, EditTypes, ReqSound
<1>2. UNCHANGED <<disk, writes, work, want, clean>>
  BY DEF Edits!Cancel, Edits!Answer, Edits!FetchAuthFiles, Edits!SyncAuthFiles
<1>3. reqs[r] = [pc |-> reqs[r].pc, kind |-> reqs[r].kind, names |-> reqs[r].names, value |-> reqs[r].value,
                 ok |-> reqs[r].ok, cancelled |-> reqs[r].cancelled, told |-> reqs[r].told]
  BY <1>1 DEF ReqSet
<1>4. /\ reqs[r].kind \in EditKinds /\ reqs[r].names \subseteq AuthFiles /\ reqs[r].value \in EditValues
      /\ reqs[r].told \in [AuthFiles -> Nat] /\ reqs[r].pc \in {"idle", "run", "sync", "store", "answered"}
  BY <1>1 DEF ReqSet
<1>5. reqs[r].ok \in BOOLEAN /\ reqs[r].cancelled \in BOOLEAN BY <1>1 DEF ReqSet
<1>6. CASE Edits!Cancel(r)
  <2>1. reqs[r].pc \in {"run", "sync", "store"} /\ reqs' = [reqs EXCEPT ![r].cancelled = TRUE] BY <1>6 DEF Edits!Cancel
  <2>2. PICK x : x = [reqs[r] EXCEPT !.cancelled = TRUE] OBVIOUS
  <2>3. reqs' = [reqs EXCEPT ![r] = x] BY <1>1, <2>1, <2>2
  <2>4. x = [pc |-> reqs[r].pc, kind |-> reqs[r].kind, names |-> reqs[r].names, value |-> reqs[r].value,
             ok |-> reqs[r].ok, cancelled |-> TRUE, told |-> reqs[r].told]
    BY <1>3, <2>2
  <2>5. x \in ReqSet BY <1>4, <1>5, <2>4 DEF ReqSet
  <2>6. /\ x.pc = reqs[r].pc /\ x.kind = reqs[r].kind /\ x.names = reqs[r].names /\ (x.ok => reqs[r].ok)
        /\ x.told = reqs[r].told
    BY <2>4
  <2>7. x.pc # "run" => \A n \in AuthFiles : work[r][n].pc \in {"none", "done"} BY <1>1, <2>6 DEF ReqSound
  <2>8. x.pc = "store" => \A n \in AuthFiles : work[r][n].wrote <= x.told[n] BY <1>1, <2>6 DEF ReqSound
  <2>9. reqs[r].pc # "idle" /\ x.pc # "idle" /\ x.pc # "answered" BY <2>1, <2>6
  <2> QED BY <1>2, <2>3, <2>5, <2>6, <2>7, <2>8, <2>9, RequestGoesOn
<1>7. CASE Edits!Answer(r)
  <2>1. PICK pc \in {"sync", "answered"} :
          /\ reqs' = [reqs EXCEPT ![r].pc = pc]
          /\ pc = "answered" /\ reqs[r].ok => reqs[r].kind = "status"
    BY <1>7 DEF Edits!Answer
  <2>2. reqs[r].pc = "run" /\ \A n \in AuthFiles : work[r][n].pc \in {"none", "done"}
    BY <1>7 DEF Edits!Answer, Edits!Waited, Edits!AtRest
  <2>3. PICK x : x = [reqs[r] EXCEPT !.pc = pc] OBVIOUS
  <2>4. reqs' = [reqs EXCEPT ![r] = x] BY <1>1, <2>1, <2>3
  <2>5. x = [pc |-> pc, kind |-> reqs[r].kind, names |-> reqs[r].names, value |-> reqs[r].value,
             ok |-> reqs[r].ok, cancelled |-> reqs[r].cancelled, told |-> reqs[r].told]
    BY <1>3, <2>3
  <2>6. x \in ReqSet BY <1>4, <1>5, <2>5 DEF ReqSet
  <2>7. x.pc = pc /\ x.kind = reqs[r].kind /\ x.names = reqs[r].names /\ (x.ok => reqs[r].ok) BY <2>5
  <2>8. ~(x.pc = "store" \/ (x.pc = "answered" /\ x.ok /\ x.kind # "status")) BY <2>1, <2>7
  <2> QED BY <1>2, <2>1, <2>2, <2>4, <2>6, <2>7, <2>8, RequestGoesOn
<1>8. ASSUME reqs[r].pc \in {"sync", "store"}, reqs' = [reqs EXCEPT ![r].pc = "answered", ![r].ok = FALSE]
      PROVE  EditInv'
  <2>1. PICK x : x = [reqs[r] EXCEPT !.pc = "answered", !.ok = FALSE] OBVIOUS
  <2>2. reqs' = [reqs EXCEPT ![r] = x] BY <1>1, <1>8, <2>1
  <2>3. x = [pc |-> "answered", kind |-> reqs[r].kind, names |-> reqs[r].names, value |-> reqs[r].value,
             ok |-> FALSE, cancelled |-> reqs[r].cancelled, told |-> reqs[r].told]
    BY <1>3, <2>1
  <2>4. x \in ReqSet BY <1>4, <1>5, <2>3 DEF ReqSet
  <2>5. x.pc = "answered" /\ x.kind = reqs[r].kind /\ x.names = reqs[r].names /\ ~x.ok BY <2>3
  <2>6. \A n \in AuthFiles : work[r][n].pc \in {"none", "done"} BY <1>1, <1>8 DEF ReqSound
  <2> QED BY <1>2, <1>8, <2>2, <2>4, <2>5, <2>6, RequestGoesOn
<1>9. ASSUME reqs[r].pc = "sync", reqs' = [reqs EXCEPT ![r].pc = "store", ![r].told = writes] PROVE EditInv'
  <2>1. PICK x : x = [reqs[r] EXCEPT !.pc = "store", !.told = writes] OBVIOUS
  <2>2. reqs' = [reqs EXCEPT ![r] = x] BY <1>1, <1>9, <2>1
  <2>3. x = [pc |-> "store", kind |-> reqs[r].kind, names |-> reqs[r].names, value |-> reqs[r].value,
             ok |-> reqs[r].ok, cancelled |-> reqs[r].cancelled, told |-> writes]
    BY <1>3, <2>1
  <2>4. x \in ReqSet BY <1>1, <1>4, <1>5, <2>3 DEF ReqSet
  <2>5. /\ x.pc = "store" /\ x.kind = reqs[r].kind /\ x.names = reqs[r].names /\ (x.ok => reqs[r].ok)
        /\ x.told = writes
    BY <2>3
  <2>6. \A n \in AuthFiles : work[r][n].pc \in {"none", "done"} BY <1>1, <1>9 DEF ReqSound
  <2> QED BY <1>1, <1>2, <1>9, <2>2, <2>4, <2>5, <2>6, RequestGoesOn
<1>10. ASSUME reqs[r].pc = "store", reqs' = [reqs EXCEPT ![r].pc = "answered"] PROVE EditInv'
  <2>1. PICK x : x = [reqs[r] EXCEPT !.pc = "answered"] OBVIOUS
  <2>2. reqs' = [reqs EXCEPT ![r] = x] BY <1>1, <1>10, <2>1
  <2>3. x = [pc |-> "answered", kind |-> reqs[r].kind, names |-> reqs[r].names, value |-> reqs[r].value,
             ok |-> reqs[r].ok, cancelled |-> reqs[r].cancelled, told |-> reqs[r].told]
    BY <1>3, <2>1
  <2>4. x \in ReqSet BY <1>4, <1>5, <2>3 DEF ReqSet
  <2>5. /\ x.pc = "answered" /\ x.kind = reqs[r].kind /\ x.names = reqs[r].names /\ (x.ok => reqs[r].ok)
        /\ x.told = reqs[r].told
    BY <2>3
  <2>6. \A n \in AuthFiles : work[r][n].pc \in {"none", "done"} /\ work[r][n].wrote <= reqs[r].told[n]
    BY <1>1, <1>10 DEF ReqSound
  <2> QED BY <1>2, <1>10, <2>2, <2>4, <2>5, <2>6, RequestGoesOn
<1> QED BY <1>6, <1>7, <1>8, <1>9, <1>10 DEF Edits!FetchAuthFiles, Edits!SyncAuthFiles

\* Every step of the requests, and of CPA, keeps it.
LEMMA EditStepKeeps == EditInv /\ Edits!Next => EditInv'
<1> SUFFICES ASSUME EditInv, Edits!Next PROVE EditInv' OBVIOUS
<1>1. ASSUME NEW n \in AuthFiles, Edits!CpaWrites(n) PROVE EditInv' BY <1>1, CpaWritesKeeps
<1>2. ASSUME NEW r \in Editors, NEW kind \in EditKinds, Edits!Request(r, kind) PROVE EditInv' BY <1>2, RequestKeeps
<1>3. ASSUME NEW r \in Editors, Edits!DeleteAuthFiles(r) PROVE EditInv' BY <1>3, DeleteKeeps
<1>4. ASSUME NEW r \in Editors,
             Edits!Cancel(r) \/ Edits!Answer(r) \/ Edits!FetchAuthFiles(r) \/ Edits!SyncAuthFiles(r)
      PROVE  EditInv'
  BY <1>4, AnswerKeeps
<1>5. ASSUME NEW r \in Editors, NEW n \in AuthFiles, Edits!TakeSlot(r, n) \/ Edits!Skipped(r, n)
      PROVE  EditInv'
  BY <1>5, SlotKeeps
<1>6. ASSUME NEW r \in Editors, NEW n \in AuthFiles, Edits!UpdateAuthFileStatus(r, n) PROVE EditInv'
  BY <1>6, StatusKeeps
<1>7. ASSUME NEW r \in Editors, NEW n \in AuthFiles, Edits!ReadAuthFile(r, n) PROVE EditInv' BY <1>7, ReadKeeps
<1>8. ASSUME NEW r \in Editors, NEW n \in AuthFiles, Edits!OpenAuthFile(r, n) PROVE EditInv' BY <1>8, OpenKeeps
<1>9. ASSUME NEW r \in Editors, NEW n \in AuthFiles, Edits!WriteAuthFile(r, n) PROVE EditInv' BY <1>9, WriteKeeps
<1> QED BY <1>1, <1>2, <1>3, <1>4, <1>5, <1>6, <1>7, <1>8, <1>9 DEF Edits!Next, EditKinds

\* So does a step that leaves files and requests alone.
LEMMA EditStutters == EditInv /\ UNCHANGED <<disk, writes, reqs, work, want, clean>> => EditInv'
BY DEF EditInv, EditTypes, ReqSound, FileSound, Changing, Agree

\* Answered requests are over and complete, and changes that do not overlap add up.
LEMMA EditSafe == EditInv => Edits!AnswersAreFinal /\ Edits!EditsAddUp
<1> SUFFICES ASSUME EditInv PROVE Edits!AnswersAreFinal /\ Edits!EditsAddUp OBVIOUS
<1>1. Edits!AnswersAreFinal
  <2> SUFFICES ASSUME NEW r \in Editors, reqs[r].pc \in {"sync", "store", "answered"}
               PROVE  /\ Edits!AtRest(r)
                      /\ reqs[r].pc = "answered" /\ reqs[r].ok =>
                           \A n \in reqs[r].names :
                             /\ work[r][n].wrote # 0
                             /\ reqs[r].kind # "status" => reqs[r].told[n] >= work[r][n].wrote
    BY DEF Edits!AnswersAreFinal
  <2>1. Edits!AtRest(r) BY DEF EditInv, ReqSound, Edits!AtRest
  <2>2. ASSUME reqs[r].pc = "answered", reqs[r].ok, NEW n \in reqs[r].names
        PROVE  /\ work[r][n].wrote # 0
               /\ reqs[r].kind # "status" => reqs[r].told[n] >= work[r][n].wrote
    <3>1. n \in AuthFiles /\ work[r][n].wrote \in Nat /\ reqs[r].told[n] \in Nat
      BY <2>2 DEF EditInv, EditTypes, ReqSet, WorkSet
    <3>2. work[r][n].pc = "done" BY <2>2, <3>1 DEF EditInv, ReqSound
    <3>3. work[r][n].wrote # 0 BY <2>2, <3>1, <3>2 DEF EditInv, ReqSound
    <3>4. reqs[r].kind # "status" => work[r][n].wrote <= reqs[r].told[n] BY <2>2, <3>1 DEF EditInv, ReqSound
    <3> QED BY <3>1, <3>3, <3>4
  <2> QED BY <2>1, <2>2
<1>2. Edits!EditsAddUp
  <2> SUFFICES ASSUME NEW n \in clean, Edits!Editing(n) = {}
               PROVE  disk[n].is = want[n].is /\ (disk[n].is = "whole" => disk[n] = want[n])
    BY DEF Edits!EditsAddUp
  <2>1. n \in AuthFiles BY DEF EditInv, EditTypes
  <2>2. \A r \in Editors : ~Changing(r, n) BY NobodyEdits
  <2> QED BY <2>1, <2>2 DEF EditInv, FileSound, Agree
<1> QED BY <1>1, <1>2

-----------------------------------------------------------------------------
(* Resets of quotas.                                                        *)

\* The types of requests; one at work on a credential, with its entry; no more successes are told
\* than credits were redeemed.
ResetSet == [pc : {"idle", "look", "redeem", "finish"}, auth : AuthIndexes \cup {"none"}, ok : BOOLEAN]

Resetting(r, a) == resets[r].pc # "idle" /\ resets[r].auth = a

\* A request that has redeemed a credit and not answered yet.
Owes(r, a) == resets[r].pc = "finish" /\ resets[r].ok /\ resets[r].auth = a

ResetTypes ==
  /\ resets \in [Resetters -> ResetSet]
  /\ redeemed \in [AuthIndexes -> Nat] /\ told \in [AuthIndexes -> Nat]
  /\ \A r \in Resetters : resets[r].pc # "idle" => resets[r].auth \in AuthIndexes
  /\ \A r \in Resetters : resets[r].ok => resets[r].pc = "finish"

EntriesHeld ==
  /\ inFlight \subseteq AuthIndexes
  /\ \A a \in AuthIndexes : a \in inFlight <=> \E r \in Resetters : Resetting(r, a)
OneReset == \A a \in AuthIndexes : \A r, s \in Resetters : Resetting(r, a) /\ Resetting(s, a) => r = s

ResetsCredited ==
  \A a \in AuthIndexes :
    told[a] <= redeemed[a] /\ ((\E r \in Resetters : Owes(r, a)) => told[a] < redeemed[a])

ResetInv == ResetTypes /\ EntriesHeld /\ OneReset /\ ResetsCredited

\* It holds before any request.
LEMMA ResetInvInit == Resets!Init => ResetInv
BY DEF Resets!Init, ResetInv, ResetTypes, EntriesHeld, OneReset, ResetsCredited, Resetting, Owes, ResetSet, Resets!NoReset

\* A new request takes a credential that nobody works on.
LEMMA BeginResetKeeps ==
  ASSUME NEW r \in Resetters, ResetInv, Resets!BeginReset(r)
  PROVE  ResetInv'
<1> USE DEF ResetInv
<1>1. PICK a \in AuthIndexes \ inFlight :
        /\ resets' = [resets EXCEPT ![r] = [pc |-> "look", auth |-> a, ok |-> FALSE]]
        /\ inFlight' = inFlight \cup {a}
  BY DEF Resets!BeginReset, Resets!Become
<1>2. resets[r].pc = "idle" /\ UNCHANGED <<redeemed, told>> BY DEF Resets!BeginReset, Resets!At
<1>3. resets'[r] = [pc |-> "look", auth |-> a, ok |-> FALSE]
  BY <1>1 DEF ResetTypes, Resets!NoReset
<1>4. \A s \in Resetters \ {r} : resets'[s] = resets[s] BY <1>1 DEF ResetTypes
<1>5. ResetTypes' BY <1>1, <1>2, <1>3, <1>4 DEF ResetTypes, ResetSet
<1>6. \A s \in Resetters, b \in AuthIndexes : Resetting(s, b)' <=> Resetting(s, b) \/ (s = r /\ b = a)
  BY <1>2, <1>3, <1>4 DEF Resetting
<1>7. \A s \in Resetters : ~Resetting(s, a) BY <1>1 DEF EntriesHeld
<1>8. EntriesHeld' BY <1>1, <1>6 DEF EntriesHeld
<1>9. OneReset' BY <1>6, <1>7 DEF OneReset
<1>10. \A s \in Resetters, b \in AuthIndexes : Owes(s, b)' => Owes(s, b)
  BY <1>3, <1>4 DEF Owes
<1>11. ResetsCredited' BY <1>2, <1>10 DEF ResetsCredited
<1> QED BY <1>5, <1>8, <1>9, <1>11

\* Looking up, and redeeming a credit or not, leave the entry with its request.
LEMMA ResetWorkKeeps ==
  ASSUME NEW r \in Resetters, ResetInv, Resets!LookUpIdentity(r) \/ Resets!Redeem(r)
  PROVE  ResetInv'
<1> USE DEF ResetInv
<1> DEFINE a == resets[r].auth
<1>1. /\ resets[r].pc \in {"look", "redeem"} /\ a \in AuthIndexes
      /\ UNCHANGED <<inFlight, told>>
  BY DEF Resets!LookUpIdentity, Resets!Redeem, Resets!At, ResetTypes
<1>2. \E pc \in {"redeem", "finish"}, ok \in BOOLEAN :
        /\ resets' = [resets EXCEPT ![r] = [pc |-> pc, auth |-> a, ok |-> ok]]
        /\ ok => pc = "finish" /\ redeemed' = [redeemed EXCEPT ![a] = @ + 1]
        /\ ~ok => redeemed' = redeemed \/ redeemed' = [redeemed EXCEPT ![a] = @ + 1]
  <2>1. CASE Resets!LookUpIdentity(r) BY <2>1 DEF Resets!LookUpIdentity, Resets!Goto, Resets!Become
  <2>2. CASE Resets!Redeem(r) BY <2>2 DEF Resets!Redeem, Resets!Understood, Resets!Goto, Resets!Become
  <2> QED BY <2>1, <2>2
<1>3. PICK pc \in {"redeem", "finish"}, ok \in BOOLEAN :
        /\ resets' = [resets EXCEPT ![r] = [pc |-> pc, auth |-> a, ok |-> ok]]
        /\ ok => pc = "finish" /\ redeemed' = [redeemed EXCEPT ![a] = @ + 1]
        /\ ~ok => redeemed' = redeemed \/ redeemed' = [redeemed EXCEPT ![a] = @ + 1]
  BY <1>2
<1>4. resets'[r] = [pc |-> pc, auth |-> a, ok |-> ok] BY <1>3 DEF ResetTypes, ResetSet
<1>5. \A s \in Resetters \ {r} : resets'[s] = resets[s] BY <1>3 DEF ResetTypes
<1>6. redeemed' \in [AuthIndexes -> Nat] BY <1>1, <1>3 DEF ResetTypes
<1>7. ResetTypes' BY <1>1, <1>3, <1>4, <1>5, <1>6 DEF ResetTypes, ResetSet
<1>8. \A s \in Resetters, b \in AuthIndexes : Resetting(s, b)' <=> Resetting(s, b)
  BY <1>1, <1>4, <1>5 DEF Resetting
<1>9. EntriesHeld' /\ OneReset' BY <1>1, <1>8 DEF EntriesHeld, OneReset
<1>10. \A b \in AuthIndexes : redeemed'[b] >= redeemed[b] BY <1>1, <1>3 DEF ResetTypes
<1>11. ok => redeemed'[a] = redeemed[a] + 1 BY <1>1, <1>3 DEF ResetTypes
<1>12. \A s \in Resetters, b \in AuthIndexes : Owes(s, b)' => Owes(s, b) \/ (b = a /\ ok)
  BY <1>4, <1>5 DEF Owes
<1>13. ResetsCredited' BY <1>1, <1>10, <1>11, <1>12, <1>6 DEF ResetsCredited, ResetTypes
<1> QED BY <1>7, <1>9, <1>13

\* The end of a request gives its entry back, and is told at most what it redeemed.
LEMMA FinishResetKeeps ==
  ASSUME NEW r \in Resetters, ResetInv, Resets!FinishReset(r)
  PROVE  ResetInv'
<1> USE DEF ResetInv
<1> DEFINE a == resets[r].auth
<1>1. /\ resets[r].pc = "finish" /\ a \in AuthIndexes
      /\ resets' = [resets EXCEPT ![r] = Resets!NoReset] /\ inFlight' = inFlight \ {a}
      /\ redeemed' = redeemed
      /\ told' = IF resets[r].ok THEN [told EXCEPT ![a] = @ + 1] ELSE told
  BY DEF Resets!FinishReset, Resets!At, Resets!Told, ResetTypes
<1>2. resets'[r] = Resets!NoReset /\ \A s \in Resetters \ {r} : resets'[s] = resets[s]
  BY <1>1 DEF ResetTypes
<1>3. told' \in [AuthIndexes -> Nat] BY <1>1 DEF ResetTypes
<1>4. ResetTypes' BY <1>1, <1>2, <1>3 DEF ResetTypes, ResetSet, Resets!NoReset
<1>5. \A s \in Resetters, b \in AuthIndexes : Resetting(s, b)' <=> Resetting(s, b) /\ s # r
  BY <1>2 DEF Resetting, Resets!NoReset
<1>6. Resetting(r, a) /\ \A b \in AuthIndexes : Resetting(r, b) => b = a BY <1>1 DEF Resetting
<1>7. EntriesHeld' BY <1>1, <1>5, <1>6 DEF EntriesHeld, OneReset
<1>8. OneReset' BY <1>5 DEF OneReset
<1>9. \A s \in Resetters, b \in AuthIndexes : Owes(s, b)' => Owes(s, b) /\ s # r
  BY <1>2 DEF Owes, Resets!NoReset
<1>10. \A s \in Resetters : s # r => ~Owes(s, a) BY <1>1, <1>6 DEF Owes, Resetting, OneReset
<1>11. ResetsCredited'
  <2> SUFFICES ASSUME NEW b \in AuthIndexes
               PROVE  /\ told'[b] <= redeemed'[b]
                      /\ (\E s \in Resetters : Owes(s, b)') => told'[b] < redeemed'[b]
    BY DEF ResetsCredited
  <2>1. CASE b # a
    <3>1. told'[b] = told[b] BY <1>1, <2>1 DEF ResetTypes
    <3> QED BY <1>1, <1>9, <3>1 DEF ResetsCredited
  <2>2. CASE b = a
    <3>1. told'[a] <= redeemed[a]
      <4>1. resets[r].ok => told[a] < redeemed[a] BY <1>1 DEF Owes, ResetsCredited
      <4> QED BY <1>1, <4>1 DEF ResetTypes, ResetsCredited
    <3>2. ~\E s \in Resetters : Owes(s, b)' BY <1>9, <1>10, <2>2
    <3> QED BY <1>1, <2>2, <3>1, <3>2
  <2> QED BY <2>1, <2>2
<1> QED BY <1>4, <1>7, <1>8, <1>11

\* Every step keeps it.
LEMMA ResetStepKeeps == ResetInv /\ [Resets!Next]_resetVars => ResetInv'
<1> SUFFICES ASSUME ResetInv, [Resets!Next]_resetVars PROVE ResetInv' OBVIOUS
<1>1. CASE UNCHANGED <<inFlight, resets, redeemed, told>>
  BY <1>1 DEF ResetInv, ResetTypes, EntriesHeld, OneReset, ResetsCredited, Resetting, Owes
<1>2. CASE UNCHANGED resetVars BY <1>1, <1>2 DEF resetVars
<1>3. CASE Resets!SyncIdentity BY <1>1, <1>3 DEF Resets!SyncIdentity
<1>4. ASSUME NEW r \in Resetters, Resets!BeginReset(r) PROVE ResetInv' BY <1>4, BeginResetKeeps
<1>5. ASSUME NEW r \in Resetters, Resets!LookUpIdentity(r) \/ Resets!Redeem(r) PROVE ResetInv' BY <1>5, ResetWorkKeeps
<1>6. ASSUME NEW r \in Resetters, Resets!FinishReset(r) PROVE ResetInv' BY <1>6, FinishResetKeeps
<1> QED BY <1>2, <1>3, <1>4, <1>5, <1>6 DEF Resets!Next

\* Requests one by one, their entries, and what was redeemed for them.
LEMMA ResetSafe == ResetInv => Resets!RedeemsOneByOne
<1> SUFFICES ASSUME ResetInv PROVE Resets!RedeemsOneByOne OBVIOUS
<1> USE DEF ResetInv
<1>1. \A r, s \in Resetters :
        resets[r].pc # "idle" /\ resets[s].pc # "idle" /\ resets[r].auth = resets[s].auth => r = s
  BY DEF ResetTypes, OneReset, Resetting
<1>2. inFlight = {resets[r].auth : r \in {r \in Resetters : resets[r].pc # "idle"}}
  BY DEF ResetTypes, EntriesHeld, Resetting
<1> QED BY <1>1, <1>2 DEF ResetsCredited, Resets!RedeemsOneByOne

-----------------------------------------------------------------------------
(* The check for updates.                                                   *)

Triples == [1..3 -> Int]

\* What is assumed of versions.
LEMMA VersionsAre ==
  /\ Releases \subseteq Triples /\ Currents \subseteq Triples \union {Updates!NotStable}
  /\ PageOfTags \in Nat
  /\ Updates!NotStable \notin Triples
<1>1. Updates!NotStable \notin Triples
  <2>1. \A v \in Triples : DOMAIN v = 1..3 BY DEF Triples
  <2>2. DOMAIN Updates!NotStable = 1..0 BY DEF Updates!NotStable
  <2>3. 1 \in 1..3 /\ 1 \notin 1..0 OBVIOUS
  <2> QED BY <2>1, <2>2, <2>3
<1> QED BY <1>1, InstancesAllowed DEF Updates!UpdateConstants, Triples

\* Versions are compared number by number; that orders them.
LEMMA BeforeIs ==
  ASSUME NEW a \in Triples, NEW b \in Triples
  PROVE  Updates!Before(a, b) <=> \/ a[1] < b[1]
                                  \/ a[1] = b[1] /\ a[2] < b[2]
                                  \/ a[1] = b[1] /\ a[2] = b[2] /\ a[3] < b[3]
<1>1. /\ Updates!Before(a, b) <=> \E i \in {1, 2, 3} : a[i] < b[i] /\ \A j \in 1..(i - 1) : a[j] = b[j]
  <2>1. 1..3 = {1, 2, 3} OBVIOUS
  <2> QED BY <2>1 DEF Updates!Before
<1>2. 1..(1 - 1) = {} /\ 1..(2 - 1) = {1} /\ 1..(3 - 1) = {1, 2} OBVIOUS
<1>3. (\A j \in 1..(1 - 1) : a[j] = b[j]) BY <1>2
<1>4. (\A j \in 1..(2 - 1) : a[j] = b[j]) <=> a[1] = b[1] BY <1>2
<1>5. (\A j \in 1..(3 - 1) : a[j] = b[j]) <=> (a[1] = b[1] /\ a[2] = b[2]) BY <1>2
<1> QED BY <1>1, <1>3, <1>4, <1>5

\* That orders them.
LEMMA BeforeOrders ==
  ASSUME NEW a \in Triples, NEW b \in Triples, NEW c \in Triples
  PROVE  /\ Updates!Before(a, b) /\ ~Updates!Before(a, c) => ~Updates!Before(b, c)
         /\ ~Updates!Before(a, b) /\ Updates!Before(c, b) => Updates!Before(c, a)
         /\ ~Updates!Before(a, a)
<1>1. /\ a[1] \in Int /\ a[2] \in Int /\ a[3] \in Int /\ b[1] \in Int /\ b[2] \in Int /\ b[3] \in Int
      /\ c[1] \in Int /\ c[2] \in Int /\ c[3] \in Int
  BY DEF Triples
<1>2. Updates!Before(a, b) <=> \/ a[1] < b[1]
                               \/ a[1] = b[1] /\ a[2] < b[2]
                               \/ a[1] = b[1] /\ a[2] = b[2] /\ a[3] < b[3]
  BY BeforeIs
<1>3. Updates!Before(a, c) <=> \/ a[1] < c[1]
                               \/ a[1] = c[1] /\ a[2] < c[2]
                               \/ a[1] = c[1] /\ a[2] = c[2] /\ a[3] < c[3]
  BY BeforeIs
<1>4. Updates!Before(b, c) <=> \/ b[1] < c[1]
                               \/ b[1] = c[1] /\ b[2] < c[2]
                               \/ b[1] = c[1] /\ b[2] = c[2] /\ b[3] < c[3]
  BY BeforeIs
<1>5. Updates!Before(c, b) <=> \/ c[1] < b[1]
                               \/ c[1] = b[1] /\ c[2] < b[2]
                               \/ c[1] = b[1] /\ c[2] = b[2] /\ c[3] < b[3]
  BY BeforeIs
<1>6. Updates!Before(c, a) <=> \/ c[1] < a[1]
                               \/ c[1] = a[1] /\ c[2] < a[2]
                               \/ c[1] = a[1] /\ c[2] = a[2] /\ c[3] < a[3]
  BY BeforeIs
<1>7. Updates!Before(a, a) <=> \/ a[1] < a[1]
                               \/ a[1] = a[1] /\ a[2] < a[2]
                               \/ a[1] = a[1] /\ a[2] = a[2] /\ a[3] < a[3]
  BY BeforeIs
<1> QED BY <1>1, <1>2, <1>3, <1>4, <1>5, <1>6, <1>7

\* The greatest tag is found from the first tag to the last: at each the better one goes on.
AllTags == Releases \union {Updates!NotStable}
Better(best, tag) ==
  IF ~Updates!IsStableVersion(tag) THEN best
  ELSE IF best = Updates!NotStable \/ Updates!Older(best, tag) THEN tag ELSE best
BestBy(list, h) ==
  h = [s \in SUBSET DOMAIN list |->
         IF s = {} THEN Updates!NotStable ELSE Better(h[s \ {Updates!Max(s)}], list[Updates!Max(s)])]

\* LatestTag is what the fold arrives at.
LEMMA LatestIs ==
  ASSUME NEW list, NEW g, BestBy(list, g)
  PROVE  \E h : BestBy(list, h) /\ Updates!LatestTag(list) = h[DOMAIN list]
<1> DEFINE h == CHOOSE h : h = [s \in SUBSET DOMAIN list |->
     IF s = {} THEN Updates!NotStable
     ELSE IF ~Updates!IsStableVersion(list[Updates!Max(s)]) THEN h[s \ {Updates!Max(s)}]
     ELSE IF h[s \ {Updates!Max(s)}] = Updates!NotStable \/ Updates!Older(h[s \ {Updates!Max(s)}], list[Updates!Max(s)])
          THEN list[Updates!Max(s)] ELSE h[s \ {Updates!Max(s)}]]
<1>1. BestBy(list, h) BY Zenon DEF BestBy, Better
<1>2. Updates!LatestTag(list) = h[DOMAIN list]
  BY Zenon DEF Updates!LatestTag, Updates!FoldLeft, Updates!MapThenFoldSet
<1> QED BY <1>1, <1>2

\* The greatest place of those seen so far.
LEMMA LastPlace ==
  ASSUME NEW n \in Nat
  PROVE  \A s \in SUBSET (1..n) : s # {} => Updates!Max(s) \in s /\ \A i \in s : Updates!Max(s) >= i
<1> SUFFICES ASSUME NEW s \in SUBSET (1..n), s # {}
             PROVE  Updates!Max(s) \in s /\ \A i \in s : Updates!Max(s) >= i
  OBVIOUS
<1>1. s \subseteq Nat OBVIOUS
<1>2. IsFiniteSet(s)
  <2>1. IsFiniteSet(1..n) BY FS_Interval
  <2> QED BY <2>1, FS_Subset
<1>3. PICK m \in s : \A i \in s : i <= m BY <1>1, <1>2, GreatestOf
<1>4. \A i \in s : m >= i BY <1>1, <1>3
<1> QED BY <1>4 DEF Updates!Max

\* So the search for the greatest is defined.
LEMMA BestExists ==
  ASSUME NEW list \in Seq(AllTags)
  PROVE  \E g : BestBy(list, g)
<1>1. PICK n \in Nat : n = Len(list) BY LenProperties
<1>2. DOMAIN list = 1..n /\ \A i \in 1..n : list[i] \in AllTags BY <1>1, LenProperties
<1>3. PICK S : S = 1..n OBVIOUS
<1>4. PICK c : c = [s \in SUBSET S |-> Updates!Max(s)] OBVIOUS
<1>5. \A s \in SUBSET S : s # {} => c[s] \in s BY <1>3, <1>4, LastPlace
<1>6. PICK F : F = [i \in S |-> [b \in AllTags |-> Better(b, list[i])]] OBVIOUS
<1>7. F \in [S -> [AllTags -> AllTags]]
  <2>1. \A i \in S, b \in AllTags : Better(b, list[i]) \in AllTags BY <1>2, <1>3 DEF Better
  <2> QED BY <1>6, <2>1
<1>8. IsFiniteSet(S) BY <1>1, <1>3, FS_Interval
<1>9. Updates!NotStable \in AllTags BY DEF AllTags
<1>10. PICK g \in [SUBSET S -> AllTags] : FoldsBy(S, Updates!NotStable, c, F, g) BY <1>5, <1>7, <1>8, <1>9, FoldExists
<1>11. ASSUME NEW s \in SUBSET S
       PROVE  g[s] = IF s = {} THEN Updates!NotStable ELSE Better(g[s \ {Updates!Max(s)}], list[Updates!Max(s)])
  <2>1. g[s] = IF s = {} THEN Updates!NotStable ELSE F[c[s]][g[s \ {c[s]}]] BY <1>10 DEF FoldsBy
  <2>2. CASE s = {} BY <2>1, <2>2
  <2>3. CASE s # {}
    <3>1. PICK m : m = Updates!Max(s) OBVIOUS
    <3>2. c[s] = m /\ m \in S BY <1>4, <1>5, <2>3, <3>1
    <3>3. PICK b : b = g[s \ {m}] OBVIOUS
    <3>4. b \in AllTags BY <3>3
    <3>5. F[m][b] = Better(b, list[m]) BY <1>6, <3>2, <3>4
    <3> QED BY <2>1, <2>3, <3>1, <3>2, <3>3, <3>5
  <2> QED BY <2>2, <2>3
<1>12. g = [s \in SUBSET S |-> g[s]] OBVIOUS
<1>13. BestBy(list, g) BY <1>2, <1>3, <1>11, <1>12, Zenon DEF BestBy
<1> QED BY <1>13

\* What the search has found after some of the tags.
Found(list, i, b) ==
  /\ b \in AllTags
  /\ b = Updates!NotStable => \A j \in 1..i : list[j] = Updates!NotStable
  /\ b # Updates!NotStable => \E j \in 1..i : b = list[j]
  /\ Updates!Parses(b) => \A j \in 1..i : Updates!Parses(list[j]) => ~Updates!Before(b, list[j])

\* One more tag.
LEMMA FoundNext ==
  ASSUME NEW list \in Seq(AllTags), NEW i \in Nat, i + 1 \in DOMAIN list, NEW b, Found(list, i, b)
  PROVE  Found(list, i + 1, Better(b, list[i + 1]))
<1>1. PICK t : t = list[i + 1] OBVIOUS
<1>2. t \in AllTags /\ b \in AllTags BY <1>1 DEF Found
<1>3. 1..(i + 1) = (1..i) \union {i + 1} OBVIOUS
<1>4. \A j \in 1..i : list[j] \in AllTags
  <2>1. DOMAIN list = 1..Len(list) /\ Len(list) \in Nat BY LenProperties
  <2>2. 1..i \subseteq DOMAIN list BY <2>1
  <2> QED BY <2>1, <2>2
<1>5. \A v \in AllTags : Updates!Parses(v) => v \in Triples /\ v # Updates!NotStable
  BY VersionsAre DEF AllTags, Updates!Parses, Updates!IsStableVersion
<1>6. CASE t = Updates!NotStable
  <2>1. Better(b, t) = b BY <1>6 DEF Better, Updates!IsStableVersion
  <2>2. ~Updates!Parses(t) BY <1>6 DEF Updates!Parses, Updates!IsStableVersion
  <2> QED BY <1>1, <1>3, <1>6, <2>1, <2>2 DEF Found
<1>7. CASE t # Updates!NotStable /\ b = Updates!NotStable
  <2>1. Better(b, t) = t BY <1>7 DEF Better, Updates!IsStableVersion
  <2>2. \A j \in 1..i : ~Updates!Parses(list[j])
    BY <1>7 DEF Found, Updates!Parses, Updates!IsStableVersion
  <2>3. Updates!Parses(t) => ~Updates!Before(t, t) BY <1>2, <1>5, BeforeOrders
  <2> QED BY <1>1, <1>2, <1>3, <1>7, <2>1, <2>2, <2>3 DEF Found
<1>8. CASE t # Updates!NotStable /\ b # Updates!NotStable /\ Updates!Older(b, t)
  <2>1. Better(b, t) = t BY <1>8 DEF Better, Updates!IsStableVersion
  <2>2. Updates!Parses(b) /\ Updates!Parses(t) /\ Updates!Before(b, t) BY <1>8 DEF Updates!Older
  <2>3. ~Updates!Before(t, t) BY <1>2, <1>5, <2>2, BeforeOrders
  <2>4. \A j \in 1..i : Updates!Parses(list[j]) => ~Updates!Before(t, list[j])
    BY <1>2, <1>4, <1>5, <2>2, BeforeOrders DEF Found
  <2> QED BY <1>1, <1>2, <1>3, <1>8, <2>1, <2>3, <2>4 DEF Found
<1>9. CASE t # Updates!NotStable /\ b # Updates!NotStable /\ ~Updates!Older(b, t)
  <2>1. Better(b, t) = b BY <1>9 DEF Better, Updates!IsStableVersion
  <2>2. Updates!Parses(b) /\ Updates!Parses(t) => ~Updates!Before(b, t) BY <1>9 DEF Updates!Older
  <2> QED BY <1>1, <1>2, <1>3, <1>9, <2>1, <2>2 DEF Found
<1> QED BY <1>1, <1>6, <1>7, <1>8, <1>9

\* At the end of the list.
LEMMA FoundAll ==
  ASSUME NEW list \in Seq(AllTags)
  PROVE  Found(list, Len(list), Updates!LatestTag(list))
<1>1. PICK n \in Nat : n = Len(list) BY LenProperties
<1>2. DOMAIN list = 1..n BY <1>1, LenProperties
<1>3. PICK h : BestBy(list, h) /\ Updates!LatestTag(list) = h[DOMAIN list] BY BestExists, LatestIs
<1>4. \A s \in SUBSET (1..n) :
        h[s] = IF s = {} THEN Updates!NotStable ELSE Better(h[s \ {Updates!Max(s)}], list[Updates!Max(s)])
  BY <1>2, <1>3, Zenon DEF BestBy
<1> DEFINE Bad == {i \in 0..n : ~Found(list, i, h[1..i])}
<1>5. Bad = {}
  <2> SUFFICES ASSUME Bad # {} PROVE FALSE OBVIOUS
  <2>1. PICK k \in Bad : \A j \in Bad : k <= j
    <3>1. Bad \subseteq Nat OBVIOUS
    <3> HIDE DEF Bad
    <3> QED BY <3>1, LeastOf
  <2>2. CASE k = 0
    <3>1. 1..0 = {} OBVIOUS
    <3>2. h[1..0] = Updates!NotStable BY <1>4, <3>1
    <3>3. ~Updates!Parses(Updates!NotStable) BY DEF Updates!Parses, Updates!IsStableVersion
    <3>4. Found(list, 0, Updates!NotStable) BY <3>1, <3>3 DEF Found, AllTags
    <3> QED BY <2>2, <3>2, <3>4
  <2>3. CASE k # 0
    <3>1. PICK i \in Nat : k = i + 1 /\ i \in 0..n /\ ~(k <= i)
      <4>1. k - 1 \in Nat /\ k = (k - 1) + 1 /\ k - 1 \in 0..n /\ ~(k <= k - 1) BY <2>3
      <4> QED BY <4>1
    <3>2. i \notin Bad BY <2>1, <3>1
    <3>3. Found(list, i, h[1..i]) BY <3>1, <3>2
    <3>4. PICK s : s = 1..k OBVIOUS
    <3>5. s \in SUBSET (1..n) /\ s # {} /\ k \in s /\ k \in 1..n BY <1>1, <2>3, <3>4
    <3>6. Updates!Max(s) = k
      <4>1. Updates!Max(s) \in s /\ Updates!Max(s) >= k BY <3>5, LastPlace
      <4> QED BY <3>4, <4>1
    <3>7. s \ {k} = 1..i BY <3>1, <3>4
    <3>8. h[s] = Better(h[1..i], list[k]) BY <1>4, <3>5, <3>6, <3>7
    <3>9. Found(list, k, h[1..k]) BY <1>2, <3>1, <3>3, <3>4, <3>5, <3>8, FoundNext
    <3> QED BY <3>9
  <2> QED BY <2>2, <2>3
<1>6. Found(list, n, h[1..n])
  <2>1. n \in 0..n OBVIOUS
  <2> QED BY <1>5, <2>1
<1> QED BY <1>1, <1>2, <1>3, <1>6

\* The tags, and the check under way; what an answer tells is of the tags there are.
CheckSet == [pc : {"idle", "release", "tags", "answered"}, current : Currents, from : {"none", "release", "tags"},
             latest : AllTags, listed : Seq(AllTags), available : BOOLEAN, comparable : BOOLEAN]

UpdateInv ==
  /\ tags \in Seq(AllTags) /\ release \in AllTags /\ check \in CheckSet
  /\ release = Updates!NotStable \/ release \in Updates!ToSet(tags)
  /\ Updates!OffersTheNewest

\* It holds before any tag.
LEMMA UpdateInvInit == Updates!Init => UpdateInv
<1> SUFFICES ASSUME Updates!Init PROVE UpdateInv OBVIOUS
<1>1. PICK v \in Currents : check = [Updates!NoCheck EXCEPT !.current = v] BY DEF Updates!Init
<1>2. check = [pc |-> "idle", current |-> v, from |-> "none", latest |-> Updates!NotStable, listed |-> <<>>,
               available |-> FALSE, comparable |-> FALSE]
  BY <1>1 DEF Updates!NoCheck
<1>3. <<>> \in Seq(AllTags) /\ Updates!NotStable \in AllTags BY DEF AllTags
<1>4. check \in CheckSet BY <1>2, <1>3 DEF CheckSet
<1>5. Updates!OffersTheNewest BY <1>2 DEF Updates!OffersTheNewest
<1> QED BY <1>3, <1>4, <1>5 DEF Updates!Init, UpdateInv

\* An answer that is given keeps to what it promises: of a release, or of a page of tags.
LEMMA AnswerIsNewest ==
  ASSUME UpdateInv, NEW from \in {"release", "tags"}, NEW list \in Seq(AllTags), NEW latest \in AllTags,
         check' = Updates!Answered(from, list, latest), UNCHANGED <<release, tags>>,
         latest = Updates!NotStable \/ latest \in Updates!ToSet(tags),
         from = "tags" => Found(list, Len(list), latest)
  PROVE  UpdateInv'
<1>1. check \in CheckSet BY DEF UpdateInv
<1>2. check = [pc |-> check.pc, current |-> check.current, from |-> check.from, latest |-> check.latest,
               listed |-> check.listed, available |-> check.available, comparable |-> check.comparable]
  BY <1>1 DEF CheckSet
<1>3. PICK cur \in Currents : cur = check.current BY <1>1 DEF CheckSet
<1>4. PICK av \in BOOLEAN : av = Updates!Older(cur, latest)
  <2>1. Updates!Older(cur, latest) \in BOOLEAN BY Zenon DEF Updates!Older
  <2> QED BY <2>1
<1>5. PICK comp \in BOOLEAN : comp = (Updates!Parses(cur) /\ Updates!Parses(latest))
  <2>1. (Updates!Parses(cur) /\ Updates!Parses(latest)) \in BOOLEAN OBVIOUS
  <2> QED BY <2>1
<1>6. check' = [pc |-> "answered", current |-> cur, from |-> from, latest |-> latest, listed |-> list,
                available |-> av, comparable |-> comp]
  <2>1. check' = [check EXCEPT !.pc = "answered", !.from = from, !.listed = list, !.latest = latest,
                               !.comparable = comp, !.available = av]
    BY <1>3, <1>4, <1>5 DEF Updates!Answered
  <2> QED BY <1>2, <1>3, <2>1
<1>7. check' \in CheckSet BY <1>6 DEF CheckSet
<1>8. \A v \in AllTags \union Currents : Updates!Parses(v) => v \in Triples
  BY VersionsAre DEF AllTags, Updates!Parses, Updates!IsStableVersion
<1>9. Updates!OffersTheNewest'
  <2>1. ASSUME av PROVE Updates!Before(cur, latest) /\ latest \in Updates!ToSet(tags)
    <3>1. Updates!Parses(latest) /\ Updates!Before(cur, latest) BY <1>4, <2>1, Zenon DEF Updates!Older
    <3> QED BY <3>1 DEF Updates!Parses, Updates!IsStableVersion
  <2>2. \A v \in Updates!ToSet(list) : v \in AllTags /\ \E j \in 1..Len(list) : v = list[j]
    BY LenProperties DEF Updates!ToSet
  <2>3. ASSUME from = "tags", NEW v \in Updates!ToSet(list), Updates!IsStableVersion(v),
               \A w \in {w \in Updates!ToSet(list) : Updates!IsStableVersion(w)} : Updates!Parses(w)
        PROVE  ~Updates!Before(latest, v)
    <3>1. Updates!Parses(v) BY <2>3
    <3>2. PICK j \in 1..Len(list) : v = list[j] BY <2>2
    <3>3. latest # Updates!NotStable BY <2>3, <3>2 DEF Found, Updates!IsStableVersion
    <3>4. PICK k \in 1..Len(list) : latest = list[k] BY <2>3, <3>3 DEF Found
    <3>5. latest \in Updates!ToSet(list) BY <3>4, LenProperties DEF Updates!ToSet
    <3>6. Updates!Parses(latest) BY <2>3, <3>3, <3>5 DEF Updates!IsStableVersion
    <3> QED BY <2>3, <3>1, <3>2, <3>6 DEF Found
  <2>4. ASSUME from = "tags", comp, ~av, NEW v \in Updates!ToSet(list), Updates!Parses(v)
        PROVE  ~Updates!Before(cur, v)
    <3>1. Updates!Parses(cur) /\ Updates!Parses(latest) BY <1>5, <2>4, Zenon
    <3>2. ~Updates!Before(cur, latest) BY <1>4, <2>4, <3>1, Zenon DEF Updates!Older
    <3>3. ~Updates!Before(latest, v) BY <2>2, <2>4, <3>1 DEF Found
    <3>4. cur \in Triples /\ latest \in Triples /\ v \in Triples BY <1>8, <2>2, <2>4, <3>1
    <3> QED BY <3>2, <3>3, <3>4, BeforeOrders
  <2> QED BY <1>6, <2>1, <2>3, <2>4 DEF Updates!OffersTheNewest, Updates!IsStableVersion, Updates!Parses,
             Updates!Before, Updates!ToSet
<1> QED BY <1>7, <1>9 DEF UpdateInv

\* Every step of it keeps it: tags are pushed, and a check goes on.
LEMMA UpdateStepKeeps == ASSUME UpdateInv, Updates!Next PROVE UpdateInv'
<1>1. check \in CheckSet /\ tags \in Seq(AllTags) /\ release \in AllTags BY DEF UpdateInv
<1>2. check = [pc |-> check.pc, current |-> check.current, from |-> check.from, latest |-> check.latest,
               listed |-> check.listed, available |-> check.available, comparable |-> check.comparable]
  BY <1>1 DEF CheckSet
<1>3. CASE Updates!Publish
  <2>1. PICK v \in AllTags : tags' = <<v>> \o tags /\ release' \in {release, v} BY <1>3 DEF Updates!Publish, AllTags
  <2>2. <<v>> \in Seq(AllTags) /\ Len(<<v>>) = 1 /\ <<v>>[1] = v OBVIOUS
  <2>3. /\ tags' \in Seq(AllTags) /\ Len(tags') = 1 + Len(tags)
        /\ \A i \in 1..(1 + Len(tags)) : tags'[i] = IF i <= 1 THEN <<v>>[i] ELSE tags[i - 1]
    BY <1>1, <2>1, <2>2, ConcatProperties
  <2>4. Len(tags) \in Nat /\ DOMAIN tags = 1..Len(tags) /\ DOMAIN tags' = 1..Len(tags') BY <1>1, <2>3, LenProperties
  <2>5. v \in Updates!ToSet(tags')
    <3>1. 1 \in DOMAIN tags' /\ tags'[1] = v BY <2>2, <2>3, <2>4
    <3> QED BY <3>1 DEF Updates!ToSet
  <2>6. ASSUME NEW w \in Updates!ToSet(tags) PROVE w \in Updates!ToSet(tags')
    <3>1. PICK i \in DOMAIN tags : w = tags[i] BY <2>6 DEF Updates!ToSet
    <3>2. i + 1 \in DOMAIN tags' /\ tags'[i + 1] = w BY <2>3, <2>4, <3>1
    <3> QED BY <3>2 DEF Updates!ToSet
  <2>7. check' = check BY <1>3 DEF Updates!Publish
  <2>8. release' \in AllTags /\ (release' = Updates!NotStable \/ release' \in Updates!ToSet(tags'))
    BY <2>1, <2>5, <2>6 DEF UpdateInv
  <2>9. (check.pc = "answered" /\ check.available) => check.latest \in Updates!ToSet(tags')
    BY <2>6 DEF UpdateInv, Updates!OffersTheNewest
  <2>10. Updates!OffersTheNewest' BY <2>7, <2>9 DEF UpdateInv, Updates!OffersTheNewest
  <2> QED BY <1>1, <2>3, <2>7, <2>8, <2>10 DEF UpdateInv
<1>4. ASSUME UNCHANGED <<release, tags>>, check' \in CheckSet,
             check'.pc # "answered" \/ (~check'.available /\ check'.from # "tags")
      PROVE  UpdateInv'
  <2>1. Updates!OffersTheNewest' BY <1>4 DEF Updates!OffersTheNewest
  <2> QED BY <1>1, <1>4, <2>1 DEF UpdateInv
<1>5. CASE Updates!Check
  <2>1. UNCHANGED <<release, tags>> BY <1>5 DEF Updates!Check
  <2>2. PICK pc \in {"release", "answered"} :
          check' = [pc |-> pc, current |-> check.current, from |-> "none", latest |-> Updates!NotStable, listed |-> <<>>,
                    available |-> FALSE, comparable |-> FALSE]
    <3>1. PICK pc \in {"release", "answered"} : check' = [Updates!NoCheck EXCEPT !.current = check.current, !.pc = pc]
      BY <1>5 DEF Updates!Check
    <3> QED BY <3>1 DEF Updates!NoCheck
  <2>3. <<>> \in Seq(AllTags) /\ Updates!NotStable \in AllTags /\ check.current \in Currents
    BY <1>1 DEF AllTags, CheckSet
  <2>4. check' \in CheckSet BY <2>2, <2>3 DEF CheckSet
  <2>5. ~check'.available /\ check'.from # "tags" BY <2>2
  <2> QED BY <1>4, <2>1, <2>4, <2>5
<1>6. CASE Updates!FetchLatestRelease
  <2>1. UNCHANGED <<release, tags>> BY <1>6 DEF Updates!FetchLatestRelease
  <2>2. CASE Updates!IsStableVersion(release) /\ check' = Updates!Answered("release", <<>>, release)
    <3>1. <<>> \in Seq(AllTags) OBVIOUS
    <3>2. release = Updates!NotStable \/ release \in Updates!ToSet(tags) BY DEF UpdateInv
    <3> QED BY <1>1, <2>1, <2>2, <3>1, <3>2, AnswerIsNewest
  <2>3. CASE check' = [check EXCEPT !.pc = "tags"]
    <3>1. check' = [pc |-> "tags", current |-> check.current, from |-> check.from, latest |-> check.latest,
                    listed |-> check.listed, available |-> check.available, comparable |-> check.comparable]
      BY <1>2, <2>3
    <3>2. /\ check.current \in Currents /\ check.from \in {"none", "release", "tags"} /\ check.latest \in AllTags
          /\ check.listed \in Seq(AllTags) /\ check.available \in BOOLEAN /\ check.comparable \in BOOLEAN
      BY <1>1 DEF CheckSet
    <3>3. check' \in CheckSet /\ check'.pc # "answered" BY <3>1, <3>2 DEF CheckSet
    <3> QED BY <1>4, <2>1, <3>3
  <2> QED BY <1>6, <2>2, <2>3 DEF Updates!FetchLatestRelease
<1>7. CASE Updates!FetchTags
  <2>1. UNCHANGED <<release, tags>> BY <1>7 DEF Updates!FetchTags
  <2>2. PICK n : n = IF Len(tags) < PageOfTags THEN Len(tags) ELSE PageOfTags OBVIOUS
  <2>3. n \in Nat /\ n <= Len(tags) /\ Len(tags) \in Nat /\ DOMAIN tags = 1..Len(tags)
    BY <1>1, <2>2, VersionsAre, LenProperties
  <2>4. PICK list : list = SubSeq(tags, 1, n) OBVIOUS
  <2>5. \A i \in 1..n : tags[i] \in AllTags BY <1>1, <2>3
  <2>6. list \in Seq(AllTags) /\ Len(list) = n /\ \A i \in 1..n : list[i] = tags[i]
    <3>1. /\ SubSeq(tags, 1, n) \in Seq(AllTags)
          /\ Len(SubSeq(tags, 1, n)) = IF 1 <= n THEN n - 1 + 1 ELSE 0
          /\ \A i \in 1..(n - 1 + 1) : SubSeq(tags, 1, n)[i] = tags[1 + i - 1]
      BY <2>3, <2>5, SubSeqProperties
    <3>2. \A i \in 1..n : 1 + i - 1 = i OBVIOUS
    <3>3. n - 1 + 1 = n BY <2>3
    <3> QED BY <2>3, <2>4, <3>1, <3>2, <3>3
  <2>7. CASE check' = Updates!Answered("tags", list, Updates!LatestTag(list))
    <3>1. Found(list, Len(list), Updates!LatestTag(list)) BY <2>6, FoundAll
    <3>2. Updates!LatestTag(list) = Updates!NotStable \/ Updates!LatestTag(list) \in Updates!ToSet(tags)
      <4> SUFFICES ASSUME Updates!LatestTag(list) # Updates!NotStable PROVE Updates!LatestTag(list) \in Updates!ToSet(tags)
        OBVIOUS
      <4>1. PICK j \in 1..n : Updates!LatestTag(list) = list[j] BY <2>6, <3>1 DEF Found
      <4>2. j \in DOMAIN tags /\ Updates!LatestTag(list) = tags[j] BY <2>3, <2>6, <4>1
      <4> QED BY <4>2 DEF Updates!ToSet
    <3>3. Updates!LatestTag(list) \in AllTags BY <3>1 DEF Found
    <3> QED BY <2>1, <2>6, <2>7, <3>1, <3>2, <3>3, AnswerIsNewest
  <2>8. CASE check' = [Updates!NoCheck EXCEPT !.current = check.current]
    <3>1. check' = [pc |-> "idle", current |-> check.current, from |-> "none", latest |-> Updates!NotStable, listed |-> <<>>,
                    available |-> FALSE, comparable |-> FALSE]
      BY <2>8 DEF Updates!NoCheck
    <3>2. <<>> \in Seq(AllTags) /\ Updates!NotStable \in AllTags /\ check.current \in Currents
      BY <1>1 DEF AllTags, CheckSet
    <3>3. check' \in CheckSet /\ check'.pc # "answered" BY <3>1, <3>2 DEF CheckSet
    <3> QED BY <1>4, <2>1, <3>3
  <2> QED BY <1>7, <2>2, <2>4, <2>7, <2>8 DEF Updates!FetchTags
<1> QED BY <1>3, <1>5, <1>6, <1>7 DEF Updates!Next

\* So does a step of another part.
LEMMA UpdateStutters == ASSUME UpdateInv, UNCHANGED updateVars PROVE UpdateInv'
BY DEF updateVars, UpdateInv, Updates!OffersTheNewest, Updates!ToSet

-----------------------------------------------------------------------------
(* The cache of recent events.                                              *)

\* What is assumed of windows, spans and times.
LEMMA RecentBounds ==
  /\ CacheWindow \in Nat /\ CacheSpan \in Nat /\ CacheSpan > 0 /\ CacheHealth \in Nat
  /\ CacheTimes \subseteq Int /\ CacheStart \in Int
BY InstancesAllowed DEF Recent!CacheConstants

\* Two multiples of a span that are less than a span apart are one.
LEMMA Multiples ==
  ASSUME NEW s \in Nat, s > 0, NEW k \in Int, NEW m \in Int
  PROVE  /\ s * k \in Int /\ s * m \in Int
         /\ s * k - s * m < s => k <= m
<1>1. s * k \in Int /\ s * m \in Int OBVIOUS
<1>2. ASSUME ~(k <= m) PROVE s * k - s * m >= s
  <2>1. PICK n \in Nat : k = m + 1 + n
    <3>1. k - m - 1 \in Nat BY <1>2
    <3> QED BY <3>1
  <2>2. s * k = s * m + s + s * n BY <2>1
  <2>3. s * n \in Nat OBVIOUS
  <2> QED BY <1>1, <2>2, <2>3
<1> QED BY <1>1, <1>2

\* A bucket begins at most a span before each of its times, and ends after it; the ends are
\* multiples of the span and come in the order of the times.
LEMMA HealthBuckets ==
  ASSUME NEW t \in Int
  PROVE  /\ Recent!HealthBucket(t) \in Int /\ Recent!HealthBucket(t) <= t
         /\ \E k \in Int : Recent!HealthEnd(t) = CacheSpan * k
         /\ Recent!HealthEnd(t) \in Int
         /\ Recent!HealthEnd(t) > t /\ Recent!HealthEnd(t) <= t + CacheSpan
<1>1. PICK s : s = CacheSpan OBVIOUS
<1>2. s \in Nat /\ s > 0 BY <1>1, RecentBounds
<1>3. PICK q \in Int : q = t \div s BY <1>2
<1>4. t = s * q + (t % s) /\ t % s \in 0..(s - 1) BY <1>2, <1>3
<1>5. s * q \in Int /\ s * (q + 1) = s * q + s BY <1>2
<1>6. Recent!HealthBucket(t) = s * q BY <1>1, <1>4, <1>5 DEF Recent!HealthBucket, Recent!Truncate
<1>7. Recent!HealthEnd(t) = s * (q + 1) BY <1>1, <1>4, <1>5 DEF Recent!HealthEnd, Recent!Truncate
<1> QED BY <1>1, <1>2, <1>4, <1>5, <1>6, <1>7

\* A later time is in no earlier bucket.
LEMMA HealthEndsInOrder ==
  ASSUME NEW t \in Int, NEW u \in Int, t <= u
  PROVE  Recent!HealthEnd(t) <= Recent!HealthEnd(u)
<1>1. PICK k \in Int : Recent!HealthEnd(t) = CacheSpan * k BY HealthBuckets
<1>2. PICK m \in Int : Recent!HealthEnd(u) = CacheSpan * m BY HealthBuckets
<1>3. CacheSpan * k - CacheSpan * m < CacheSpan
  <2>1. CacheSpan * k <= t + CacheSpan /\ CacheSpan * k \in Int BY <1>1, HealthBuckets
  <2>2. CacheSpan * m > u /\ CacheSpan * m \in Int BY <1>2, HealthBuckets
  <2> QED BY <2>1, <2>2, RecentBounds
<1>4. k <= m BY <1>3, Multiples, RecentBounds
<1>5. CacheSpan * k <= CacheSpan * m BY <1>4, RecentBounds
<1> QED BY <1>1, <1>2, <1>5

EventRow == [ts : Int, cred : Accounts]

\* An event is somewhere, a batch is held while the worker has one, and the last full prune was
\* at the end of a bucket.
RecentTypes ==
  /\ now \in Int /\ rows \in Seq(EventRow)
  /\ offered \in DOMAIN rows \union {0} /\ held \in DOMAIN rows \union {0}
  /\ queue \in Seq(DOMAIN rows)
  /\ worker \in {"idle", "took", "has", "gone"}
  /\ worker \in {"took", "has"} <=> held # 0
  /\ delivered \subseteq DOMAIN rows
Pruned ==
  /\ \E k \in Int : lastPrune = CacheSpan * k
  /\ lastPrune <= Recent!HealthEnd(now)
RecentInv == RecentTypes /\ Pruned /\ Recent!CacheComplete /\ Recent!HealthExact

\* It holds for an empty table.
LEMMA RecentInvInit == Recent!CacheInit => RecentInv
<1> SUFFICES ASSUME Recent!CacheInit PROVE RecentInv OBVIOUS
<1>1. /\ now = CacheStart /\ rows = <<>> /\ offered = 0 /\ queue = <<>> /\ worker = "idle" /\ held = 0
      /\ cached = {} /\ health = {} /\ lastPrune = Recent!HealthEnd(now) /\ delivered = {} /\ dropped = {}
  BY DEF Recent!CacheInit
<1>2. now \in Int BY <1>1, RecentBounds
<1>3. DOMAIN rows = {} /\ rows \in Seq(EventRow) /\ queue \in Seq(DOMAIN rows) /\ Recent!ToSet(queue) = {}
  BY <1>1 DEF Recent!ToSet
<1>4. RecentTypes BY <1>1, <1>2, <1>3 DEF RecentTypes
<1>5. Pruned
  <2>1. Recent!HealthEnd(now) \in Int /\ \E k \in Int : Recent!HealthEnd(now) = CacheSpan * k
    BY <1>2, HealthBuckets
  <2>2. lastPrune = Recent!HealthEnd(now) BY <1>1
  <2> QED BY <2>1, <2>2 DEF Pruned
<1>6. Recent!CacheComplete BY <1>1, <1>3 DEF Recent!CacheComplete, Recent!Committed
<1>7. Recent!HealthExact BY <1>1 DEF Recent!HealthExact
<1> QED BY <1>4, <1>5, <1>6, <1>7 DEF RecentInv

\* What is queued after a batch is put behind the others, and after the first is taken.
LEMMA QueuedSets ==
  ASSUME NEW S, NEW q \in Seq(S)
  PROVE  /\ Recent!ToSet(q) \subseteq S
         /\ \A i \in S : Append(q, i) \in Seq(S) /\ Recent!ToSet(Append(q, i)) = Recent!ToSet(q) \union {i}
         /\ q # <<>> => /\ Tail(q) \in Seq(S) /\ Head(q) \in S
                        /\ Recent!ToSet(q) = Recent!ToSet(Tail(q)) \union {Head(q)}
<1>1. \A p \in Seq(S) : DOMAIN p = 1..Len(p) /\ Len(p) \in Nat BY LenProperties
<1>2. Recent!ToSet(q) \subseteq S BY DEF Recent!ToSet
<1>3. ASSUME NEW i \in S
      PROVE  Append(q, i) \in Seq(S) /\ Recent!ToSet(Append(q, i)) = Recent!ToSet(q) \union {i}
  <2>1. /\ Append(q, i) \in Seq(S) /\ Len(Append(q, i)) = Len(q) + 1
        /\ \A k \in 1..Len(q) : Append(q, i)[k] = q[k]
        /\ Append(q, i)[Len(q) + 1] = i
    BY AppendProperties
  <2>2. DOMAIN Append(q, i) = DOMAIN q \union {Len(q) + 1} BY <1>1, <2>1
  <2>3. \A k \in DOMAIN q : Append(q, i)[k] = q[k] BY <1>1, <2>1
  <2> QED BY <2>1, <2>2, <2>3 DEF Recent!ToSet
<1>4. ASSUME q # <<>>
      PROVE  /\ Tail(q) \in Seq(S) /\ Head(q) \in S
             /\ Recent!ToSet(q) = Recent!ToSet(Tail(q)) \union {Head(q)}
  <2>1. /\ Head(q) = q[1] /\ Tail(q) \in Seq(S) /\ Len(Tail(q)) = Len(q) - 1
        /\ \A k \in 1..Len(Tail(q)) : Tail(q)[k] = q[k + 1]
    BY <1>4, HeadTailProperties
  <2>2. Len(q) > 0 /\ 1 \in DOMAIN q BY <1>1, <1>4, EmptySeq
  <2>3. \A k \in DOMAIN Tail(q) : k + 1 \in DOMAIN q /\ Tail(q)[k] = q[k + 1] BY <1>1, <2>1
  <2>4. \A k \in DOMAIN q : k = 1 \/ (k - 1 \in DOMAIN Tail(q) /\ q[k] = Tail(q)[k - 1]) BY <1>1, <2>1
  <2>5. \A x \in Recent!ToSet(q) : x \in Recent!ToSet(Tail(q)) \union {Head(q)}
    BY <2>1, <2>4 DEF Recent!ToSet
  <2>6. \A x \in Recent!ToSet(Tail(q)) \union {Head(q)} : x \in Recent!ToSet(q)
    BY <2>1, <2>2, <2>3 DEF Recent!ToSet
  <2>7. Head(q) \in S BY <2>1, <2>2
  <2> QED BY <2>1, <2>5, <2>6, <2>7
<1> QED BY <1>2, <1>3, <1>4

\* What is in the two copies stays right while neither they nor the events change and time goes on.
LEMMA CopiesStay ==
  ASSUME RecentInv, now' \in Int, now <= now', UNCHANGED <<cached, health, lastPrune, delivered>>,
         \A i \in DOMAIN rows : i \in DOMAIN rows' /\ rows'[i] = rows[i]
  PROVE  /\ Pruned' /\ Recent!HealthExact'
         /\ \A i \in delivered' : rows'[i].ts >= now' - CacheWindow => i \in cached'
<1>1. delivered \subseteq DOMAIN rows /\ now \in Int /\ rows \in Seq(EventRow)
  BY DEF RecentInv, RecentTypes
<1>2. \A i \in DOMAIN rows : rows[i].ts \in Int
  <2>1. \A i \in DOMAIN rows : rows[i] \in EventRow BY <1>1
  <2> QED BY <2>1 DEF EventRow
<1>3. Recent!HealthEnd(now) <= Recent!HealthEnd(now') BY <1>1, HealthEndsInOrder
<1>4. Pruned'
  <2>1. PICK k \in Int : lastPrune = CacheSpan * k BY DEF RecentInv, Pruned
  <2>2. lastPrune \in Int BY <2>1, RecentBounds
  <2>3. Recent!HealthEnd(now) \in Int /\ Recent!HealthEnd(now') \in Int BY <1>1, HealthBuckets
  <2>4. lastPrune <= Recent!HealthEnd(now') BY <1>3, <2>2, <2>3 DEF RecentInv, Pruned
  <2>5. Recent!HealthEnd(now)' = Recent!HealthEnd(now') BY DEF Recent!HealthEnd, Recent!Truncate
  <2> QED BY <2>1, <2>4, <2>5 DEF Pruned
<1>5. Recent!HealthExact'
  <2>1. health = {i \in delivered : Recent!HealthBucket(rows[i].ts) >= lastPrune - CacheHealth}
    BY DEF RecentInv, Recent!HealthExact
  <2>2. \A i \in delivered : rows'[i] = rows[i] BY <1>1
  <2> QED BY <2>1, <2>2 DEF Recent!HealthExact, Recent!HealthBucket, Recent!Truncate
<1>6. ASSUME NEW i \in delivered, rows'[i].ts >= now' - CacheWindow PROVE i \in cached
  <2>1. rows[i].ts >= now - CacheWindow BY <1>1, <1>2, <1>6, RecentBounds
  <2> QED BY <2>1 DEF RecentInv, Recent!CacheComplete
<1> QED BY <1>4, <1>5, <1>6

\* Where the events are: the copies keep every delivered one of the window.
Covered ==
  /\ DOMAIN rows = delivered \union dropped \union Recent!ToSet(queue) \union ({offered, held} \ {0})
  /\ \A i \in delivered : rows[i].ts >= now - CacheWindow => i \in cached

\* That is what the cache promises.
LEMMA CoveredIs == Recent!CacheComplete <=> Covered
BY DEF Recent!CacheComplete, Recent!Committed, Covered

\* Time goes on, an event is committed and offered, the worker takes a batch and gives its slot
\* back, the cache is closed.
LEMMA QueueKeeps ==
  ASSUME RecentInv,
         \/ Recent!Tick \/ Recent!TryAppend \/ Recent!WorkerTake \/ Recent!ReleaseSlot
         \/ Recent!Close \/ Recent!WorkerExit
  PROVE  RecentInv'
<1>1. /\ now \in Int /\ rows \in Seq(EventRow) /\ queue \in Seq(DOMAIN rows) /\ delivered \subseteq DOMAIN rows
      /\ offered \in DOMAIN rows \union {0} /\ held \in DOMAIN rows \union {0}
  BY DEF RecentInv, RecentTypes
<1>2. UNCHANGED <<rows, cached, health, lastPrune, delivered>>
  BY DEF Recent!Tick, Recent!TryAppend, Recent!WorkerTake, Recent!ReleaseSlot, Recent!Close, Recent!WorkerExit
<1>3. now' \in Int /\ now <= now'
  BY <1>1 DEF Recent!Tick, Recent!TryAppend, Recent!WorkerTake, Recent!ReleaseSlot, Recent!Close, Recent!WorkerExit
<1>4. /\ Pruned' /\ Recent!HealthExact'
      /\ \A i \in delivered' : rows'[i].ts >= now' - CacheWindow => i \in cached'
  BY <1>2, <1>3, CopiesStay
<1>5. DOMAIN rows = delivered \union dropped \union Recent!ToSet(queue) \union ({offered, held} \ {0})
  BY CoveredIs DEF RecentInv, Covered
<1>6. SUFFICES RecentTypes'
               /\ DOMAIN rows = delivered \union dropped' \union Recent!ToSet(queue') \union ({offered', held'} \ {0})
  <2>1. Recent!ToSet(queue)' = Recent!ToSet(queue') BY DEF Recent!ToSet
  <2>2. Recent!CacheComplete' <=> Covered' BY DEF Recent!CacheComplete, Recent!Committed, Covered
  <2> QED BY <1>2, <1>4, <2>1, <2>2 DEF RecentInv, Covered
<1>7. DOMAIN rows \subseteq Nat \ {0}
  <2>1. DOMAIN rows = 1..Len(rows) BY <1>1, LenProperties
  <2> QED BY <2>1
<1>8. CASE Recent!TryAppend
  <2>1. offered # 0 /\ offered \in DOMAIN rows /\ offered' = 0 /\ UNCHANGED <<worker, held>>
    BY <1>1, <1>8 DEF Recent!TryAppend
  <2>2. CASE queue' = Append(queue, offered) /\ dropped' = dropped
    <3>1. queue' \in Seq(DOMAIN rows) /\ Recent!ToSet(queue') = Recent!ToSet(queue) \union {offered}
      BY <1>1, <2>1, <2>2, QueuedSets
    <3>2. RecentTypes' BY <1>2, <1>3, <2>1, <3>1 DEF RecentInv, RecentTypes
    <3> QED BY <1>5, <2>1, <2>2, <3>1, <3>2
  <2>3. CASE queue' = queue /\ dropped' = dropped \union {offered}
    <3>1. RecentTypes' BY <1>2, <1>3, <2>1, <2>3 DEF RecentInv, RecentTypes
    <3> QED BY <1>5, <2>1, <2>3, <3>1
  <2> QED BY <1>8, <2>2, <2>3 DEF Recent!TryAppend
<1>9. CASE Recent!WorkerTake
  <2>1. /\ worker = "idle" /\ queue # <<>> /\ worker' = "took" /\ held' = Head(queue) /\ queue' = Tail(queue)
        /\ UNCHANGED <<offered, dropped>>
    BY <1>9 DEF Recent!WorkerTake
  <2>2. held = 0 BY <2>1 DEF RecentInv, RecentTypes
  <2>3. /\ queue' \in Seq(DOMAIN rows) /\ held' \in DOMAIN rows
        /\ Recent!ToSet(queue) = Recent!ToSet(queue') \union {held'}
    BY <1>1, <2>1, QueuedSets
  <2>4. held' # 0 BY <1>7, <2>3
  <2>5. RecentTypes' BY <1>2, <1>3, <2>1, <2>3, <2>4 DEF RecentInv, RecentTypes
  <2> QED BY <1>5, <2>1, <2>2, <2>3, <2>4, <2>5
<1>10. CASE Recent!ReleaseSlot \/ Recent!WorkerExit \/ Recent!Close \/ Recent!Tick
  <2>1. UNCHANGED <<offered, queue, held, dropped>>
    BY <1>10 DEF Recent!ReleaseSlot, Recent!WorkerExit, Recent!Close, Recent!Tick
  <2>2. \/ worker' = worker \/ (worker = "took" /\ worker' = "has") \/ (worker = "idle" /\ worker' = "gone")
    BY <1>10 DEF Recent!ReleaseSlot, Recent!WorkerExit, Recent!Close, Recent!Tick
  <2>3. RecentTypes' BY <1>2, <1>3, <2>1, <2>2 DEF RecentInv, RecentTypes
  <2> QED BY <1>5, <2>1, <2>3
<1> QED BY <1>8, <1>9, <1>10

\* An event is committed: it is offered, and not in the cache yet.
LEMMA CommitKeeps ==
  ASSUME RecentInv, NEW t \in CacheTimes, NEW c \in Accounts, Recent!Commit(t, c)
  PROVE  RecentInv'
<1>1. /\ now \in Int /\ rows \in Seq(EventRow) /\ queue \in Seq(DOMAIN rows) /\ delivered \subseteq DOMAIN rows
      /\ held \in DOMAIN rows \union {0}
  BY DEF RecentInv, RecentTypes
<1>2. /\ offered = 0 /\ rows' = Append(rows, [ts |-> t, cred |-> c]) /\ offered' = Len(rows) + 1
      /\ UNCHANGED <<now, queue, worker, held, closed, cached, health, lastPrune, delivered, dropped>>
  BY DEF Recent!Commit
<1>3. [ts |-> t, cred |-> c] \in EventRow BY RecentBounds DEF EventRow
<1>4. /\ rows' \in Seq(EventRow) /\ Len(rows') = Len(rows) + 1
      /\ \A i \in 1..Len(rows) : rows'[i] = rows[i]
  BY <1>1, <1>2, <1>3, AppendProperties
<1>5. DOMAIN rows = 1..Len(rows) /\ DOMAIN rows' = 1..(Len(rows) + 1) /\ Len(rows) \in Nat
  BY <1>1, <1>4, LenProperties
<1>6. DOMAIN rows' = DOMAIN rows \union {offered'} /\ offered' # 0 BY <1>2, <1>5
<1>7. /\ Pruned' /\ Recent!HealthExact'
      /\ \A i \in delivered' : rows'[i].ts >= now' - CacheWindow => i \in cached'
  <2>1. \A i \in DOMAIN rows : i \in DOMAIN rows' /\ rows'[i] = rows[i] BY <1>4, <1>5
  <2> QED BY <1>1, <1>2, <2>1, CopiesStay
<1>8. queue' \in Seq(DOMAIN rows')
  <2>1. DOMAIN queue = 1..Len(queue) /\ Len(queue) \in Nat BY <1>1, LenProperties
  <2>2. \A i \in DOMAIN queue : queue[i] \in DOMAIN rows BY <1>1
  <2>3. queue \in [1..Len(queue) -> DOMAIN rows'] BY <1>1, <1>6, <2>1, <2>2
  <2> QED BY <1>2, <2>1, <2>3
<1>9. RecentTypes' BY <1>1, <1>2, <1>4, <1>6, <1>8 DEF RecentInv, RecentTypes
<1>10. DOMAIN rows = delivered \union dropped \union Recent!ToSet(queue) \union ({offered, held} \ {0})
  BY CoveredIs DEF RecentInv, Covered
<1>11. DOMAIN rows' = delivered' \union dropped' \union Recent!ToSet(queue') \union ({offered', held'} \ {0})
  BY <1>2, <1>6, <1>10
<1>12. Recent!CacheComplete'
  <2>1. Recent!ToSet(queue)' = Recent!ToSet(queue') BY DEF Recent!ToSet
  <2> QED BY <1>7, <1>11, <2>1 DEF Recent!CacheComplete, Recent!Committed
<1> QED BY <1>7, <1>9, <1>12 DEF RecentInv

\* The batch goes into both copies, and both are pruned.
LEMMA AppendKeeps == ASSUME RecentInv, Recent!WorkerAppend PROVE RecentInv'
<1>1. /\ now \in Int /\ rows \in Seq(EventRow) /\ queue \in Seq(DOMAIN rows) /\ delivered \subseteq DOMAIN rows
      /\ offered \in DOMAIN rows \union {0} /\ held \in DOMAIN rows \union {0}
  BY DEF RecentInv, RecentTypes
<1>2. /\ worker = "has" /\ worker' = "idle" /\ held' = 0
      /\ cached' = Recent!KeepRecent(cached \union {held}, now)
      /\ Recent!AppendHealth(held) /\ delivered' = delivered \union {held}
      /\ UNCHANGED <<now, rows, offered, queue, closed, dropped>>
  BY DEF Recent!WorkerAppend
<1>3. held \in DOMAIN rows /\ held # 0 BY <1>1, <1>2 DEF RecentInv, RecentTypes
<1>4. \A i \in DOMAIN rows : rows[i] \in EventRow BY <1>1
<1>5. \A i \in DOMAIN rows : rows[i].ts \in Int /\ rows[i].cred \in Accounts BY <1>4 DEF EventRow
<1>6. RecentTypes' BY <1>1, <1>2, <1>3 DEF RecentInv, RecentTypes
<1>7. DOMAIN rows = delivered \union dropped \union Recent!ToSet(queue) \union ({offered, held} \ {0})
  BY CoveredIs DEF RecentInv, Covered
<1>8. Recent!CacheComplete'
  <2>1. DOMAIN rows = delivered' \union dropped \union Recent!ToSet(queue) \union ({offered, held'} \ {0})
    BY <1>2, <1>3, <1>7
  <2>2. ASSUME NEW i \in delivered', rows[i].ts >= now - CacheWindow PROVE i \in cached'
    <3>1. i \in cached \union {held} BY <1>2, <2>2 DEF RecentInv, Recent!CacheComplete
    <3> QED BY <1>2, <2>2, <3>1 DEF Recent!KeepRecent
  <2>3. Recent!ToSet(queue)' = Recent!ToSet(queue) BY <1>2 DEF Recent!ToSet
  <2> QED BY <1>2, <2>1, <2>2, <2>3 DEF Recent!CacheComplete, Recent!Committed
<1>9. PICK end : end = Recent!HealthEnd(now) OBVIOUS
<1>10. end \in Int /\ lastPrune \in Int /\ lastPrune <= end
  <2>1. PICK k \in Int : lastPrune = CacheSpan * k BY DEF RecentInv, Pruned
  <2> QED BY <1>1, <1>9, <2>1, HealthBuckets, RecentBounds DEF RecentInv, Pruned
<1>11. health = {i \in delivered : Recent!HealthBucket(rows[i].ts) >= lastPrune - CacheHealth}
  BY DEF RecentInv, Recent!HealthExact
<1>12. \A i \in DOMAIN rows : Recent!HealthBucket(rows[i].ts) \in Int BY <1>5, HealthBuckets
<1>13. lastPrune' = end \/ (lastPrune' = lastPrune /\ lastPrune = end)
  <2>1. CASE Recent!FullPruneDue(now) BY <1>2, <1>9, <2>1 DEF Recent!AppendHealth
  <2>2. CASE ~Recent!FullPruneDue(now)
    <3>1. lastPrune' = lastPrune /\ end - lastPrune < CacheSpan
      BY <1>2, <1>9, <1>10, <2>2, RecentBounds DEF Recent!AppendHealth, Recent!FullPruneDue
    <3>2. PICK k \in Int : end = CacheSpan * k BY <1>1, <1>9, HealthBuckets
    <3>3. PICK m \in Int : lastPrune = CacheSpan * m BY DEF RecentInv, Pruned
    <3>4. k <= m BY <3>1, <3>2, <3>3, Multiples, RecentBounds
    <3>5. CacheSpan * k <= CacheSpan * m BY <3>4, RecentBounds
    <3> QED BY <1>10, <3>1, <3>2, <3>3, <3>5
  <2> QED BY <2>1, <2>2
<1>14. Pruned'
  <2>1. lastPrune' = end BY <1>13
  <2>2. Recent!HealthEnd(now)' = end BY <1>2, <1>9 DEF Recent!HealthEnd, Recent!Truncate
  <2>3. \E k \in Int : end = CacheSpan * k BY <1>1, <1>9, HealthBuckets
  <2> QED BY <1>10, <2>1, <2>2, <2>3 DEF Pruned
<1>15. PICK creds \in SUBSET Accounts :
         /\ rows[held].cred \in creds
         /\ lastPrune' = end /\ (creds = Accounts \/ lastPrune = end)
         /\ health' = Recent!KeepHealth(health \union {held}, now, creds)
  <2>1. CASE Recent!FullPruneDue(now) BY <1>2, <1>3, <1>5, <1>9, <2>1 DEF Recent!AppendHealth
  <2>2. CASE ~Recent!FullPruneDue(now)
    <3>1. health' = Recent!KeepHealth(health \union {held}, now, {rows[held].cred}) /\ lastPrune' = lastPrune
      BY <1>2, <2>2 DEF Recent!AppendHealth
    <3>2. {rows[held].cred} \in SUBSET Accounts BY <1>3, <1>5
    <3> QED BY <1>13, <3>1, <3>2
  <2> QED BY <2>1, <2>2
<1>16. Recent!HealthStart(now) = end - CacheHealth BY <1>9 DEF Recent!HealthStart
<1>17. health' = {i \in delivered' : Recent!HealthBucket(rows[i].ts) >= end - CacheHealth}
  <2>1. health' = {i \in health \union {held} :
                     rows[i].cred \in creds => Recent!HealthBucket(rows[i].ts) >= end - CacheHealth}
    BY <1>15, <1>16 DEF Recent!KeepHealth
  <2>2. ASSUME NEW i \in health' PROVE i \in delivered' /\ Recent!HealthBucket(rows[i].ts) >= end - CacheHealth
    <3>1. i \in delivered' BY <1>2, <1>11, <2>1
    <3>2. i \in DOMAIN rows /\ rows[i].cred \in Accounts BY <1>1, <1>2, <1>3, <1>5, <3>1
    <3>3. CASE rows[i].cred \in creds BY <2>1, <3>1, <3>3
    <3>4. CASE rows[i].cred \notin creds
      <4>1. i # held /\ lastPrune = end BY <1>15, <3>2, <3>4
      <4>2. i \in health BY <2>1, <4>1
      <4> QED BY <1>11, <3>1, <4>1, <4>2
    <3> QED BY <3>3, <3>4
  <2>3. ASSUME NEW i \in delivered', Recent!HealthBucket(rows[i].ts) >= end - CacheHealth PROVE i \in health'
    <3>1. i \in DOMAIN rows BY <1>1, <1>2, <1>3
    <3>2. i = held \/ Recent!HealthBucket(rows[i].ts) >= lastPrune - CacheHealth
      BY <1>10, <1>12, <2>3, <3>1, RecentBounds
    <3>3. i \in health \union {held} BY <1>2, <1>11, <3>2
    <3> QED BY <2>1, <2>3, <3>3
  <2> QED BY <2>2, <2>3
<1>18. Recent!HealthExact'
  BY <1>2, <1>15, <1>17 DEF Recent!HealthExact, Recent!HealthBucket, Recent!Truncate
<1> QED BY <1>6, <1>8, <1>14, <1>18 DEF RecentInv

\* The program starts again and loads both copies from the table.
LEMMA RestartKeeps == ASSUME RecentInv, Recent!Restart PROVE RecentInv'
<1>1. now \in Int /\ rows \in Seq(EventRow) BY DEF RecentInv, RecentTypes
<1>2. /\ now' = now /\ rows' = rows /\ dropped' = {} /\ offered' = 0 /\ queue' = <<>> /\ worker' = "idle"
      /\ held' = 0 /\ delivered' = DOMAIN rows /\ lastPrune' = Recent!HealthEnd(now)
      /\ cached' = {i \in DOMAIN rows : rows[i].ts >= now - CacheWindow}
      /\ health' = Recent!KeepHealth({i \in DOMAIN rows : rows[i].ts >= now - CacheHealth}, now, Accounts)
  BY DEF Recent!Restart, Recent!LoadAt, Recent!Committed
<1>3. \A i \in DOMAIN rows : rows[i] \in EventRow BY <1>1
<1>4. \A i \in DOMAIN rows : rows[i].ts \in Int /\ rows[i].cred \in Accounts BY <1>3 DEF EventRow
<1>5. queue' \in Seq(DOMAIN rows') BY <1>2
<1>6. RecentTypes' BY <1>1, <1>2, <1>5 DEF RecentTypes
<1>7. Recent!HealthEnd(now) \in Int /\ \E k \in Int : Recent!HealthEnd(now) = CacheSpan * k
  BY <1>1, HealthBuckets
<1>8. Pruned'
  <2>1. Recent!HealthEnd(now)' = Recent!HealthEnd(now) BY <1>2 DEF Recent!HealthEnd, Recent!Truncate
  <2> QED BY <1>2, <1>7, <2>1 DEF Pruned
<1>9. Recent!CacheComplete'
  <2>1. DOMAIN rows' = delivered' \union dropped' \union Recent!ToSet(queue)' \union ({offered', held'} \ {0})
    <3>1. Recent!ToSet(queue') = {} BY <1>2 DEF Recent!ToSet
    <3>2. Recent!ToSet(queue)' = Recent!ToSet(queue') BY DEF Recent!ToSet
    <3> QED BY <1>2, <3>1, <3>2
  <2>2. \A i \in delivered' : rows'[i].ts >= now' - CacheWindow => i \in cached' BY <1>2
  <2> QED BY <2>1, <2>2 DEF Recent!CacheComplete, Recent!Committed
<1>10. ASSUME NEW i \in DOMAIN rows, Recent!HealthBucket(rows[i].ts) >= Recent!HealthEnd(now) - CacheHealth
       PROVE  rows[i].ts >= now - CacheHealth
  <2>1. Recent!HealthBucket(rows[i].ts) \in Int /\ Recent!HealthBucket(rows[i].ts) <= rows[i].ts
    BY <1>4, HealthBuckets
  <2>2. Recent!HealthEnd(now) > now BY <1>1, HealthBuckets
  <2> QED BY <1>1, <1>4, <1>7, <1>10, <2>1, <2>2, RecentBounds
<1>11. health' = {i \in delivered' : Recent!HealthBucket(rows[i].ts) >= lastPrune' - CacheHealth}
  <2>1. health' = {i \in {i \in DOMAIN rows : rows[i].ts >= now - CacheHealth} :
          rows[i].cred \in Accounts => Recent!HealthBucket(rows[i].ts) >= Recent!HealthEnd(now) - CacheHealth}
    BY <1>2 DEF Recent!KeepHealth, Recent!HealthStart
  <2> QED BY <1>2, <1>4, <1>10, <2>1
<1>12. Recent!HealthExact'
  BY <1>2, <1>11 DEF Recent!HealthExact, Recent!HealthBucket, Recent!Truncate
<1> QED BY <1>6, <1>8, <1>9, <1>12 DEF RecentInv

\* Every step of the cache keeps it.
LEMMA RecentStepKeeps == ASSUME RecentInv, Recent!CacheNext PROVE RecentInv'
<1>1. ASSUME NEW t \in CacheTimes, NEW c \in Accounts, Recent!Commit(t, c) PROVE RecentInv' BY <1>1, CommitKeeps
<1> QED BY <1>1, QueueKeeps, AppendKeeps, RestartKeeps DEF Recent!CacheNext, Recent!CacheWork

\* So does a step of another part.
LEMMA RecentStutters == ASSUME RecentInv, UNCHANGED recentVars, UNCHANGED <<now, rows>> PROVE RecentInv'
BY DEF recentVars, RecentInv, RecentTypes, Pruned, Recent!CacheComplete, Recent!Committed, Recent!ToSet,
       Recent!HealthExact, Recent!HealthBucket, Recent!HealthEnd, Recent!Truncate

-----------------------------------------------------------------------------
(* All of them.                                                             *)

\* A behaviour is of one part, and keeps to the invariant of it.
ServicesInv ==
  /\ part = "process" => ProcessInv
  /\ part = "backups" => BackupInv
  /\ part = "proxies" => ProbeInv
  /\ part = "import" => ImportInv
  /\ part = "edits" => EditInv
  /\ part = "resets" => ResetInv
  /\ part = "updates" => UpdateInv
  /\ part = "recent" => RecentInv

\* It holds at the start of every part.
LEMMA ServicesInvInit == ServicesInit => ServicesInv
<1> SUFFICES ASSUME ServicesInit PROVE ServicesInv OBVIOUS
<1>1. part = "process" => ProcessInv BY ProcessInvInit DEF ServicesInit
<1>2. part = "backups" => BackupInv BY BackupInvInit DEF ServicesInit
<1>3. part = "proxies" => ProbeInv BY ProbeInvInit DEF ServicesInit
<1>4. part = "edits" => EditInv BY EditInvInit DEF ServicesInit
<1>5. part = "resets" => ResetInv BY ResetInvInit DEF ServicesInit
<1>6. part = "recent" => RecentInv BY RecentInvInit DEF ServicesInit
<1>7. part = "updates" => UpdateInv BY UpdateInvInit DEF ServicesInit
<1>8. part = "import" => ImportInv BY ImportInvInit DEF ServicesInit
<1> QED BY <1>1, <1>2, <1>3, <1>4, <1>5, <1>6, <1>7, <1>8 DEF ServicesInv

\* Every step keeps it, and a step of the backups removes only old ones.
LEMMA ServicesStepKeeps ==
  ASSUME ServicesInv, [ServicesNext]_allVars
  PROVE  ServicesInv' /\ (part = "backups" => Backups!RemovesOnlyOld)
<1>1. CASE part = "process" /\ Process!Next /\ part' = part
  <2>1. ProcessInv' BY <1>1, ProcessStepKeeps DEF ServicesInv
  <2> QED BY <1>1, <2>1 DEF ServicesInv
<1>2. CASE part = "backups" /\ Backups!Next /\ part' = part
  <2>1. BackupInv' /\ Backups!RemovesOnlyOld BY <1>2, BackupStepKeeps DEF ServicesInv
  <2> QED BY <1>2, <2>1 DEF ServicesInv
<1>3. CASE part = "proxies" /\ Proxies!Next /\ part' = part
  <2>1. ProbeInv' BY <1>3, ProbeStepKeeps DEF ServicesInv
  <2> QED BY <1>3, <2>1 DEF ServicesInv
<1>4. CASE part = "edits" /\ Edits!Next /\ part' = part
  <2>1. EditInv' BY <1>4, EditStepKeeps DEF ServicesInv
  <2> QED BY <1>4, <2>1 DEF ServicesInv
<1>5. CASE part = "resets" /\ Resets!Next /\ part' = part
  <2>1. ResetInv' BY <1>5, ResetStepKeeps DEF ServicesInv
  <2> QED BY <1>5, <2>1 DEF ServicesInv
<1>6. CASE part = "recent" /\ Recent!CacheNext /\ part' = part
  <2>1. RecentInv' BY <1>6, RecentStepKeeps DEF ServicesInv
  <2> QED BY <1>6, <2>1 DEF ServicesInv
<1>7. CASE part = "updates" /\ Updates!Next /\ part' = part
  <2>1. UpdateInv' BY <1>7, UpdateStepKeeps DEF ServicesInv
  <2> QED BY <1>7, <2>1 DEF ServicesInv
<1>8. CASE part = "import" /\ Import!Next /\ part' = part
  <2>1. ImportInv' BY <1>8, ImportStepKeeps DEF ServicesInv
  <2> QED BY <1>8, <2>1 DEF ServicesInv
<1>9. CASE UNCHANGED allVars
  <2>1. part' = part /\ UNCHANGED <<processVars, backupVars, proxyVars, importVars, editVars, resetVars, updateVars, recentVars, now, rows>>
    BY <1>9 DEF allVars
  <2>2. part = "process" => ProcessInv' BY <2>1, ProcessStutters DEF ServicesInv
  <2>3. part = "backups" => BackupInv' /\ Backups!RemovesOnlyOld BY <2>1, BackupStutters DEF ServicesInv
  <2>4. part = "proxies" => ProbeInv' BY <2>1, ProbeStutters DEF ServicesInv, proxyVars
  <2>5. part = "edits" => EditInv' BY <2>1, EditStutters DEF ServicesInv, editVars
  <2>6. part = "resets" => ResetInv' BY <2>1, ResetStepKeeps DEF ServicesInv
  <2>7. part = "updates" => UpdateInv' BY <2>1, UpdateStutters DEF ServicesInv
  <2>8. part = "recent" => RecentInv' BY <2>1, RecentStutters DEF ServicesInv
  <2>9. part = "import" => ImportInv' BY <2>1, ImportStutters DEF ServicesInv
  <2> QED BY <2>1, <2>2, <2>3, <2>4, <2>5, <2>6, <2>7, <2>8, <2>9 DEF ServicesInv
<1> QED BY <1>1, <1>2, <1>3, <1>4, <1>5, <1>6, <1>7, <1>8, <1>9 DEF ServicesNext

\* The invariant is one.
LEMMA ServicesInvariant == ServicesSpec => []ServicesInv
BY ServicesInvInit, ServicesStepKeeps, PTL DEF ServicesSpec

(* Manager: a running CPA it has started is the one it can stop, and the    *)
(* executable is replaced after its process has ended, for every number of  *)
(* requests to the manager and of releases (cpamanager/manager.go).         *)
THEOREM ProcessStaysInHand == ServicesSpec => []ProcessInHand
<1>1. ServicesInv => ProcessInHand
  BY DEF ServicesInv, ProcessInv, ProcessInHand, AliveIsTracked, ReplacedWhenStopped
<1> QED BY <1>1, ServicesInvariant, PTL

(* The task never sleeps past the next backup, and no backup is removed     *)
(* before its days are over, at every interval, retention and length of a   *)
(* day (backup_runner.go, backup.go).                                       *)
THEOREM BackupsComeOnTime == ServicesSpec => BackupsOnTime
<1>1. ServicesInv => SleepsAnInterval BY DEF ServicesInv, BackupInv, SleepsAnInterval
<1>2. ServicesInv /\ [ServicesNext]_allVars => [part = "backups" => Backups!RemovesOnlyOld]_allVars
  BY ServicesStepKeeps
<1>3. ServicesSpec => []SleepsAnInterval BY <1>1, ServicesInvariant, PTL
<1>4. ServicesSpec => RemovedOnlyOld BY <1>2, ServicesInvariant, PTL DEF ServicesSpec, RemovedOnlyOld
<1> QED BY <1>3, <1>4 DEF BackupsOnTime

(* Whatever tables, addresses and auth files there are, the counts of the   *)
(* list add up to the auth files bound to an address of it, and no          *)
(* goroutine of a test waits for room to answer (attachProxyPoolStats,      *)
(* testProxyURLWithOptions).                                                *)
THEOREM ProxiesAreSound == ServicesSpec => []ProxiesSound
<1>1. ServicesInv => ProxiesSound
  BY CountsAddUp, ProbeSafe DEF ServicesInv, ProxiesSound, BindingsCountedOnce, ProbesNeverStuck
<1> QED BY <1>1, ServicesInvariant, PTL

(* Whatever is pasted, an answered import has given each session in it that *)
(* is in no other a file with a name of its own, and the synchronisation    *)
(* has seen it (auth_file_import.go, auth_files_management.go).             *)
THEOREM SessionsGetFiles == ServicesSpec => []EachSessionHasItsFile
<1>1. ServicesInv => EachSessionHasItsFile BY ImportSafe DEF ServicesInv, EachSessionHasItsFile
<1> QED BY <1>1, ServicesInvariant, PTL

(* However many requests change however many auth files, an answered one is *)
(* over and complete, and changes that do not overlap add up                *)
(* (auth_files_management.go, updateAuthFileJSONStringField).               *)
THEOREM AuthFilesChangeSoundly == ServicesSpec => []AuthFilesChanged
<1>1. ServicesInv => AuthFilesChanged BY EditSafe DEF ServicesInv, AuthFilesChanged, AnswersAreFinal, EditsAddUp
<1> QED BY <1>1, ServicesInvariant, PTL

(* One request at a time works on a credential, its entry goes with it, and *)
(* no more resets are answered with success than credits were redeemed      *)
(* (quota/reset.go, Reset).                                                 *)
THEOREM ResetsOneByOne == ServicesSpec => []RedeemsOneByOne
<1>1. ServicesInv => RedeemsOneByOne BY ResetSafe DEF ServicesInv, RedeemsOneByOne
<1> QED BY <1>1, ServicesInvariant, PTL

(* An offered update is newer than the build and was published; of a page   *)
(* of tags it is the greatest, in whatever order they were pushed           *)
(* (updatecheck/checker.go).                                                *)
THEOREM NewestIsOffered == ServicesSpec => []OffersTheNewest
<1>1. ServicesInv => OffersTheNewest BY DEF ServicesInv, UpdateInv, OffersTheNewest
<1> QED BY <1>1, ServicesInvariant, PTL

(* The cache of recent events holds what the table has of its window, and   *)
(* its health blocks count every event of theirs once, for every window,    *)
(* span and capacity (recent_usage_event_cache.go).                         *)
THEOREM RecentEventsAreExact == ServicesSpec => []RecentEventsExact
<1>1. ServicesInv => RecentEventsExact BY DEF ServicesInv, RecentInv, RecentEventsExact
<1> QED BY <1>1, ServicesInvariant, PTL

=============================================================================
