----------------------------- MODULE MCServices -----------------------------
(***************************************************************************)
(* Small instances of the services beside the usage pipeline:              *)
(* the CPA process, backups, proxies, imports and changes of auth files,   *)
(* resets of quotas, the check for updates and the cache of recent events. *)
(* None of their steps writes the state of another, so a behaviour is of   *)
(* one of them, "part", and the variables of the others keep the value     *)
(* Unused.                                                                 *)
(***************************************************************************)
EXTENDS UsageWindows, Sequences, SequencesExt, FiniteSets, TLC

CONSTANTS
  Parts,                                          \* the parts a run looks at
  Jobs, Versions, MaxProcs,                       \* of the CPA process
  Day, Four, Intervals, RetentionDays, RetryDelay, Horizon,   \* of the backups
  Names, Urls, AuthFiles, Targets, MaxEdits,      \* of the proxies
  Contents, Nodes, Imports, MaxNow, MaxFailures,  \* of the imports
  Editors, Named, Limit, Values, MaxRest,         \* of the changes of auth files
  AuthIndexes, Resetters, MaxCredits,             \* of the resets
  Releases, Currents, MaxPublished, PageOfTags,   \* of the check for updates
  Accounts, CacheWindow, CacheHealth, CacheSpan, CacheSlots, CacheTimes,
  CacheStart, CacheEnd, CacheRows, CacheRestarts  \* of the cache by itself

VARIABLES part, now, rows,
          exe, proc, cmd, job, started,
          interval, files, last, attempts, pending, asleep, wake, tried,
          pools, bound, test, asked, results, waiting, edits,
          cpa, imports, synced, failures,
          disk, writes, reqs, work, want, clean,
          credits, active, inFlight, resets, redeemed, told,
          release, tags, check,
          offered, queue, worker, held, closed, cached, health, lastPrune,
          delivered, dropped, restarts

Unused == "unused"
Symmetric == Permutations(Jobs) \union Permutations(Accounts)

-----------------------------------------------------------------------------
(* Contents: nothing, one session, two of one seed with a third inside of   *)
(* one and one again in a list that hides its first element, and two seeds. *)
Leaf == [id |-> 0, token |-> FALSE, seed |-> "", refresh |-> FALSE, expires |-> 0,
         idToken |-> FALSE, account |-> FALSE, kids |-> <<>>, hidden |-> {}]
Session(i, seed, kids) ==
  [Leaf EXCEPT !.id = i, !.token = TRUE, !.seed = seed, !.kids = kids, !.account = i = 1,
               !.expires = i, !.refresh = i = 2]
List(kids, hidden) == [Leaf EXCEPT !.kids = kids, !.hidden = hidden]
MCContents ==
  {Leaf, Session(1, "a", <<>>),
   List(<<Session(1, "a", <<>>), Session(2, "a", <<Session(3, "b", <<>>)>>),
          List(<<Session(3, "b", <<>>)>>, {1})>>, {}),
   List(<<Session(2, "a", <<>>), List(<<Session(1, "b", <<>>), Leaf>>, {})>>, {})}
AndInside(nodes) == nodes \union UNION {ToSet(v.kids) : v \in nodes}
MCNodes == AndInside(AndInside(MCContents))

\* One request about several files, and one that meets it at one of them.
MCNamed == [r |-> {"a", "b"}, s |-> {"a"}]

\* Numbers of one and two digits, a backported release, and one too great to read.
MCReleases == {<<1, 9, 0>>, <<1, 10, 0>>, <<2, 0, 0>>, <<1, 9, 3>>, <<3, -1, 0>>}
MCCurrents == {<<1, 9, 0>>, <<1, 10, 0>>, <<>>}

-----------------------------------------------------------------------------
Process == INSTANCE CpaProcess
Backups == INSTANCE DatabaseBackups
Proxies == INSTANCE ProxyPools
Import == INSTANCE AuthFileImport
Edits == INSTANCE AuthFileEdits
Resets == INSTANCE QuotaReset
Updates == INSTANCE UpdateCheck WITH Versions <- Releases
Recent == INSTANCE RecentEventCache WITH
  Window <- CacheWindow, HealthWindow <- CacheHealth, HealthSpan <- CacheSpan,
  Slots <- CacheSlots, Credentials <- Accounts, EventTimes <- CacheTimes,
  FirstTime <- CacheStart, MaxTime <- CacheEnd, MaxRows <- CacheRows,
  MaxRestarts <- CacheRestarts

ASSUME InstancesAllowed ==
  /\ Process!ProcessConstants /\ Backups!BackupConstants /\ Proxies!ProxyConstants
  /\ Import!ImportConstants /\ Edits!EditConstants /\ Updates!UpdateConstants
  /\ Recent!CacheConstants

-----------------------------------------------------------------------------
processVars == <<exe, proc, cmd, job, started>>
backupVars == <<interval, files, last, attempts, pending, asleep, wake, tried>>
proxyVars == <<pools, bound, test, asked, results, waiting, edits>>
importVars == <<cpa, imports, synced, failures>>
editVars == <<disk, writes, reqs, work, want, clean>>
resetVars == <<credits, active, inFlight, resets, redeemed, told>>
updateVars == <<release, tags, check>>
recentVars == <<offered, queue, worker, held, closed, cached, health, lastPrune,
                delivered, dropped, restarts>>
allVars == <<part, now, rows, processVars, backupVars, proxyVars, importVars, editVars,
          resetVars, updateVars, recentVars>>

NoProcess ==
  exe = Unused /\ proc = Unused /\ cmd = Unused /\ job = Unused /\ started = Unused
NoBackups ==
  /\ interval = Unused /\ files = Unused /\ last = Unused /\ attempts = Unused
  /\ pending = Unused /\ asleep = Unused /\ wake = Unused /\ tried = Unused
NoProxies ==
  /\ pools = Unused /\ bound = Unused /\ test = Unused /\ asked = Unused
  /\ results = Unused /\ waiting = Unused /\ edits = Unused
NoImport == cpa = Unused /\ imports = Unused /\ synced = Unused /\ failures = Unused
NoEdits ==
  /\ disk = Unused /\ writes = Unused /\ reqs = Unused
  /\ work = Unused /\ want = Unused /\ clean = Unused
NoResets ==
  /\ credits = Unused /\ active = Unused /\ inFlight = Unused
  /\ resets = Unused /\ redeemed = Unused /\ told = Unused
NoUpdates == release = Unused /\ tags = Unused /\ check = Unused
NoRecent ==
  /\ offered = Unused /\ queue = Unused /\ worker = Unused /\ held = Unused
  /\ closed = Unused /\ cached = Unused /\ health = Unused /\ lastPrune = Unused
  /\ delivered = Unused /\ dropped = Unused /\ restarts = Unused

ServicesInit ==
  /\ part \in Parts
  /\ IF part = "process" THEN Process!Init ELSE NoProcess
  /\ IF part = "backups" THEN Backups!Init ELSE NoBackups
  /\ IF part = "proxies" THEN Proxies!Init ELSE NoProxies
  /\ IF part = "import" THEN Import!Init ELSE NoImport
  /\ IF part = "edits" THEN Edits!Init ELSE NoEdits
  /\ IF part = "resets" THEN Resets!Init ELSE NoResets
  /\ IF part = "updates" THEN Updates!Init ELSE NoUpdates
  /\ IF part = "recent" THEN Recent!CacheInit ELSE NoRecent
  /\ part \notin {"recent", "edits"} => rows = Unused
  /\ part \notin {"backups", "import", "recent"} => now = Unused

ServicesNext ==
  \/ /\ part = "process" /\ Process!Next
     /\ UNCHANGED <<part, now, rows, backupVars, proxyVars, importVars,
                    editVars, resetVars, updateVars, recentVars>>
  \/ /\ part = "backups" /\ Backups!Next
     /\ UNCHANGED <<part, rows, processVars, proxyVars, importVars, editVars,
                    resetVars, updateVars, recentVars>>
  \/ /\ part = "proxies" /\ Proxies!Next
     /\ UNCHANGED <<part, now, rows, processVars, backupVars, importVars,
                    editVars, resetVars, updateVars, recentVars>>
  \/ /\ part = "import" /\ Import!Next
     /\ UNCHANGED <<part, rows, processVars, backupVars, proxyVars, editVars,
                    resetVars, updateVars, recentVars>>
  \/ /\ part = "edits" /\ Edits!Next
     /\ UNCHANGED <<part, now, processVars, backupVars, proxyVars,
                    importVars, resetVars, updateVars, recentVars>>
  \/ /\ part = "resets" /\ Resets!Next
     /\ UNCHANGED <<part, now, rows, processVars, backupVars, proxyVars,
                    importVars, editVars, updateVars, recentVars>>
  \/ /\ part = "updates" /\ Updates!Next
     /\ UNCHANGED <<part, now, rows, processVars, backupVars, proxyVars,
                    importVars, editVars, resetVars, recentVars>>
  \/ /\ part = "recent" /\ Recent!CacheNext
     /\ UNCHANGED <<part, processVars, backupVars, proxyVars, importVars,
                    editVars, resetVars, updateVars>>
ServicesSpec == ServicesInit /\ [][ServicesNext]_allVars

-----------------------------------------------------------------------------
(* What the parts promise; their own modules say it in words.               *)

\* The running CPA is the one the manager can stop (cpamanager/manager.go).
AliveIsTracked == part = "process" => Process!AliveIsTracked

\* The executable is replaced after its process has ended (Update).
ReplacedWhenStopped == part = "process" => Process!ReplacedWhenStopped

\* The task never sleeps past the next backup (backup_runner.go).
SleepsAnInterval == part = "backups" => Backups!SleepsAnInterval

\* No backup is removed before its days are over (backup.go).
RemovedOnlyOld == [][part = "backups" => Backups!RemovesOnlyOld]_allVars

\* Auth files bound to proxies are counted once (attachProxyPoolBindingCounts).
BindingsCountedOnce == part = "proxies" => Proxies!BindingsCountedOnce

\* No goroutine of a test is left behind (TestProxyURL).
ProbesNeverStuck == part = "proxies" => Proxies!ProbesNeverStuck

\* An answered import gave each session a file (buildAuthFileImports...).
EachSessionHasItsFile == part = "import" => Import!EachSessionHasItsFile

\* An answered change of auth files is over and complete (auth_files_management.go).
AnswersAreFinal == part = "edits" => Edits!AnswersAreFinal

\* Changes of a file that do not overlap add up (updateAuthFileJSONStringField).
EditsAddUp == part = "edits" => Edits!EditsAddUp

\* A credential is reset by one request at a time (quota/reset.go).
RedeemsOneByOne == part = "resets" => Resets!RedeemsOneByOne

\* The release that is offered is newer, and the newest that was seen (updatecheck).
OffersTheNewest == part = "updates" => Updates!OffersTheNewest

-----------------------------------------------------------------------------
(* One property for each question.                                          *)

\* The manager has the process it started in hand, also while it replaces its executable.
ProcessInHand == AliveIsTracked /\ ReplacedWhenStopped

\* Backups are made when they are due and kept for their days.
BackupsOnTime == []SleepsAnInterval /\ RemovedOnlyOld

\* What is shown of proxies is counted once, and testing them leaves nothing behind.
ProxiesSound == BindingsCountedOnce /\ ProbesNeverStuck

\* Changes of auth files are over when they are answered, and leave each other alone.
AuthFilesChanged == AnswersAreFinal /\ EditsAddUp

\* The cache of recent events can be asked instead of the table.
RecentEventsExact == part = "recent" => Recent!CacheComplete /\ Recent!HealthExact

-----------------------------------------------------------------------------
(* Refuted.                                                                 *)

\* config.go:81: BackupInterval is the least time between two writes of a backup.
WritesApart == [][part = "backups" => Backups!WritesOnTime]_allVars

\* With nothing under way the executable of CPA is whole.
ExeIsWhole == part = "process" => Process!ExeIsWhole

\* Overlapping changes of a file keep what CPA wrote into it.
RestKept == part = "edits" => Edits!RestKept

\* The rows show an answered change, whatever synchronisations overlap.
RowsShowAnswered == part = "edits" => Edits!RowsShowAnswered

\* A credit is redeemed only for a reset that is answered.
CreditsAnswered == part = "resets" => Resets!CreditsAnswered

\* One tag too great to read hides no newer one.
NewerTagOffered == part = "updates" => Updates!NewerTagOffered

\* CPA holds the files of an answered import as they were uploaded.
FilesStay == part = "import" => Import!FilesStay

=============================================================================
