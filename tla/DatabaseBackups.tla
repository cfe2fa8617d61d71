-------------------------- MODULE DatabaseBackups --------------------------
(***************************************************************************)
(* The task that copies the database (internal/app/backup_runner.go) and   *)
(* the files it keeps (internal/backup/backup.go).  Time is in ticks from  *)
(* the zero time, which stands for "never"; a day of the time zone has Day *)
(* ticks and 04:00 is tick Four of it.  An interval of whole days makes a  *)
(* backup at 04:00, any other counts from the last backup.                 *)
(***************************************************************************)
EXTENDS Naturals, FiniteSetsExt

CONSTANTS
  Day, Four,
  Intervals,      \* values of BACKUP_INTERVAL
  RetentionDays,  \* BACKUP_RETENTION_DAYS, 0 keeps every backup
  RetryDelay,     \* 15 minutes
  Horizon         \* bound: the last tick

BackupConstants ==
  /\ Day \in Nat \ {0} /\ Four \in Nat /\ RetentionDays \in Nat /\ RetryDelay \in Nat
  /\ Intervals \subseteq Nat

VARIABLES
  now,
  interval,  \* BACKUP_INTERVAL of this run of the program
  files,     \* the times of the backups on disk
  last,      \* lastBackupAt, or Never
  attempts,  \* retryAttempts
  pending,   \* pendingRetry
  asleep,    \* when the task went to sleep
  wake,      \* when its timer fires
  tried      \* history: when it last tried to write in this run, or Never
vars == <<now, interval, files, last, attempts, pending, asleep, wake, tried>>

Never == 0
DayOf(t) == t \div Day
FourOf(t) == DayOf(t) * Day + Four
Later(s, t) == IF s > t THEN s ELSE t

\* Faulty: the days are added to the next 04:00 and not to that of the newest backup.
NextDailyTwice(t, newest) ==
  LET next == IF t < FourOf(t) THEN FourOf(t) ELSE FourOf(t) + Day
  IN IF newest # Never /\ t < FourOf(newest) + interval THEN next + interval ELSE next

\* nextDailyDelay: the next 04:00, or that of the day Interval after the newest backup.
NextDaily(t, newest) ==
  LET next == IF t < FourOf(t) THEN FourOf(t) ELSE FourOf(t) + Day
      due  == FourOf(newest) + interval
  IN IF newest # Never /\ t < due THEN due ELSE next

\* lastBackupAtFromHistory; the directory may be unreadable.
Newest(kept, memory) == {memory, Max(kept \union {memory})}

\* nextDelay, as the time the timer fires.
NextWake(t, retry, newest) ==
  IF retry THEN t + RetryDelay
  ELSE IF interval >= Day /\ interval % Day = 0 THEN NextDaily(t, newest)
  ELSE IF newest = Never THEN t
  ELSE Later(t, newest + interval)

\* Faulty: a day less is kept than asked for.
KeptOneLess(t, all) == {f \in all : RetentionDays = 0 \/ DayOf(f) + RetentionDays > DayOf(t) + 1}

\* Cleanup: the directories of days before the first one to keep are removed.
Kept(t, all) == {f \in all : RetentionDays = 0 \/ DayOf(f) + RetentionDays > DayOf(t)}

\* What cleanup may leave: an error, logged and no more, ends it anywhere.
Cleaned(t, all) == {Kept(t, all) \union spared : spared \in SUBSET (all \ Kept(t, all))}

Init ==
  /\ now \in Day..(2 * Day) /\ interval \in Intervals /\ files \in {{}, {now - 1}}
  /\ last = Never /\ attempts = 0 /\ pending = FALSE
  /\ asleep = now /\ tried = Never
  /\ \E newest \in Newest(files, last) : wake = NextWake(now, FALSE, newest)

-----------------------------------------------------------------------------
Tick ==
  /\ now < Horizon /\ now' = now + 1
  /\ UNCHANGED <<interval, files, last, attempts, pending, asleep, wake, tried>>

\* Back to sleep, with whatever the directory tells.
Sleep ==
  /\ asleep' = now
  /\ \E newest \in Newest(files', last') : wake' = NextWake(now, pending', newest)

Restart ==
  /\ last' = Never /\ attempts' = 0 /\ pending' = FALSE /\ tried' = Never
  /\ UNCHANGED <<now, interval, files>>
  /\ Sleep

\* The write succeeds or not, then old backups are cleaned up.
Backup ==
  /\ now >= wake
  /\ \/ /\ last' = now /\ attempts' = 0 /\ pending' = FALSE
        /\ files' \in Cleaned(now, files \union {now})
     \/ /\ attempts' = IF attempts > 3 THEN attempts ELSE attempts + 1
        /\ pending' = (attempts' <= 3)
        /\ files' \in Cleaned(now, files)
        /\ UNCHANGED last
  /\ tried' = now
  /\ Sleep
  /\ UNCHANGED <<now, interval>>

Next == Tick \/ Restart \/ Backup
Spec == Init /\ [][Next]_vars

-----------------------------------------------------------------------------
\* Shapes of the state.
TypeOK ==
  /\ now \in 0..Horizon /\ interval \in Intervals /\ files \subseteq 0..now /\ last \in 0..now
  /\ attempts \in 0..4 /\ pending \in BOOLEAN /\ asleep \in 0..now /\ tried \in 0..now

\* The task never sleeps past the time a backup is due: an interval after the newest backup it
\* can know of, or 04:00 of that day, whatever failed and whenever the program was restarted.
SleepsAnInterval ==
  wake <= Later(asleep + Later(RetryDelay, interval), FourOf(asleep) + interval)

\* A backup that is removed is at least RetentionDays days old, so a day's backup is there on
\* each of the days it was asked to be kept.
RemovesOnlyOld ==
  \A f \in files \ files' : RetentionDays > 0 /\ DayOf(f) + RetentionDays <= DayOf(now)
RemovedOnlyOld == [][RemovesOnlyOld]_vars

\* config.go:81: BackupInterval is the least time between two writes of a backup.
WritesOnTime == Backup /\ ~pending /\ tried # Never => now - tried >= interval
WritesApart == [][WritesOnTime]_vars
=============================================================================
