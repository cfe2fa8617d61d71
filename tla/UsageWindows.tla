---------------------------- MODULE UsageWindows ----------------------------
(***************************************************************************)
(* The time arithmetic the usage queries share                             *)
(* (internal/repository/usage.go, usage_window_stats.go): which part of a  *)
(* query's time range is answered by whole-hour and whole-day statistics   *)
(* and which part by single events.                                        *)
(*                                                                         *)
(* A time is an integer.  Whole hours are the multiples of Hour, because   *)
(* time.Truncate counts from the zero time and not from local midnight.    *)
(* Local midnights are whatever the project's time zone makes them, so     *)
(* they are a parameter; StdDay is the 24 hours the code adds to a         *)
(* midnight to reach the next one.                                         *)
(***************************************************************************)
EXTENDS Integers

CONSTANTS Hour,       \* the length of an hour
          Midnights,  \* the local midnights
          StdDay      \* the length of 24 hours

ASSUME WindowAssumption ==
    /\ Hour \in Nat \ {0}
    /\ StdDay \in Nat \ {0}
    /\ Midnights \subseteq Int

-----------------------------------------------------------------------------
Truncate(t, span) == t - (t % span)

CeilHour(t) == IF t = Truncate(t, Hour) THEN t ELSE Truncate(t, Hour) + Hour

AtLeast(a, b) == IF a < b THEN b ELSE a     \* the later of two times
AtMost(a, b)  == IF a < b THEN a ELSE b     \* the earlier of two times

\* usageOverviewFullHourWindow: the whole hours inside a range
FullHourStart(start) == CeilHour(start)
FullHourEnd(start, end) == AtLeast(Truncate(end, Hour), FullHourStart(start))

\* time.Date(y, m, d, 0, 0, ...): the midnight that starts the local day of t
LocalMidnight(t) == CHOOSE m \in Midnights :
                        m <= t /\ \A n \in Midnights : n <= t => n <= m

\* usageOverviewFullDayWindow: the whole local days inside a range of hours
FullDayStart(start) ==
    IF start = LocalMidnight(start) THEN start ELSE LocalMidnight(start) + StdDay
FullDayEnd(start, end) == AtLeast(LocalMidnight(end), FullDayStart(start))

\* usageOverviewFullHealthWindow: the whole buckets of `span` inside a range
FullHealthStart(start, span) ==
    IF Truncate(start, span) < start THEN Truncate(start, span) + span
                                     ELSE Truncate(start, span)
FullHealthEnd(start, end, span) ==
    AtLeast(Truncate(end, span), FullHealthStart(start, span))

\* A half-open window, and the buckets a statistics table holds for an event.
Inside(t, lo, hi) == lo <= t /\ t < hi
HourBucket(t) == Truncate(t, Hour)
DayBucket(t)  == LocalMidnight(t)

-----------------------------------------------------------------------------
\* sumLongUsageWindowTokenStats: a quota window is single events up to the
\* first whole hour, then hourly statistics, then single events for the last
\* one to two hours, whose statistics may lag behind.
QuotaLeftEnd(start, end) == AtMost(CeilHour(start), end)
QuotaRightStart(start, end) ==
    AtLeast(AtLeast(Truncate(end, Hour) - Hour, start), QuotaLeftEnd(start, end))
=============================================================================
