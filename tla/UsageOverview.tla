---------------------------- MODULE UsageOverview ----------------------------
(***************************************************************************)
(* The queries over usage events (internal/repository/usage.go,            *)
(* usage_window_stats.go) beside the writers they run against: the commit  *)
(* of events, the recent-event cache and the statistics tables.            *)
(*                                                                         *)
(* A query decides from its time range which part it answers from single   *)
(* events, which from hourly and which from daily statistics, and runs one *)
(* statement after another without a transaction around them: its plan is  *)
(* a sequence of reads, and writers step between two reads.  What a query  *)
(* answers is abstracted to how often each event was counted: in the       *)
(* series and sums (main), in the health totals (totals) and in the health *)
(* grid (grid).                                                            *)
(***************************************************************************)
EXTENDS RecentEventCache, FiniteSets

CONSTANTS Presets,       \* the rolling ranges: name |-> duration
          WeekRange,     \* the rolling range shown by days ("7d")
          ShortRanges,   \* the ranges with a 24-hour health grid
          Week,          \* from this length on, series are by day (7 days)
          ShortSpan, LongSpan, LongWindow,  \* health buckets (129 s, 15 min; 7 days)
          CustomRanges,  \* the custom ranges users ask for, pairs of times
          RawOnly,       \* quota windows up to this length are events only (5 hours)
          RealtimeWindow, RealtimeSpan, RealtimeAggregation,  \* 60 min, 120 s, 10 min
          QueryTime,     \* bound: how long a query may take
          Kinds          \* the kinds of query asked

ASSUME QueryAssumption ==
    /\ DOMAIN Presets \in SUBSET STRING /\ \A p \in DOMAIN Presets : Presets[p] \in Nat
    /\ CustomRanges \subseteq Int \X Int
    /\ LongWindow \in Int /\ Week \in Int /\ RawOnly \in Int
    /\ ShortSpan \in Nat \ {0} /\ LongSpan \in Nat \ {0} /\ RealtimeSpan \in Nat \ {0}
    /\ QueryTime \in Nat
    /\ RealtimeWindow \in Nat \ {0} /\ RealtimeWindow % RealtimeSpan = 0
    /\ RealtimeAggregation \in Nat
    /\ RealtimeWindow + RealtimeAggregation + QueryTime <= Window

\* There are midnights as far as the queries look for one.
ASSUME CalendarAssumption ==
    FirstTime <= MaxTime /\ \E first, second, last \in Midnights :
        /\ first < second /\ second <= FirstTime /\ MaxTime < last
        /\ \A t \in EventTimes \union {FirstTime - Presets[p] : p \in DOMAIN Presets}
                          \union {w[1] : w \in CustomRanges} : first <= t /\ t < last

VARIABLES counted,  \* the statistics checkpoint: events 1..counted are aggregated
          query     \* the query that runs, or the answer of the last one
vars == <<cacheVars, counted, query>>

NoTally == [i \in Ids |-> 0]
NoIds   == [main |-> {}, totals |-> {}, grid |-> {}]
NoQuery == [kind |-> "none", qnow |-> 0, plan |-> <<>>, shown |-> <<0, 0>>, span |-> 1,
            scope |-> {}, due |-> NoIds,
            main |-> NoTally, totals |-> NoTally, grid |-> NoTally]
Running  == query.kind # "none"
Answered == Running /\ query.plan = <<>>

-----------------------------------------------------------------------------
\* The time ranges of the API (parseUsageFilterQuery).  A closed day ends one
\* tick before the next midnight.
NextMidnight(t) == CHOOSE m \in Midnights : m > t /\ \A n \in Midnights : n > t => m <= n

AskedRange(name, start, end) == [name |-> name, start |-> start, end |-> end]

AskedRanges(t) ==
    LET today     == LocalMidnight(t)
        yesterday == LocalMidnight(today - 1)
    IN  {AskedRange(p, t - Presets[p], t) : p \in DOMAIN Presets}
          \union {AskedRange("today", today, NextMidnight(t) - 1),
                  AskedRange("yesterday", yesterday, today - 1)}
          \union {AskedRange("custom", w[1], w[2]) : w \in {w \in CustomRanges : w[1] <= w[2]}}

\* usageOverviewCurrentRightBoundary
CurrentRight(r, t) ==
    \/ r.name \in DOMAIN Presets \union {"today"}
    \/ r.name = "custom" /\ r.end > t

\* usageOverviewEffectiveFilter: an end in the future is cut to now
Effective(r, t) == [r EXCEPT !.end = AtMost(@, t)]

-----------------------------------------------------------------------------
(***************************************************************************)
(* The windows of single events an overview reads.                         *)
(***************************************************************************)
RawWindow(lo, hi, closed0, right) ==
    [lo |-> lo, hi |-> hi, closed |-> closed0, right |-> right]

\* appendUsageOverviewRawEventBoundaryWindows: what is left of [start, end]
\* on both sides of [coveredStart, coveredEnd)
BoundaryWindows(start, end, coveredStart, coveredEnd, closed0, right) ==
    LET leftEnd    == AtMost(coveredStart, end)
        rightStart == AtLeast(coveredEnd, start)
        left == RawWindow(start, leftEnd, closed0 /\ leftEnd = end, right /\ leftEnd = end)
        last == RawWindow(rightStart, end, closed0, right)
    IN  IF start >= end THEN <<>>
        ELSE (IF start < leftEnd THEN <<left>> ELSE <<>>)
             \o (IF end >= coveredEnd /\ (rightStart < end \/ (closed0 /\ rightStart = end))
                 THEN <<last>> ELSE <<>>)

\* mergeUsageOverviewRawEventWindows: sorted windows, those that meet are joined
Join(w, v) ==
    IF v.hi > w.hi THEN [v EXCEPT !.lo = w.lo]
    ELSE IF v.hi = w.hi THEN [w EXCEPT !.closed = @ \/ v.closed, !.right = @ \/ v.right]
    ELSE [w EXCEPT !.right = @ \/ v.right]

\* by start, then by end; windows alike stay as they are listed
SortedWindows(windows) ==
    LET Before(i, j) == \/ windows[i].lo < windows[j].lo
                        \/ /\ windows[i].lo = windows[j].lo
                           /\ \/ windows[i].hi < windows[j].hi
                              \/ windows[i].hi = windows[j].hi /\ i < j
        Place(i) == Cardinality({j \in DOMAIN windows : Before(j, i)}) + 1
    IN  [n \in DOMAIN windows |-> windows[CHOOSE i \in DOMAIN windows : Place(i) = n]]

AddWindow(merged, v) ==
    IF merged = <<>> THEN <<v>>
    ELSE IF v.lo > merged[Len(merged)].hi THEN Append(merged, v)
    ELSE [merged EXCEPT ![Len(merged)] = Join(@, v)]

MergeWindows(windows) ==
    LET sorted == SortedWindows(windows)
        merged[n \in 0..Len(sorted)] ==
            IF n = 0 THEN <<>> ELSE AddWindow(merged[n - 1], sorted[n])
    IN  merged[Len(sorted)]

\* buildUsageOverviewHealth, usageOverviewHealthWindow: the window the health
\* grid shows, cut to the query's own (usageOverviewHealthExactWindow)
HealthGrid(r, t) ==
    LET day   == NextMidnight(r.start)
        whole == Truncate(r.end, LongSpan) + LongSpan
        upTo  == IF whole > t THEN r.end ELSE whole
        shown == IF r.name \in {"today", "yesterday"} /\ day <= t THEN <<r.start, day>>
                 ELSE IF r.name \in ShortRanges THEN <<r.end - StdDay, r.end>>
                 ELSE <<upTo - LongWindow, upTo>>
    IN  <<AtLeast(shown[1], r.start), AtMost(shown[2], r.end)>>

GridSpan(r) == IF r.name \in ShortRanges THEN ShortSpan ELSE LongSpan

\* usageOverviewRawEventWindows: the edges of the hours and of the health grid
RawEventWindows(r, shown, fullStart, fullEnd, right) ==
    LET gridStart == FullHealthStart(shown[1], GridSpan(r))
        gridEnd   == FullHealthEnd(shown[1], shown[2], GridSpan(r))
    IN  MergeWindows(
            BoundaryWindows(r.start, r.end, fullStart, fullEnd, TRUE, right)
            \o BoundaryWindows(shown[1], shown[2], gridStart, gridEnd, FALSE, FALSE))

-----------------------------------------------------------------------------
(***************************************************************************)
(* The plans.  A read names the statement, its half-open window and the    *)
(* part of the answer it feeds.                                            *)
(***************************************************************************)
Read(op, lo, hi) == [op |-> op, lo |-> lo, hi |-> hi, closed |-> FALSE, right |-> FALSE,
                     skip |-> <<lo, lo>>, skipGrid |-> <<lo, lo>>]
\* a statement is only run for a window that is not empty
Part(op, lo, hi) == IF lo < hi THEN <<Read(op, lo, hi)>> ELSE <<>>

\* The hours around the whole days, and the days.
DaysAndHours(fullStart, fullEnd) ==
    LET ds == FullDayStart(fullStart)
        de == FullDayEnd(fullStart, fullEnd)
    IN  Part("day", ds, de) \o Part("hour", fullStart, ds) \o Part("hour", de, fullEnd)

\* shouldBucketUsageOverviewByDay
ByDay(r) == r.name = WeekRange \/ r.end - r.start >= Week

\* buildUsageOverviewFromStats
OverviewPlan(asked, t) ==
    LET r       == Effective(asked, t)
        fs      == FullHourStart(r.start)
        fe      == FullHourEnd(r.start, r.end)
        shown   == HealthGrid(r, t)
        gs      == FullHealthStart(shown[1], GridSpan(r))
        ge      == FullHealthEnd(shown[1], shown[2], GridSpan(r))
        windows == RawEventWindows(r, shown, fs, fe, CurrentRight(asked, t))
        raw(w)  == [Read("raw", w.lo, w.hi) EXCEPT !.closed = w.closed, !.right = w.right,
                                                   !.skip = <<fs, fe>>, !.skipGrid = <<gs, ge>>]
        byDay   == ByDay(r) /\ FullDayEnd(fs, fe) > FullDayStart(fs)
    IN  [i \in DOMAIN windows |-> raw(windows[i])]
        \o (IF byDay THEN DaysAndHours(fs, fe) ELSE Part("hour", fs, fe))
        \o Part("sum", fs, fe) \o Part("grid", gs, ge)

\* BuildAnalysisWithFilter: latencies from single events, the rest from whole
\* hours and days only; analysisHourlyStatsEnd moves the end of some ranges
AnalysisEnd(r) ==
    LET fe == FullHourEnd(r.start, r.end)
    IN  IF r.name \in DOMAIN Presets \ {WeekRange}
        THEN IF r.end > fe THEN fe + Hour ELSE fe
        ELSE IF r.name \in {"today", "yesterday"}
        THEN AtLeast(fe, Truncate(r.start, Hour) + StdDay)
        ELSE fe

AnalysisPlan(r) ==
    LET fs == FullHourStart(r.start)
        fe == AnalysisEnd(r)
        ds == FullDayStart(fs)
        de == FullDayEnd(fs, fe)
    IN  <<[Read("latency", r.start, r.end) EXCEPT !.closed = TRUE]>>
        \o (IF r.end - r.start > StdDay
            THEN Part("day", ds, de) \o Part("hour", fs, AtMost(ds, fe))
                 \o Part("hour", AtLeast(de, fs), fe)
            ELSE Part("hour", fs, fe))

\* loadUsageWindowTokenStats: what a credential used in a quota window
\* (up to now when the window has no end yet)
QuotaPlan(start, end) ==
    LET le == QuotaLeftEnd(start, end)
        rs == QuotaRightStart(start, end)
    IN  IF end - start <= RawOnly THEN Part("event", start, end)
        ELSE Part("event", start, le) \o Part("hour", le, rs) \o Part("event", rs, end)

\* The buckets a rolling average sums, and the buckets read before the window
\* for the first of them (usageOverviewRealtimeAggregationBucketCount, ...Warmup...)
RollingCount == AtLeast(1, (RealtimeAggregation + RealtimeSpan - 1) \div RealtimeSpan)
WarmupCount  == RollingCount - 1

\* buildUsageOverviewRealtime
RealtimePlan(t) == <<Read("recent", t - RealtimeWindow - WarmupCount * RealtimeSpan, t)>>

\* usageOverviewRealtimeBucketIndex: what is late for the last bucket joins it
BucketIndex(t, readStart) ==
    AtMost((t - readStart) \div RealtimeSpan,
           RealtimeWindow \div RealtimeSpan + WarmupCount - 1)

\* aggregateUsageOverviewRealtimeBucket for the first point of the chart
FirstPoint == AtLeast(0, WarmupCount - RollingCount + 1)..WarmupCount

\* ListUsageEventsWithFilter: the count of the rows, then a page of them
PagePlan(r) == <<[Read("count", r.start, r.end) EXCEPT !.closed = TRUE],
                 [Read("list", r.start, r.end) EXCEPT !.closed = TRUE]>>

\* StreamUsageEventsWithFilter: an export is one statement
ExportPlan(r) == <<[Read("list", r.start, r.end) EXCEPT !.closed = TRUE]>>

-----------------------------------------------------------------------------
(***************************************************************************)
(* What one read finds.                                                    *)
(***************************************************************************)
InRead(t, s) == s.lo <= t /\ (t < s.hi \/ (s.closed /\ t = s.hi))

MutCovers(s) == TRUE       \* the cache answers every window

\* usageOverviewRecentCacheCoversWindow
CacheCovers(s) ==
    \/ s.hi < s.lo
    \/ ~s.closed /\ s.hi = s.lo /\ ~s.right
    \/ s.lo >= query.qnow - Window

MutRawOpen(s) ==           \* every cached window is read without its end
    IF CacheCovers(s) THEN {i \in cached : rows[i].ts >= s.lo}
    ELSE {i \in Committed : InRead(rows[i].ts, s)}

\* loadUsageOverviewRawEventWindowsWithFilter: the cache (open-ended at the
\* current right end), else the table
RawIds(s) ==
    IF CacheCovers(s)
    THEN {i \in cached : IF s.right THEN rows[i].ts >= s.lo ELSE InRead(rows[i].ts, s)}
    ELSE {i \in Committed : InRead(rows[i].ts, s)}

Aggregated == {i \in Committed : i <= counted}
HourIds(s) == {i \in Aggregated : Inside(HourBucket(rows[i].ts), s.lo, s.hi)}
DayIds(s)  == {i \in Aggregated : Inside(DayBucket(rows[i].ts), s.lo, s.hi)}
HealthIds(s, span) ==
    {i \in Aggregated : Inside(Truncate(rows[i].ts, span), s.lo, s.hi)}
EventIds(s)  == {i \in Committed : InRead(rows[i].ts, s)}
RecentIds(s) == {i \in cached : InRead(rows[i].ts, s)}

MutRawMain(s) == RawIds(s)     \* the whole hours are not skipped

\* the single events of an overview that no whole hour holds
RawMain(s) == {i \in RawIds(s) : ~Inside(rows[i].ts, s.skip[1], s.skip[2])}

\* those of the grid that no whole health bucket holds
RawGrid(s) == {i \in RawIds(s) : /\ Inside(rows[i].ts, query.shown[1], query.shown[2])
                                 /\ ~Inside(rows[i].ts, s.skipGrid[1], s.skipGrid[2])}

\* the events a read adds to the series and sums
MainIds(s) ==
    CASE s.op = "raw"    -> RawMain(s)
      [] s.op = "hour"   -> HourIds(s)
      [] s.op = "day"    -> DayIds(s)
      [] s.op = "recent" -> RecentIds(s)
      [] s.op \in {"event", "list"} -> EventIds(s)
      [] OTHER -> {}

\* the events a read adds to the totals (of an overview's health, of a page)
TotalIds(s) ==
    CASE s.op = "raw" -> RawMain(s)
      [] s.op = "sum" -> HourIds(s)
      [] s.op \in {"count", "latency"} -> EventIds(s)
      [] OTHER -> {}

\* the events a read adds to the health grid, or to the chart's first point
GridIds(s) ==
    CASE s.op = "raw"    -> RawGrid(s)
      [] s.op = "grid"   -> HealthIds(s, query.span)
      [] s.op = "recent" -> {i \in RecentIds(s) : BucketIndex(rows[i].ts, s.lo) \in FirstPoint}
      [] OTHER -> {}

Tally(tally, ids) == [i \in Ids |-> tally[i] + (IF i \in ids THEN 1 ELSE 0)]

-----------------------------------------------------------------------------
(***************************************************************************)
(* Queries.  due: what the answer owes, see Settled; scope: the times it   *)
(* may count.                                                              *)
(***************************************************************************)
\* An event is settled when the statistics and the cache have it and the cache
\* will not prune it before the query ends.
Settled(t) == {i \in Aggregated \cap delivered :
                   ~Inside(rows[i].ts, t - Window, t - Window + QueryTime)}
SettledIn(t, lo, hi) == {i \in Settled(t) : Inside(rows[i].ts, lo, hi)}

Start(kind, plan, scope, due, shown, span) ==
    /\ ~Running /\ ~closed
    /\ query' = [NoQuery EXCEPT !.kind = kind, !.qnow = now, !.plan = plan,
                                !.scope = scope, !.due = due,
                                !.shown = shown, !.span = span]
    /\ UNCHANGED <<cacheVars, counted>>

AskOverview(asked) ==
    LET r     == Effective(asked, now)
        shown == HealthGrid(r, now)
        ids   == IF r.start < r.end THEN SettledIn(now, r.start, r.end + 1) ELSE {}
    IN  /\ "overview" \in Kinds
        /\ Start("overview", OverviewPlan(asked, now),
                 r.start..(IF CurrentRight(asked, now) THEN MaxTime ELSE r.end),
                 [main |-> ids, totals |-> ids, grid |-> SettledIn(now, shown[1], shown[2])],
                 shown, GridSpan(r))

AskAnalysis(r) ==
    /\ "analysis" \in Kinds
    /\ Start("analysis", AnalysisPlan(r), r.start..AtLeast(r.end, AnalysisEnd(r) - 1),
             [NoIds EXCEPT !.main = SettledIn(now, FullHourStart(r.start), AnalysisEnd(r)),
                           !.totals = SettledIn(now, r.start, r.end + 1)], <<0, 0>>, 1)

AskQuota(start, end) ==
    /\ "quota" \in Kinds
    /\ start < end
    /\ Start("quota", QuotaPlan(start, end), start..(end - 1),
             [NoIds EXCEPT !.main = SettledIn(now, start, end)], <<0, 0>>, 1)

AskRealtime ==
    LET plan  == RealtimePlan(now)
        point == now - RealtimeWindow + RealtimeSpan   \* the end of the first point
    IN  /\ "realtime" \in Kinds
        /\ Start("realtime", plan, plan[1].lo..(now - 1),
                 [NoIds EXCEPT !.main = SettledIn(now, plan[1].lo, now),
                               !.grid = SettledIn(now, point - RealtimeAggregation, point)],
                 <<0, 0>>, 1)

AskPage(r) ==
    LET ids == SettledIn(now, r.start, r.end + 1)
    IN  /\ "page" \in Kinds
        /\ Start("page", PagePlan(r), r.start..r.end,
                 [NoIds EXCEPT !.main = ids, !.totals = ids], <<0, 0>>, 1)

AskExport(r) ==
    /\ "page" \in Kinds
    /\ Start("export", ExportPlan(r), r.start..r.end,
             [NoIds EXCEPT !.main = SettledIn(now, r.start, r.end + 1)], <<0, 0>>, 1)

\* The next statement of the query.
Step ==
    /\ Running /\ query.plan # <<>>
    /\ LET s == Head(query.plan)
       IN  query' = [query EXCEPT !.plan = Tail(@), !.main = Tally(@, MainIds(s)),
                                  !.totals = Tally(@, TotalIds(s)),
                                  !.grid = Tally(@, GridIds(s))]
    /\ UNCHANGED <<cacheVars, counted>>

Deliver ==
    /\ Answered
    /\ query' = NoQuery
    /\ UNCHANGED <<cacheVars, counted>>

\* AggregateUsageOverviewStats, in batches of any size
Aggregate ==
    /\ counted < Len(rows) /\ ~closed
    /\ counted' = counted + 1
    /\ UNCHANGED <<cacheVars, query>>

-----------------------------------------------------------------------------
Init == CacheInit /\ counted = 0 /\ query = NoQuery

\* The writers and the cache step between two statements of a query; a query
\* takes at most QueryTime; the server answers its queries before it closes the
\* cache, and a start catches up the statistics before it loads the cache.
Writer ==
    /\ \/ Tick /\ (Running => now < query.qnow + QueryTime)
       \/ CacheWork
       \/ ~closed /\ \E t \in EventTimes, c \in Credentials : Commit(t, c)
       \/ ~Running /\ Close
       \/ WorkerExit
    /\ UNCHANGED <<counted, query>>

Reopen == Restart /\ counted' = Len(rows) /\ query' = NoQuery

Ask ==
    \/ \E r \in AskedRanges(now) : 
           AskOverview(r) \/ AskAnalysis(r) \/ AskPage(r) \/ AskExport(r)
    \/ \E w \in CustomRanges : AskQuota(w[1], w[2])
    \/ AskRealtime

Next == Writer \/ Reopen \/ Ask \/ Step \/ Deliver \/ Aggregate

Spec == Init /\ [][Next]_vars

-----------------------------------------------------------------------------
\* What each variable holds.
TypeOK ==
    /\ CacheTypeOK
    /\ counted \in 0..Len(rows)
    /\ query.kind \in Kinds \union {"none", "export"}
    /\ \A tally \in {query.main, query.totals, query.grid} : tally \in [Ids -> Nat]

\* No answer counts an event twice, although hours, days, health buckets and
\* single events are read by statements that run one after another, while
\* events are committed, aggregated and cached between them
\* (usageOverviewRawEventWindows, mergeUsageOverviewRawEventWindows,
\* usageOverviewFullDayWindow, sumLongUsageWindowTokenStats).
CountedOnce ==
    \A tally \in {query.main, query.totals, query.grid}, i \in Ids : tally[i] <= 1

\* No answer counts an event outside the range it was asked for; a range that
\* ends now may take in what was committed since.
OnlyInside ==
    \A i \in Committed :
        query.main[i] + query.totals[i] + query.grid[i] > 0 => rows[i].ts \in query.scope

\* An event that the statistics and the cache had when the query started is in
\* the answer, in each of its parts: the parts read from different places leave
\* no gap between them.
SettledCounted ==
    Answered => /\ \A i \in query.due.main : query.main[i] = 1
                /\ \A i \in query.due.totals : query.totals[i] = 1
                /\ \A i \in query.due.grid : query.grid[i] = 1
=============================================================================
