------------------------ MODULE UsageOverviewProofs ------------------------
(***************************************************************************)
(* The answers about usage, for every value of the constants: how the      *)
(* queries cut a time range into reads of hours, days, health buckets and  *)
(* single events, and that each read finds, whatever is written while the  *)
(* query runs, nothing but its part of the range and nothing less than was *)
(* there at its start.                                                     *)
(***************************************************************************)
EXTENDS UsageOverview, SequenceTheorems, FunctionTheorems, FiniteSetTheorems, WellFoundedInduction, TLAPS

-----------------------------------------------------------------------------
(* Numbers and orders.                                                      *)

\* A set of naturals that is not empty has a least element.
LEMMA LeastOf ==
  ASSUME NEW S, S \subseteq Nat, S # {}
  PROVE  \E m \in S : \A n \in S : m <= n
<1>1. \E m \in S : \A n \in S : ~ (<<n, m>> \in OpToRel(<, Nat)) BY NatLessThanWellFounded, WFMin, Zenon
<1>2. PICK m \in S : \A n \in S : ~ (<<n, m>> \in OpToRel(<, Nat)) BY <1>1
<1>3. \A n \in S : ~(n < m) BY <1>2, Zenon DEF OpToRel
<1> QED BY <1>3

\* What stands before an element of a finite set in an order, and how much that is.
Before(S, R, x) == {y \in S : <<y, x>> \in R}
Ordered(S, R) ==
  /\ \A x \in S : <<x, x>> \notin R
  /\ \A x, y, z \in S : <<x, y>> \in R /\ <<y, z>> \in R => <<x, z>> \in R

\* Less stands before what is earlier.
LEMMA FewerBefore ==
  ASSUME NEW S, IsFiniteSet(S), NEW R, Ordered(S, R)
  PROVE  /\ \A x \in S : IsFiniteSet(Before(S, R, x)) /\ Cardinality(Before(S, R, x)) \in 0 .. Cardinality(S) - 1
         /\ \A x, y \in S : <<y, x>> \in R =>
              Cardinality(Before(S, R, y)) < Cardinality(Before(S, R, x))
<1>1. ASSUME NEW T, IsFiniteSet(T), NEW U, U \subseteq T, NEW z \in T, z \notin U
      PROVE  IsFiniteSet(U) /\ Cardinality(U) \in Nat /\ Cardinality(T) \in Nat /\ Cardinality(U) < Cardinality(T)
  <2>1. IsFiniteSet(U) /\ Cardinality(U) <= Cardinality(T) /\ U # T BY <1>1, FS_Subset
  <2>2. Cardinality(U) # Cardinality(T) BY <1>1, FS_Subset
  <2> QED BY <1>1, <2>1, <2>2, FS_CardinalityType
<1>2. ASSUME NEW x \in S PROVE IsFiniteSet(Before(S, R, x)) /\ Cardinality(Before(S, R, x)) \in 0 .. Cardinality(S) - 1
  <2>1. PICK U : U = Before(S, R, x) OBVIOUS
  <2>2. U \subseteq S /\ x \notin U BY <2>1 DEF Before, Ordered
  <2>3. IsFiniteSet(U) /\ Cardinality(U) \in Nat /\ Cardinality(S) \in Nat /\ Cardinality(U) < Cardinality(S)
    BY <1>1, <2>2
  <2> QED BY <2>1, <2>3
<1>3. ASSUME NEW x \in S, NEW y \in S, <<y, x>> \in R
      PROVE  Cardinality(Before(S, R, y)) < Cardinality(Before(S, R, x))
  <2>1. Before(S, R, y) \subseteq Before(S, R, x) /\ y \in Before(S, R, x) /\ y \notin Before(S, R, y)
    BY <1>3 DEF Before, Ordered
  <2> QED BY <1>1, <1>2, <2>1
<1> QED BY <1>2, <1>3

\* Something comes first.
LEMMA FirstOf ==
  ASSUME NEW S, IsFiniteSet(S), S # {}, NEW R, Ordered(S, R)
  PROVE  \E x \in S : \A y \in S : <<y, x>> \notin R
<1> DEFINE Counts == {Cardinality(Before(S, R, x)) : x \in S}
<1>1. \A x \in S : Cardinality(Before(S, R, x)) \in Nat BY FewerBefore, FS_CardinalityType
<1>2. Counts \subseteq Nat /\ Counts # {} BY <1>1
<1>3. \E n \in Counts : \A k \in Counts : ~(k < n)
  <2>1. \E n \in Counts : \A k \in Counts : ~ (<<k, n>> \in OpToRel(<, Nat))
    BY <1>2, NatLessThanWellFounded, WFMin, Zenon
  <2>2. PICK n \in Counts : \A k \in Counts : ~ (<<k, n>> \in OpToRel(<, Nat)) BY <2>1
  <2>3. \A k \in Counts : ~(k < n) BY <1>2, <2>2, Zenon DEF OpToRel
  <2> QED BY <2>3
<1>4. PICK x \in S : \A y \in S : ~(Cardinality(Before(S, R, y)) < Cardinality(Before(S, R, x))) BY <1>3
<1>5. \A y \in S : <<y, x>> \notin R BY <1>4, FewerBefore
<1> QED BY <1>5

-----------------------------------------------------------------------------
(* The buckets of a range.                                                  *)

\* Two multiples of a span that are less than a span apart are one.
LEMMA Multiples ==
  ASSUME NEW s \in Nat, s > 0, NEW k \in Int, NEW m \in Int
  PROVE  /\ s * k \in Int /\ s * m \in Int
         /\ s * k - s * m < s => k <= m
<1>1. s * k \in Int /\ s * m \in Int OBVIOUS
<1>2. ASSUME ~(k <= m) PROVE s * k - s * m >= s
  <2>1. PICK n \in Nat : k = m + 1 + n
    <3>1. k - m - 1 \in Nat BY <1>2
    <3> QED BY <3>1
  <2>2. s * k = s * m + s + s * n BY <2>1
  <2>3. s * n \in Nat OBVIOUS
  <2> QED BY <1>1, <2>2, <2>3
<1> QED BY <1>1, <1>2

\* A time at which a bucket begins.
OnGrid(m, s) == m \in Int /\ \E k \in Int : m = s * k

\* A bucket begins at most a span before each of its times; a time and the start of its bucket
\* are on the same side of every start of a bucket.
LEMMA TruncateIs ==
  ASSUME NEW t \in Int, NEW s \in Nat \ {0}
  PROVE  /\ OnGrid(Truncate(t, s), s) /\ Truncate(t, s) \in Int
         /\ Truncate(t, s) <= t /\ t < Truncate(t, s) + s
<1>1. PICK q \in Int : q = t \div s OBVIOUS
<1>2. t = s * q + (t % s) /\ t % s \in 0..(s - 1) BY <1>1
<1>3. s * q \in Int OBVIOUS
<1>4. Truncate(t, s) = s * q BY <1>2, <1>3 DEF Truncate
<1> QED BY <1>2, <1>3, <1>4 DEF OnGrid

\* Starts of buckets are at least a span apart.
LEMMA GridSteps ==
  ASSUME NEW s \in Nat \ {0}, NEW m, NEW n, OnGrid(m, s), OnGrid(n, s)
  PROVE  /\ m \in Int /\ n \in Int
         /\ m < n => m + s <= n
         /\ OnGrid(m + s, s) /\ OnGrid(m - s, s) /\ OnGrid(m + n, s)
<1>1. PICK j \in Int, k \in Int : m = s * j /\ n = s * k BY DEF OnGrid
<1>2. s * j \in Int /\ s * k \in Int OBVIOUS
<1>3. s * (j + 1) = s * j + s /\ s * (j - 1) = s * j - s /\ s * (j + k) = s * j + s * k OBVIOUS
<1>4. m < n => m + s <= n
  <2> SUFFICES ASSUME m < n, ~(m + s <= n) PROVE FALSE OBVIOUS
  <2>1. s * k - s * j < s /\ s * j - s * k < s BY <1>1, <1>2
  <2>2. j <= k /\ k <= j BY <2>1, Multiples
  <2>3. j = k BY <2>2
  <2> QED BY <1>1, <2>3
<1>5. \A i \in Int : OnGrid(s * i, s) BY DEF OnGrid
<1>6. PICK a \in Int, b \in Int, c \in Int : a = j + 1 /\ b = j - 1 /\ c = j + k OBVIOUS
<1>7. m + s = s * a /\ m - s = s * b /\ m + n = s * c BY <1>1, <1>3, <1>6
<1>8. OnGrid(s * a, s) /\ OnGrid(s * b, s) /\ OnGrid(s * c, s) BY <1>5, <1>6
<1> QED BY <1>1, <1>2, <1>4, <1>7, <1>8

\* A time and the start of its bucket are on the same side of a start of a bucket.
LEMMA SameSide ==
  ASSUME NEW t \in Int, NEW s \in Nat \ {0}, NEW m, OnGrid(m, s)
  PROVE  m <= Truncate(t, s) <=> m <= t
<1>1. OnGrid(Truncate(t, s), s) /\ Truncate(t, s) <= t /\ t < Truncate(t, s) + s BY TruncateIs
<1>2. m \in Int /\ Truncate(t, s) \in Int /\ (Truncate(t, s) < m => Truncate(t, s) + s <= m)
  BY <1>1, GridSteps
<1> QED BY <1>1, <1>2

\* So the whole buckets of a part of a range that begins and ends with a bucket hold its times.
LEMMA WholeBuckets ==
  ASSUME NEW t \in Int, NEW s \in Nat \ {0}, NEW lo, NEW hi, OnGrid(lo, s), OnGrid(hi, s)
  PROVE  Inside(Truncate(t, s), lo, hi) <=> Inside(t, lo, hi)
<1>1. lo \in Int /\ hi \in Int /\ Truncate(t, s) \in Int BY TruncateIs DEF OnGrid
<1>2. (lo <= Truncate(t, s) <=> lo <= t) /\ (hi <= Truncate(t, s) <=> hi <= t) BY SameSide
<1> QED BY <1>1, <1>2 DEF Inside

\* The whole buckets of a range: from the first that begins in it to the last that ends in it.
Whole(start, end, from, to, s) ==
  /\ OnGrid(from, s) /\ OnGrid(to, s)
  /\ start <= from /\ from <= to
  /\ to <= end \/ (from = to /\ end < from)

\* The whole hours of a range.
LEMMA WholeHours ==
  ASSUME NEW start \in Int, NEW end \in Int
  PROVE  Whole(start, end, FullHourStart(start), FullHourEnd(start, end), Hour)
<1>1. Hour \in Nat \ {0} BY WindowAssumption
<1>2. PICK a, b : a = Truncate(start, Hour) /\ b = Truncate(end, Hour) OBVIOUS
<1>3. OnGrid(a, Hour) /\ OnGrid(b, Hour) /\ a \in Int /\ b \in Int /\ a <= start /\ start < a + Hour /\ b <= end
  BY <1>1, <1>2, TruncateIs
<1>4. OnGrid(a + Hour, Hour) /\ OnGrid(b + Hour, Hour) BY <1>1, <1>3, GridSteps
<1>5. PICK fs : fs = FullHourStart(start) OBVIOUS
<1>6. OnGrid(fs, Hour) /\ fs \in Int /\ start <= fs
  BY <1>1, <1>2, <1>3, <1>4, <1>5 DEF FullHourStart, CeilHour
<1>7. fs <= b <=> fs <= end BY <1>1, <1>2, <1>6, SameSide
<1>8. FullHourEnd(start, end) = IF b < fs THEN fs ELSE b BY <1>2, <1>5 DEF FullHourEnd, AtLeast
<1> QED BY <1>3, <1>5, <1>6, <1>7, <1>8 DEF Whole

\* The whole health buckets of a window.
LEMMA WholeHealth ==
  ASSUME NEW start \in Int, NEW end \in Int, NEW s \in Nat \ {0}
  PROVE  Whole(start, end, FullHealthStart(start, s), FullHealthEnd(start, end, s), s)
<1>2. PICK a, b : a = Truncate(start, s) /\ b = Truncate(end, s) OBVIOUS
<1>3. OnGrid(a, s) /\ OnGrid(b, s) /\ a \in Int /\ b \in Int /\ a <= start /\ start < a + s /\ b <= end
  BY <1>2, TruncateIs
<1>4. OnGrid(a + s, s) BY <1>3, GridSteps
<1>5. PICK fs : fs = FullHealthStart(start, s) OBVIOUS
<1>6. OnGrid(fs, s) /\ fs \in Int /\ start <= fs
  BY <1>2, <1>3, <1>4, <1>5 DEF FullHealthStart
<1>7. fs <= b <=> fs <= end BY <1>2, <1>6, SameSide
<1>8. FullHealthEnd(start, end, s) = IF b < fs THEN fs ELSE b BY <1>2, <1>5 DEF FullHealthEnd, AtLeast
<1> QED BY <1>3, <1>5, <1>6, <1>7, <1>8 DEF Whole

\* What the answers need of the calendar: midnights at whole hours, and for complete answers
\* days of 24 hours.  MCUsageOverviewHalfHour and MCUsageOverviewLongDay refute them without.
MidnightsAtWholeHours == StdDay % Hour = 0 /\ \A m \in Midnights : m % Hour = 0
DaysOf24Hours ==
  \A m \in Midnights : (\E n \in Midnights : m < n) => m + StdDay \in Midnights

\* A midnight that is at or before a time: the day of the time has a start.
LEMMA LocalMidnightIs ==
  ASSUME NEW t \in Int, NEW m \in Midnights, m <= t
  PROVE  /\ LocalMidnight(t) \in Midnights /\ LocalMidnight(t) \in Int
         /\ LocalMidnight(t) <= t
         /\ \A n \in Midnights : n <= LocalMidnight(t) <=> n <= t
<1>1. Midnights \subseteq Int BY WindowAssumption
<1> DEFINE Ago == {t - n : n \in {n \in Midnights : n <= t}}
<1>2. Ago \subseteq Nat /\ Ago # {} BY <1>1
<1>3. PICK k \in Ago : \A j \in Ago : k <= j
  <2> HIDE DEF Ago
  <2> QED BY <1>2, LeastOf
<1>4. PICK d \in Midnights : d <= t /\ k = t - d OBVIOUS
<1>5. \A n \in Midnights : n <= t => n <= d
  <2> SUFFICES ASSUME NEW n \in Midnights, n <= t PROVE n <= d OBVIOUS
  <2>1. k <= t - n BY <1>3
  <2> QED BY <1>1, <1>4, <2>1
<1>6. /\ LocalMidnight(t) \in Midnights /\ LocalMidnight(t) <= t
      /\ \A n \in Midnights : n <= t => n <= LocalMidnight(t)
  BY <1>4, <1>5 DEF LocalMidnight
<1>7. LocalMidnight(t) \in Int BY <1>1, <1>6
<1>8. ASSUME NEW n \in Midnights PROVE n <= LocalMidnight(t) <=> n <= t BY <1>1, <1>6, <1>7
<1> QED BY <1>6, <1>7, <1>8

\* And one after it: the day has an end.
LEMMA NextMidnightIs ==
  ASSUME NEW t \in Int, NEW m \in Midnights, t < m
  PROVE  NextMidnight(t) \in Int /\ t < NextMidnight(t)
<1>1. Midnights \subseteq Int BY WindowAssumption
<1> DEFINE Ahead == {n - t : n \in {n \in Midnights : t < n}}
<1>2. Ahead \subseteq Nat /\ Ahead # {} BY <1>1
<1>3. PICK k \in Ahead : \A j \in Ahead : k <= j
  <2> HIDE DEF Ahead
  <2> QED BY <1>2, LeastOf
<1>4. PICK d \in Midnights : d > t /\ k = d - t BY <1>1
<1>5. \A n \in Midnights : n > t => d <= n
  <2> SUFFICES ASSUME NEW n \in Midnights, n > t PROVE d <= n OBVIOUS
  <2>1. n - t \in Ahead BY <1>1
  <2>2. k <= n - t BY <1>3, <2>1
  <2> QED BY <1>1, <1>4, <2>2
<1>6. \E d1 \in Midnights : d1 > t /\ \A n \in Midnights : n > t => d1 <= n BY <1>4, <1>5
<1>7. NextMidnight(t) \in Midnights /\ NextMidnight(t) > t BY <1>6 DEF NextMidnight
<1> QED BY <1>1, <1>7

\* Midnights are starts of hours.
LEMMA HoursOnGrid ==
  ASSUME MidnightsAtWholeHours
  PROVE  OnGrid(StdDay, Hour) /\ \A m \in Midnights : OnGrid(m, Hour)
<1>1. Hour \in Nat \ {0} /\ StdDay \in Nat /\ Midnights \subseteq Int BY WindowAssumption
<1>2. ASSUME NEW m \in Int, m % Hour = 0 PROVE OnGrid(m, Hour)
  <2>1. Truncate(m, Hour) = m BY <1>1, <1>2 DEF Truncate
  <2> QED BY <1>1, <2>1, TruncateIs
<1> QED BY <1>1, <1>2 DEF MidnightsAtWholeHours

\* The whole days inside of whole hours: if there is one they end with the last midnight.
LEMMA WholeDays ==
  ASSUME MidnightsAtWholeHours, NEW fs, NEW fe, OnGrid(fs, Hour), OnGrid(fe, Hour), fs <= fe,
         NEW m \in Midnights, m <= fs, NEW ds, NEW de, ds = FullDayStart(fs), de = FullDayEnd(fs, fe)
  PROVE  /\ OnGrid(ds, Hour) /\ OnGrid(de, Hour) /\ ds <= de
         /\ \A n \in Midnights : ds <= n => fs <= n
         /\ ds < de => de <= fe /\ fs <= de /\ de \in Midnights
         /\ ds < de /\ DaysOf24Hours => ds \in Midnights
<1>1. Hour \in Nat \ {0} /\ StdDay \in Nat \ {0} /\ Midnights \subseteq Int /\ fs \in Int /\ fe \in Int
  BY WindowAssumption DEF OnGrid
<1>2. PICK a, b : a = LocalMidnight(fs) /\ b = LocalMidnight(fe) OBVIOUS
<1>3. a \in Midnights /\ a <= fs /\ b \in Midnights /\ b <= fe
  <2>1. m <= fe BY <1>1
  <2> QED BY <1>1, <1>2, <2>1, LocalMidnightIs
<1>4. a \in Int /\ b \in Int /\ OnGrid(a, Hour) /\ OnGrid(b, Hour) /\ OnGrid(a + StdDay, Hour)
  BY <1>1, <1>3, HoursOnGrid, GridSteps
<1>5. ds = (IF fs = a THEN fs ELSE a + StdDay) /\ de = IF b < ds THEN ds ELSE b
  BY <1>2 DEF FullDayStart, FullDayEnd, AtLeast
<1>6. OnGrid(ds, Hour) /\ OnGrid(de, Hour) /\ ds \in Int
  <2>1. OnGrid(ds, Hour) BY <1>4, <1>5
  <2>2. OnGrid(de, Hour) BY <1>4, <1>5, <2>1
  <2> QED BY <2>1, <2>2 DEF OnGrid
<1>7. \A n \in Midnights : ds <= n => fs <= n
  <2> SUFFICES ASSUME NEW n \in Midnights, ds <= n, n < fs PROVE FALSE BY <1>1
  <2>1. n <= a BY <1>1, <1>2, LocalMidnightIs
  <2> QED BY <1>1, <1>4, <1>5, <2>1
<1>8. ASSUME ds < de PROVE de = b /\ a < b
  <2>1. de = b BY <1>4, <1>5, <1>6, <1>8
  <2> QED BY <1>1, <1>4, <1>5, <1>8, <2>1
<1>9. ASSUME ds < de, DaysOf24Hours PROVE ds \in Midnights
  <2>1. a + StdDay \in Midnights BY <1>3, <1>8, <1>9 DEF DaysOf24Hours
  <2> QED BY <1>3, <1>5, <2>1
<1>10. ds <= de BY <1>4, <1>5, <1>6
<1>11. ds < de => de <= fe /\ fs <= de /\ de \in Midnights BY <1>1, <1>3, <1>4, <1>6, <1>7, <1>8
<1> QED BY <1>6, <1>7, <1>9, <1>10, <1>11

\* The time of an event: no later than the clock ever shows.
Times == {t \in EventTimes : t <= MaxTime}

\* The time of an event lies between midnights.
LEMMA TimesHaveDays ==
  ASSUME NEW t \in Times
  PROVE  /\ t \in Int /\ LocalMidnight(t) \in Int /\ LocalMidnight(t) <= t
         /\ \A n \in Midnights : n <= LocalMidnight(t) <=> n <= t
<1>1. t \in Int /\ t \in EventTimes BY CacheAssumption DEF CacheConstants, Times
<1>2. PICK m \in Midnights : m <= t BY <1>1, CalendarAssumption
<1> QED BY <1>1, <1>2, LocalMidnightIs

\* The days before a midnight hold no time outside of them.
LEMMA DaysHold ==
  ASSUME NEW t \in Times, NEW lo \in Int, NEW hi \in Midnights, Inside(DayBucket(t), lo, hi)
  PROVE  Inside(t, lo, hi) /\ \E n \in Midnights : lo <= n /\ n <= t
<1>1. Midnights \subseteq Int BY WindowAssumption
<1>2. PICK m \in Midnights : m <= t BY CalendarAssumption DEF Times
<1>3. LocalMidnight(t) \in Midnights BY <1>2, LocalMidnightIs, TimesHaveDays
<1> QED BY <1>1, <1>3, TimesHaveDays DEF Inside, DayBucket

\* The days between two midnights hold the times between them.
LEMMA DaysHoldAll ==
  ASSUME NEW t \in Times, NEW lo \in Midnights, NEW hi \in Midnights
  PROVE  Inside(DayBucket(t), lo, hi) <=> Inside(t, lo, hi)
<1>1. Midnights \subseteq Int BY WindowAssumption
<1> QED BY <1>1, TimesHaveDays DEF Inside, DayBucket

\* The times of the events a read may find, and with `open` FALSE of those it cannot miss: the
\* cache has no end at the right edge of a range that ends now.
ReadOps == {"raw", "hour", "day", "sum", "grid", "event", "list", "count", "latency", "recent"}
ReadSet == [op : ReadOps, lo : Int, hi : Int, closed : BOOLEAN, right : BOOLEAN,
            skip : Int \X Int, skipGrid : Int \X Int]
RawTime(t, s, open) == InRead(t, s) \/ (open /\ s.right /\ s.lo <= t)
MainTime(t, s, open) ==
  \/ s.op = "raw" /\ RawTime(t, s, open) /\ ~Inside(t, s.skip[1], s.skip[2])
  \/ s.op = "hour" /\ Inside(HourBucket(t), s.lo, s.hi)
  \/ s.op = "day" /\ Inside(DayBucket(t), s.lo, s.hi)
  \/ s.op \in {"recent", "event", "list"} /\ InRead(t, s)
TotalTime(t, s, open) ==
  \/ s.op = "raw" /\ RawTime(t, s, open) /\ ~Inside(t, s.skip[1], s.skip[2])
  \/ s.op = "sum" /\ Inside(HourBucket(t), s.lo, s.hi)
  \/ s.op \in {"count", "latency"} /\ InRead(t, s)
GridTime(t, s, open, shown, span) ==
  \/ /\ s.op = "raw" /\ RawTime(t, s, open)
     /\ Inside(t, shown[1], shown[2]) /\ ~Inside(t, s.skipGrid[1], s.skipGrid[2])
  \/ s.op = "grid" /\ Inside(Truncate(t, span), s.lo, s.hi)
  \/ s.op = "recent" /\ InRead(t, s) /\ BucketIndex(t, s.lo) \in FirstPoint

MainTimes(open) == [s \in ReadSet |-> {t \in Times : MainTime(t, s, open)}]
TotalTimes(open) == [s \in ReadSet |-> {t \in Times : TotalTime(t, s, open)}]
GridTimes(open, shown, span) == [s \in ReadSet |-> {t \in Times : GridTime(t, s, open, shown, span)}]

\* A plan cuts a set of times when each of them is found by one of its reads, and no other is.
TakenBy(T, plan) == UNION {T[plan[k]] : k \in DOMAIN plan}
Apart(T, plan) == \A k, l \in DOMAIN plan : k # l => T[plan[k]] \cap T[plan[l]] = {}
Cut(T, plan, S) == plan \in Seq(ReadSet) /\ Apart(T, plan) /\ TakenBy(T, plan) = S

\* One plan after another.
LEMMA CutTwo ==
  ASSUME NEW T, NEW p, NEW q, NEW A, NEW B, Cut(T, p, A), Cut(T, q, B), A \cap B = {}
  PROVE  Cut(T, p \o q, A \cup B)
<1>1. p \in Seq(ReadSet) /\ q \in Seq(ReadSet) BY DEF Cut
<1>2. PICK m, n, u : m = Len(p) /\ n = Len(q) /\ u = p \o q OBVIOUS
<1>3. m \in Nat /\ n \in Nat /\ DOMAIN p = 1..m /\ DOMAIN q = 1..n BY <1>1, <1>2
<1>4. u \in Seq(ReadSet) /\ DOMAIN u = 1..(m + n)
  <2>1. u \in Seq(ReadSet) /\ Len(u) = m + n BY <1>1, <1>2
  <2> QED BY <2>1
<1>5. \A i \in 1..m : u[i] = p[i] BY <1>1, <1>2, <1>3
<1>6. \A i \in 1..n : m + i \in 1..(m + n) /\ u[m + i] = q[i]
  <2> SUFFICES ASSUME NEW i \in 1..n PROVE m + i \in 1..(m + n) /\ u[m + i] = q[i] OBVIOUS
  <2>1. m + i \in 1..(m + n) /\ m + i > m /\ (m + i) - m = i BY <1>3
  <2>2. u[m + i] = q[(m + i) - m] BY <1>1, <1>2, <1>3, <2>1
  <2> QED BY <2>1, <2>2
<1>7. \A i \in 1..(m + n) : i \in 1..m \/ \E j \in 1..n : i = m + j
  <2> SUFFICES ASSUME NEW i \in 1..(m + n), i \notin 1..m PROVE \E j \in 1..n : i = m + j OBVIOUS
  <2>1. i - m \in 1..n /\ i = m + (i - m) BY <1>3
  <2> QED BY <2>1
<1>8. \A i \in 1..m : i \in 1..(m + n) BY <1>3
<1>9. A = UNION {T[p[k]] : k \in 1..m} /\ B = UNION {T[q[k]] : k \in 1..n} BY <1>3, Zenon DEF Cut, TakenBy
<1>10. TakenBy(T, u) = UNION {T[u[k]] : k \in 1..(m + n)} BY <1>4, Zenon DEF TakenBy
<1>11. TakenBy(T, u) \subseteq A \cup B
  <2> SUFFICES ASSUME NEW k \in 1..(m + n), NEW t \in T[u[k]] PROVE t \in A \cup B BY <1>10
  <2>1. CASE k \in 1..m BY <1>5, <1>9, <2>1
  <2>2. CASE \E j \in 1..n : k = m + j BY <1>6, <1>9, <2>2
  <2> QED BY <1>7, <2>1, <2>2
<1>12. A \subseteq TakenBy(T, u)
  <2> SUFFICES ASSUME NEW k \in 1..m, NEW t \in T[p[k]] PROVE t \in TakenBy(T, u) BY <1>9
  <2> QED BY <1>5, <1>8, <1>10
<1>13. B \subseteq TakenBy(T, u)
  <2> SUFFICES ASSUME NEW k \in 1..n, NEW t \in T[q[k]] PROVE t \in TakenBy(T, u) BY <1>9
  <2>1. m + k \in 1..(m + n) /\ t \in T[u[m + k]] BY <1>6
  <2> QED BY <1>10, <2>1
<1>14. \A k \in 1..m : T[u[k]] \subseteq A BY <1>5, <1>9
<1>15. \A k \in 1..n : T[u[m + k]] \subseteq B BY <1>6, <1>9
<1>16. \A k, l \in 1..m : k # l => T[u[k]] \cap T[u[l]] = {} BY <1>3, <1>5 DEF Cut, Apart
<1>17. ASSUME NEW k \in 1..n, NEW l \in 1..n, k # l PROVE T[u[m + k]] \cap T[u[m + l]] = {}
  <2>1. u[m + k] = q[k] /\ u[m + l] = q[l] BY <1>6
  <2>2. T[q[k]] \cap T[q[l]] = {} BY <1>3, <1>17 DEF Cut, Apart
  <2> QED BY <2>1, <2>2, Zenon
<1>18. Apart(T, u)
  <2> SUFFICES ASSUME NEW k \in 1..(m + n), NEW l \in 1..(m + n), k # l PROVE T[u[k]] \cap T[u[l]] = {}
    BY <1>4 DEF Apart
  <2>1. CASE k \in 1..m /\ l \in 1..m BY <1>16, <2>1
  <2>2. CASE k \in 1..m /\ \E j \in 1..n : l = m + j BY <1>14, <1>15, <2>2
  <2>3. CASE (\E i \in 1..n : k = m + i) /\ l \in 1..m BY <1>14, <1>15, <2>3
  <2>4. CASE (\E i \in 1..n : k = m + i) /\ \E j \in 1..n : l = m + j
    <3>1. PICK i \in 1..n, j \in 1..n : k = m + i /\ l = m + j BY <2>4
    <3>2. i # j BY <3>1
    <3> QED BY <1>17, <3>1, <3>2
  <2> QED BY <1>7, <2>1, <2>2, <2>3, <2>4
<1> QED BY <1>2, <1>4, <1>11, <1>12, <1>13, <1>18 DEF Cut

\* One read, and none for a window that is empty.
LEMMA CutOne ==
  ASSUME NEW T, NEW s \in ReadSet
  PROVE  Cut(T, <<s>>, T[s])
<1>1. <<s>> \in Seq(ReadSet) /\ DOMAIN <<s>> = 1..1 /\ <<s>>[1] = s OBVIOUS
<1>2. 1..1 = {1} OBVIOUS
<1> QED BY <1>1, <1>2 DEF Cut, Apart, TakenBy

\* No read finds no time.
LEMMA CutNone == ASSUME NEW T PROVE Cut(T, <<>>, {})
<1>1. <<>> \in Seq(ReadSet) /\ DOMAIN <<>> = {} OBVIOUS
<1> QED BY <1>1 DEF Cut, Apart, TakenBy

\* A read is one.
LEMMA ReadIs ==
  ASSUME NEW op \in ReadOps, NEW lo \in Int, NEW hi \in Int
  PROVE  /\ Read(op, lo, hi) \in ReadSet
         /\ Read(op, lo, hi).op = op /\ Read(op, lo, hi).lo = lo /\ Read(op, lo, hi).hi = hi
         /\ Read(op, lo, hi).closed = FALSE /\ Read(op, lo, hi).right = FALSE
BY DEF Read, ReadSet

\* A part of a plan cuts its window, also when that is empty.
LEMMA CutPart ==
  ASSUME NEW T, NEW op \in ReadOps, NEW lo \in Int, NEW hi \in Int
  PROVE  Cut(T, Part(op, lo, hi), IF lo < hi THEN T[Read(op, lo, hi)] ELSE {})
<1>1. CASE lo < hi
  <2>1. Part(op, lo, hi) = <<Read(op, lo, hi)>> BY <1>1 DEF Part
  <2>2. Cut(T, <<Read(op, lo, hi)>>, T[Read(op, lo, hi)]) BY ReadIs, CutOne
  <2>3. (IF lo < hi THEN T[Read(op, lo, hi)] ELSE {}) = T[Read(op, lo, hi)] BY <1>1
  <2> QED BY <2>1, <2>2, <2>3, Zenon
<1>2. CASE ~(lo < hi)
  <2>1. Part(op, lo, hi) = <<>> BY <1>2 DEF Part
  <2> QED BY <1>2, <2>1, CutNone
<1> QED BY <1>1, <1>2

\* The windows of single events.
WindowSet == [lo : Int, hi : Int, closed : BOOLEAN, right : BOOLEAN]

\* Sorted windows are the same windows, by their starts.
LEMMA SortedWindowsAre ==
  ASSUME NEW W \in Seq(WindowSet)
  PROVE  LET S == SortedWindows(W)
         IN  /\ S \in Seq(WindowSet) /\ Len(S) = Len(W)
             /\ \A k \in 1..Len(S) : \E i \in 1..Len(W) : S[k] = W[i]
             /\ \A i \in 1..Len(W) : \E k \in 1..Len(S) : S[k] = W[i]
             /\ \A j, k \in 1..Len(S) : j < k => S[j].lo <= S[k].lo
<1>1. PICK N : N = Len(W) OBVIOUS
<1>2. N \in Nat /\ DOMAIN W = 1..N /\ \A i \in 1..N : W[i] \in WindowSet BY <1>1
<1>3. PICK D : D = 1..N OBVIOUS
<1>4. IsFiniteSet(D) /\ Cardinality(D) = N
  <2>1. N \in Int /\ 1 \in Int BY <1>2
  <2>2. IsFiniteSet(1..N) /\ Cardinality(1..N) = IF 1 > N THEN 0 ELSE N - 1 + 1 BY <2>1, FS_Interval
  <2> QED BY <1>2, <1>3, <2>2
<1> DEFINE Prior(i, j) == \/ W[i].lo < W[j].lo
                          \/ /\ W[i].lo = W[j].lo
                             /\ \/ W[i].hi < W[j].hi
                                \/ W[i].hi = W[j].hi /\ i < j
<1>5. PICK R : R = {p \in D \X D : Prior(p[1], p[2])} OBVIOUS
<1>6. \A i, j \in D : <<i, j>> \in R <=> Prior(i, j) BY <1>5
<1>7. \A i \in D : i \in Int /\ W[i].lo \in Int /\ W[i].hi \in Int BY <1>2, <1>3 DEF WindowSet
<1>8. /\ \A i \in D : ~Prior(i, i)
      /\ \A i, j, k \in D : Prior(i, j) /\ Prior(j, k) => Prior(i, k)
      /\ \A i, j \in D : i # j => Prior(i, j) \/ Prior(j, i)
      /\ \A i, j \in D : Prior(i, j) => W[i].lo <= W[j].lo
  <2>1. \A i \in D : ~Prior(i, i) BY <1>7
  <2>2. \A i, j, k \in D : Prior(i, j) /\ Prior(j, k) => Prior(i, k) BY <1>7
  <2>3. \A i, j \in D : i # j => Prior(i, j) \/ Prior(j, i) BY <1>7
  <2>4. \A i, j \in D : Prior(i, j) => W[i].lo <= W[j].lo BY <1>7
  <2> QED BY <2>1, <2>2, <2>3, <2>4
<1> DEFINE place == [i \in D |-> Cardinality(Before(D, R, i)) + 1]
<1> HIDE DEF Prior
<1>9. /\ \A i \in D : Cardinality(Before(D, R, i)) \in 0 .. N - 1
      /\ \A i, j \in D : <<j, i>> \in R => Cardinality(Before(D, R, j)) < Cardinality(Before(D, R, i))
  <2>1. Ordered(D, R) BY <1>6, <1>8 DEF Ordered
  <2> QED BY <1>4, <2>1, FewerBefore
<1>10. /\ place \in [D -> 1..N]
       /\ \A i, j \in D : Prior(j, i) => place[j] < place[i]
  <2>1. place \in [D -> 1..N] BY <1>2, <1>9
  <2>2. \A i \in D : Cardinality(Before(D, R, i)) \in Int BY <1>9
  <2>3. \A i, j \in D : Prior(j, i) => Cardinality(Before(D, R, j)) < Cardinality(Before(D, R, i)) BY <1>6, <1>9
  <2> QED BY <2>1, <2>2, <2>3
<1>11. \A i \in D : place[i] = Cardinality({j \in D : Prior(j, i)}) + 1
  <2> SUFFICES ASSUME NEW i \in D PROVE place[i] = Cardinality({j \in D : Prior(j, i)}) + 1 OBVIOUS
  <2>1. Before(D, R, i) = {j \in D : Prior(j, i)} BY <1>6 DEF Before
  <2> QED BY <2>1
<1> HIDE DEF place
<1>12. \A i, j \in D : place[i] = place[j] => i = j
  <2> SUFFICES ASSUME NEW i \in D, NEW j \in D, place[i] = place[j], i # j PROVE FALSE OBVIOUS
  <2>1. Prior(i, j) \/ Prior(j, i) BY <1>8
  <2>2. place[i] < place[j] \/ place[j] < place[i] BY <1>10, <2>1
  <2>3. place[i] \in Int BY <1>10
  <2> QED BY <2>2, <2>3
<1>13. place \in Surjection(D, 1..N)
  <2>1. place \in Injection(D, 1..N) BY <1>10, <1>12 DEF Injection, IsInjective
  <2> QED BY <1>3, <1>4, <2>1, FS_Injection
<1>14. PICK S : S = SortedWindows(W) OBVIOUS
<1>15. S = [n \in D |-> W[CHOOSE i \in D : place[i] = n]]
  <2> DEFINE Chosen(n) == CHOOSE i \in D : Cardinality({j \in D : Prior(j, i)}) + 1 = n
             Placed(n) == CHOOSE i \in D : place[i] = n
             Ordering(X) == [n \in X |-> W[CHOOSE i \in X : Cardinality({j \in X : Prior(j, i)}) + 1 = n]]
  <2>1. S = [n \in D |-> W[Chosen(n)]]
    <3>1. S = Ordering(DOMAIN W) BY <1>14, Zenon DEF SortedWindows, Prior
    <3> HIDE DEF Ordering
    <3>2. S = Ordering(D) BY <1>2, <1>3, <3>1
    <3> QED BY <3>2, Zenon DEF Ordering
  <2>2. \A n \in D : Chosen(n) = Placed(n) BY <1>11
  <2> HIDE DEF Chosen, Placed
  <2>3. \A n \in D : W[Chosen(n)] = W[Placed(n)] BY <2>2
  <2>4. S = [n \in D |-> W[Placed(n)]] BY <2>1, <2>3
  <2> QED BY <2>4 DEF Placed
<1>16. PICK at : at = [n \in D |-> CHOOSE i \in D : place[i] = n] OBVIOUS
<1>17. \A n \in D : at[n] \in D /\ place[at[n]] = n
  <2> SUFFICES ASSUME NEW n \in D PROVE at[n] \in D /\ place[at[n]] = n OBVIOUS
  <2>1. \E i \in D : place[i] = n BY <1>3, <1>13 DEF Surjection
  <2> QED BY <1>16, <2>1
<1>18. S = [n \in D |-> W[at[n]]] BY <1>15, <1>16
<1>19. S \in [1..N -> WindowSet] BY <1>2, <1>3, <1>17, <1>18
<1>20. S \in Seq(WindowSet) /\ Len(S) = N BY <1>2, <1>19
<1>21. \A k \in D : \E i \in D : S[k] = W[i] BY <1>17, <1>18
<1>22. \A i \in D : \E k \in D : S[k] = W[i]
  <2> SUFFICES ASSUME NEW i \in D PROVE \E k \in D : S[k] = W[i] OBVIOUS
  <2>1. place[i] \in D BY <1>3, <1>10
  <2>2. at[place[i]] = i BY <1>12, <1>17, <2>1
  <2> QED BY <1>18, <2>1, <2>2
<1>23. ASSUME NEW j \in D, NEW k \in D, j < k PROVE S[j].lo <= S[k].lo
  <2>1. at[j] \in D /\ at[k] \in D /\ place[at[j]] = j /\ place[at[k]] = k BY <1>17
  <2>2. ~Prior(at[k], at[j]) BY <1>3, <1>10, <1>23, <2>1
  <2>3. at[j] # at[k] BY <1>3, <1>23, <2>1
  <2>5. Prior(at[j], at[k]) BY <1>8, <2>1, <2>2, <2>3
  <2>6. W[at[j]].lo <= W[at[k]].lo BY <1>8, <2>1, <2>5
  <2> QED BY <1>18, <2>6
<1> QED BY <1>1, <1>3, <1>14, <1>20, <1>21, <1>22, <1>23

\* A window inside of a range; only at the range's end it may be open.
Fits(w, a, b) == a <= w.lo /\ w.lo <= w.hi /\ w.hi <= b /\ (w.right => w.hi = b)
Holds(w, v) == w.lo <= v.lo /\ v.hi <= w.hi /\ (v.closed /\ v.hi = w.hi => w.closed)

\* What the first n sorted windows are merged to.
MergedTo(S, n, M, a, b) ==
  /\ M \in Seq(WindowSet)
  /\ n # 0 => Len(M) # 0
  /\ \A k \in 1..Len(M) : Fits(M[k], a, b)
  /\ \A j, k \in 1..Len(M) : j < k => M[j].hi < M[k].lo
  /\ \A i \in 1..n : \E k \in 1..Len(M) : Holds(M[k], S[i])
  /\ \A k \in 1..Len(M) : \E i \in 1..n : M[k].lo = S[i].lo
  /\ \A k \in 1..Len(M) : M[k].right => \E i \in 1..n : S[i].right

\* Two windows that meet, joined, hold both in the same range.
LEMMA JoinIs ==
  ASSUME NEW w \in WindowSet, NEW v \in WindowSet, NEW a \in Int, NEW b \in Int,
         Fits(w, a, b), Fits(v, a, b), w.lo <= v.lo, v.lo <= w.hi
  PROVE  /\ Join(w, v) \in WindowSet /\ Fits(Join(w, v), a, b)
         /\ Join(w, v).lo = w.lo /\ w.hi <= Join(w, v).hi
         /\ Holds(Join(w, v), w) /\ Holds(Join(w, v), v)
         /\ Join(w, v).right => w.right \/ v.right
<1>1. /\ w.lo \in Int /\ w.hi \in Int /\ v.lo \in Int /\ v.hi \in Int
      /\ w.closed \in BOOLEAN /\ w.right \in BOOLEAN /\ v.closed \in BOOLEAN /\ v.right \in BOOLEAN
  BY DEF WindowSet
<1>2. CASE v.hi > w.hi
  <2>1. PICK x : x = [v EXCEPT !.lo = w.lo] OBVIOUS
  <2>2. Join(w, v) = x BY <1>2, <2>1 DEF Join
  <2>3. x \in WindowSet /\ x.lo = w.lo /\ x.hi = v.hi /\ x.closed = v.closed /\ x.right = v.right
    BY <2>1 DEF WindowSet
  <2> QED BY <1>1, <1>2, <2>2, <2>3 DEF Fits, Holds
<1>3. CASE v.hi = w.hi
  <2>1. PICK x : x = [w EXCEPT !.closed = @ \/ v.closed, !.right = @ \/ v.right] OBVIOUS
  <2>2. Join(w, v) = x BY <1>1, <1>3, <2>1 DEF Join
  <2>3. x \in WindowSet /\ x.lo = w.lo /\ x.hi = w.hi
        /\ x.closed = (w.closed \/ v.closed) /\ x.right = (w.right \/ v.right)
    BY <2>1 DEF WindowSet
  <2> QED BY <1>1, <1>3, <2>2, <2>3 DEF Fits, Holds
<1>4. CASE v.hi < w.hi
  <2>1. PICK x : x = [w EXCEPT !.right = @ \/ v.right] OBVIOUS
  <2>2. Join(w, v) = x BY <1>1, <1>4, <2>1 DEF Join
  <2>3. x \in WindowSet /\ x.lo = w.lo /\ x.hi = w.hi
        /\ x.closed = w.closed /\ x.right = (w.right \/ v.right)
    BY <2>1 DEF WindowSet
  <2>4. ~v.right BY <1>1, <1>4 DEF Fits
  <2> QED BY <1>1, <1>4, <2>2, <2>3, <2>4 DEF Fits, Holds
<1> QED BY <1>1, <1>2, <1>3, <1>4

\* A window in a window in a window.
LEMMA HoldsMore ==
  ASSUME NEW w \in WindowSet, NEW v \in WindowSet, NEW x \in WindowSet, Holds(w, v), Holds(x, w)
  PROVE  Holds(x, v)
<1>1. /\ w.lo \in Int /\ w.hi \in Int /\ v.lo \in Int /\ v.hi \in Int /\ x.lo \in Int /\ x.hi \in Int
  BY DEF WindowSet
<1> QED BY <1>1 DEF Holds

\* One more sorted window is joined to the last or comes after it.
LEMMA AddKeeps ==
  ASSUME NEW S \in Seq(WindowSet), NEW a \in Int, NEW b \in Int, NEW n \in Nat, n + 1 <= Len(S),
         \A i \in 1..Len(S) : Fits(S[i], a, b),
         \A i, j \in 1..Len(S) : i < j => S[i].lo <= S[j].lo,
         NEW M, MergedTo(S, n, M, a, b)
  PROVE  MergedTo(S, n + 1, AddWindow(M, S[n + 1]), a, b)
<1>1. PICK v, L, N, m : v = S[n + 1] /\ L = Len(M) /\ N = Len(S) /\ m = n + 1 OBVIOUS
<1>2. /\ N \in Nat /\ DOMAIN S = 1..N /\ \A i \in 1..N : S[i] \in WindowSet
      /\ m \in 1..N /\ \A i \in 1..n : i \in 1..N /\ i < m
      /\ v \in WindowSet /\ Fits(v, a, b)
  BY <1>1
<1>3. M \in Seq(WindowSet) /\ L \in Nat /\ DOMAIN M = 1..L /\ \A k \in 1..L : M[k] \in WindowSet
  BY <1>1 DEF MergedTo
<1>4. \A i \in 1..m : i = m \/ i \in 1..n BY <1>1
<1>5. m \in 1..m /\ \A i \in 1..n : i \in 1..m BY <1>1
<1>6. /\ n # 0 => L # 0
      /\ \A k \in 1..L : Fits(M[k], a, b)
      /\ \A j, k \in 1..L : j < k => M[j].hi < M[k].lo
      /\ \A i \in 1..n : \E k \in 1..L : Holds(M[k], S[i])
      /\ \A k \in 1..L : \E i \in 1..n : M[k].lo = S[i].lo
      /\ \A k \in 1..L : M[k].right => \E i \in 1..n : S[i].right
  BY <1>1 DEF MergedTo
<1>7. Holds(v, v) BY <1>2 DEF Holds, WindowSet
<1>8. PICK R : R = AddWindow(M, v) OBVIOUS
<1>9. CASE L = 0
  <2>1. M = <<>> BY <1>3, <1>9
  <2>2. R = <<v>> BY <1>8, <2>1 DEF AddWindow
  <2>3. n = 0 /\ m = 1 BY <1>1, <1>6, <1>9
  <2>4. R \in Seq(WindowSet) /\ Len(R) = 1 /\ R[1] = v BY <1>2, <2>2
  <2>5. 1..1 = {1} OBVIOUS
  <2>6. S[1] = v BY <1>1, <2>3
  <2>7. \A j, k \in 1..1 : j < k => R[j].hi < R[k].lo BY <2>5
  <2> QED BY <1>1, <1>2, <1>7, <1>8, <2>3, <2>4, <2>5, <2>6, <2>7 DEF MergedTo
<1>10. CASE L # 0
  <2>1. PICK w : w = M[L] OBVIOUS
  <2>2. L \in 1..L /\ w \in WindowSet /\ M # <<>> BY <1>3, <1>10, <2>1
  <2>3. w.lo \in Int /\ w.hi \in Int /\ v.lo \in Int /\ v.hi \in Int BY <1>2, <2>2 DEF WindowSet
  <2>4. \A k \in 1..L : M[k].lo \in Int /\ M[k].hi \in Int /\ M[k].lo <= M[k].hi
    BY <1>3, <1>6 DEF WindowSet, Fits
  <2>5. CASE v.lo > w.hi
    <3>1. R = Append(M, v) BY <1>1, <1>8, <2>1, <2>2, <2>5 DEF AddWindow
    <3>2. R \in Seq(WindowSet) /\ Len(R) = L + 1 /\ R[L + 1] = v /\ \A k \in 1..L : R[k] = M[k]
      BY <1>1, <1>2, <1>3, <3>1
    <3>3. PICK K : K = L + 1 OBVIOUS
    <3>4. K \in 1..K /\ (\A k \in 1..L : k \in 1..K /\ k < K) /\ \A k \in 1..K : k = K \/ k \in 1..L
      BY <1>3, <3>3
    <3>5. \A k \in 1..K : Fits(R[k], a, b) BY <1>2, <1>6, <3>2, <3>3, <3>4
    <3>6. \A j, k \in 1..K : j < k => R[j].hi < R[k].lo
      <4> SUFFICES ASSUME NEW j \in 1..K, NEW k \in 1..K, j < k PROVE R[j].hi < R[k].lo OBVIOUS
      <4>1. j \in 1..L BY <1>3, <3>3
      <4>2. CASE k \in 1..L BY <1>6, <3>2, <4>1, <4>2
      <4>3. CASE k = K
        <5>1. M[j].hi <= w.hi
          <6>1. CASE j = L BY <2>1, <2>3, <6>1
          <6>2. CASE j < L
            <7>1. M[j].hi < w.lo BY <1>6, <2>1, <2>2, <4>1, <6>2
            <7>2. w.lo <= w.hi BY <2>1, <2>2, <2>4
            <7> QED BY <2>3, <2>4, <4>1, <7>1, <7>2
          <6> QED BY <1>3, <4>1, <6>1, <6>2
        <5>2. R[j].hi = M[j].hi /\ R[k].lo = v.lo BY <3>2, <3>3, <4>1, <4>3
        <5> QED BY <2>3, <2>4, <2>5, <4>1, <5>1, <5>2
      <4> QED BY <3>4, <4>2, <4>3
    <3>7. \A i \in 1..m : \E k \in 1..K : Holds(R[k], S[i])
      <4>1. Holds(R[K], S[m]) BY <1>1, <1>7, <3>2, <3>3
      <4>2. \A i \in 1..n : \E k \in 1..K : Holds(R[k], S[i]) BY <1>6, <3>2, <3>4
      <4> QED BY <1>4, <3>4, <4>1, <4>2
    <3>8. \A k \in 1..K : \E i \in 1..m : R[k].lo = S[i].lo
      <4>1. R[K].lo = S[m].lo BY <1>1, <3>2, <3>3
      <4>2. \A k \in 1..L : \E i \in 1..m : R[k].lo = S[i].lo
        <5>1. \A k \in 1..L : R[k].lo = M[k].lo BY <3>2
        <5> QED BY <1>5, <1>6, <5>1
      <4> QED BY <1>5, <3>4, <4>1, <4>2
    <3>9. \A k \in 1..K : R[k].right => \E i \in 1..m : S[i].right BY <1>1, <1>5, <1>6, <3>2, <3>3, <3>4
    <3>10. Len(R) = K /\ K # 0 BY <1>3, <3>2, <3>3
    <3> QED BY <1>1, <1>8, <3>2, <3>5, <3>6, <3>7, <3>8, <3>9, <3>10 DEF MergedTo
  <2>6. CASE ~(v.lo > w.hi)
    <3>1. PICK x : x = Join(w, v) OBVIOUS
    <3>2. w.lo <= v.lo
      <4>1. PICK i \in 1..n : w.lo = S[i].lo BY <1>6, <2>1, <2>2
      <4>2. S[i].lo <= S[m].lo BY <1>1, <1>2
      <4> QED BY <1>1, <4>1, <4>2
    <3>3. /\ x \in WindowSet /\ Fits(x, a, b) /\ x.lo = w.lo /\ w.hi <= x.hi
          /\ Holds(x, w) /\ Holds(x, v) /\ (x.right => w.right \/ v.right)
      <4>1. v.lo <= w.hi BY <2>3, <2>6
      <4>2. Fits(w, a, b) BY <1>6, <2>1, <2>2
      <4> QED BY <1>2, <2>2, <3>1, <3>2, <4>1, <4>2, JoinIs
    <3>4. R = [M EXCEPT ![L] = x]
      <4>1. ~(v.lo > M[L].hi) BY <2>1, <2>6
      <4>2. R = [M EXCEPT ![Len(M)] = Join(@, v)] BY <1>1, <1>8, <2>2, <4>1 DEF AddWindow
      <4> QED BY <1>1, <2>1, <3>1, <4>2
    <3>5. R \in Seq(WindowSet) /\ Len(R) = L /\ R[L] = x /\ \A k \in 1..L : k # L => R[k] = M[k]
      <4>1. R \in [1..L -> WindowSet] BY <1>3, <3>3, <3>4
      <4> QED BY <1>3, <2>2, <3>4, <4>1
    <3>6. \A k \in 1..L : Fits(R[k], a, b) /\ R[k].lo = M[k].lo BY <1>6, <2>1, <3>3, <3>5
    <3>7. \A j, k \in 1..L : j < k => R[j].hi < R[k].lo
      <4> SUFFICES ASSUME NEW j \in 1..L, NEW k \in 1..L, j < k PROVE R[j].hi < R[k].lo OBVIOUS
      <4>1. j # L BY <1>3
      <4> QED BY <1>6, <3>5, <3>6, <4>1
    <3>8. \A i \in 1..m : \E k \in 1..L : Holds(R[k], S[i])
      <4>1. Holds(R[L], S[m]) BY <1>1, <3>3, <3>5
      <4>2. ASSUME NEW i \in 1..n PROVE \E k \in 1..L : Holds(R[k], S[i])
        <5>1. PICK k \in 1..L : Holds(M[k], S[i]) BY <1>6
        <5>2. CASE k = L
          <6>1. Holds(w, S[i]) /\ S[i] \in WindowSet BY <1>2, <2>1, <5>1, <5>2
          <6>2. Holds(x, S[i]) BY <2>2, <3>3, <6>1, HoldsMore
          <6> QED BY <2>2, <3>5, <6>2
        <5>3. CASE k # L BY <3>5, <5>1, <5>3
        <5> QED BY <5>2, <5>3
      <4> QED BY <1>4, <2>2, <4>1, <4>2
    <3>9. \A k \in 1..L : \E i \in 1..m : R[k].lo = S[i].lo BY <1>5, <1>6, <3>6
    <3>10. \A k \in 1..L : R[k].right => \E i \in 1..m : S[i].right
      <4> SUFFICES ASSUME NEW k \in 1..L, R[k].right PROVE \E i \in 1..m : S[i].right OBVIOUS
      <4>1. CASE k # L BY <1>5, <1>6, <3>5, <4>1
      <4>2. CASE k = L /\ w.right BY <1>5, <1>6, <2>1, <2>2, <4>2
      <4>3. CASE k = L /\ v.right BY <1>1, <1>5, <4>3
      <4> QED BY <3>3, <3>5, <4>1, <4>2, <4>3
    <3> QED BY <1>1, <1>8, <1>10, <3>5, <3>6, <3>7, <3>8, <3>9, <3>10 DEF MergedTo
  <2> QED BY <2>5, <2>6
<1> QED BY <1>9, <1>10

\* Merged windows hold the windows they come from, lie in the same range, and do not meet.
MergedFrom(M, W, a, b) ==
  /\ M \in Seq(WindowSet)
  /\ \A k \in 1..Len(M) : Fits(M[k], a, b)
  /\ \A j, k \in 1..Len(M) : j < k => M[j].hi < M[k].lo
  /\ \A i \in 1..Len(W) : \E k \in 1..Len(M) : Holds(M[k], W[i])
  /\ \A k \in 1..Len(M) : M[k].right => \E i \in 1..Len(W) : W[i].right

\* The merged windows, as the code lists them.
LEMMA MergedAre ==
  ASSUME NEW W \in Seq(WindowSet), NEW a \in Int, NEW b \in Int, \A i \in 1..Len(W) : Fits(W[i], a, b)
  PROVE  MergedFrom(MergeWindows(W), W, a, b)
<1>1. PICK S : S = SortedWindows(W) OBVIOUS
<1>2. /\ S \in Seq(WindowSet) /\ Len(S) = Len(W)
      /\ \A k \in 1..Len(S) : \E i \in 1..Len(W) : S[k] = W[i]
      /\ \A i \in 1..Len(W) : \E k \in 1..Len(S) : S[k] = W[i]
      /\ \A j, k \in 1..Len(S) : j < k => S[j].lo <= S[k].lo
  BY <1>1, SortedWindowsAre
<1>3. PICK N : N = Len(S) OBVIOUS
<1>4. N \in Nat BY <1>2, <1>3
<1>5. \A i \in 1..N : Fits(S[i], a, b) BY <1>2, <1>3
<1> DEFINE Rec(g) == [n \in 0..N |-> IF n = 0 THEN <<>> ELSE AddWindow(g[n - 1], S[n])]
           Solves(g, n) == /\ DOMAIN g = 0..n
                           /\ g[0] = <<>> /\ \A k \in 1..n : g[k] = AddWindow(g[k - 1], S[k])
           Good(n) == \E g : Solves(g, n)
           Bad == {n \in 0..N : ~Good(n)}
<1>6. Bad = {}
  <2> SUFFICES ASSUME Bad # {} PROVE FALSE OBVIOUS
  <2>1. PICK n \in Bad : \A k \in Bad : n <= k
    <3>1. Bad \subseteq Nat BY <1>4
    <3> HIDE DEF Bad
    <3> QED BY <3>1, LeastOf
  <2>2. n \in 0..N /\ ~Good(n) OBVIOUS
  <2>3. CASE n = 0
    <3>1. PICK g : g = [k \in 0..0 |-> <<>>] OBVIOUS
    <3>2. Solves(g, 0) BY <3>1
    <3> QED BY <2>2, <2>3, <3>2
  <2>4. CASE n # 0
    <3>1. PICK m : m = n - 1 OBVIOUS
    <3>2. m \in 0..N /\ ~(n <= m) /\ n = m + 1 /\ m \in Nat BY <1>4, <2>2, <2>4, <3>1
    <3>3. PICK g : Solves(g, m) BY <2>1, <3>2
    <3>4. PICK h : h = [k \in 0..n |-> IF k = n THEN AddWindow(g[m], S[n]) ELSE g[k]] OBVIOUS
    <3>5. \A k \in 0..m : k \in 0..n /\ k # n /\ h[k] = g[k] BY <3>2, <3>4
    <3>6. h[n] = AddWindow(h[n - 1], S[n])
      <4>1. n \in 0..n /\ m \in 0..m BY <3>2
      <4>2. h[n] = AddWindow(g[m], S[n]) BY <3>4, <4>1
      <4> QED BY <3>1, <3>5, <4>1, <4>2
    <3>7. ASSUME NEW k \in 1..m PROVE h[k] = AddWindow(h[k - 1], S[k])
      <4>1. k \in 0..m /\ k - 1 \in 0..m BY <3>2
      <4>2. h[k] = g[k] /\ h[k - 1] = g[k - 1] BY <3>5, <4>1
      <4>3. g[k] = AddWindow(g[k - 1], S[k]) BY <3>3
      <4> QED BY <4>2, <4>3
    <3>8. \A k \in 1..n : k = n \/ k \in 1..m BY <3>2
    <3>9. h[0] = <<>>
      <4>1. 0 \in 0..m BY <3>2
      <4> QED BY <3>3, <3>5, <4>1
    <3>10. Solves(h, n) BY <3>4, <3>6, <3>7, <3>8, <3>9
    <3> QED BY <2>2, <3>10
  <2> QED BY <2>3, <2>4
<1>7. PICK f : Solves(f, N)
  <2>1. N \in 0..N BY <1>4
  <2> QED BY <1>6, <2>1
<1>8. PICK g : g = CHOOSE h : h = Rec(h) OBVIOUS
<1>9. g = Rec(g)
  <2>1. PICK d : d = [n \in 0..N |-> f[n]] OBVIOUS
  <2>2. \A n \in 0..N : d[n] = IF n = 0 THEN <<>> ELSE AddWindow(d[n - 1], S[n])
    <3> SUFFICES ASSUME NEW n \in 0..N PROVE d[n] = IF n = 0 THEN <<>> ELSE AddWindow(d[n - 1], S[n]) OBVIOUS
    <3>1. CASE n = 0 BY <1>7, <2>1, <3>1
    <3>2. CASE n # 0
      <4>1. n \in 1..N /\ n - 1 \in 0..N BY <1>4, <3>2
      <4>2. f[n] = AddWindow(f[n - 1], S[n]) BY <1>7, <4>1
      <4>3. d[n] = f[n] /\ d[n - 1] = f[n - 1] BY <2>1, <4>1
      <4> QED BY <3>2, <4>2, <4>3
    <3> QED BY <3>1, <3>2
  <2>3. d = Rec(d) BY <2>1, <2>2
  <2> HIDE DEF Rec
  <2> QED BY <1>8, <2>3
<1>10. PICK M : M = MergeWindows(W) OBVIOUS
<1>11. M = g[N]
  <2>1. SortedWindows(W) = S /\ Len(S) = N BY <1>1, <1>3
  <2>2. M = (CHOOSE h : h = Rec(h))[N]
    <3> DEFINE RecOf(X, n0, h) == [n \in 0..n0 |-> IF n = 0 THEN <<>> ELSE AddWindow(h[n - 1], X[n])]
               Merged(X) == (CHOOSE h : h = RecOf(X, Len(X), h))[Len(X)]
    <3>1. M = Merged(SortedWindows(W)) BY <1>10, Zenon DEF MergeWindows
    <3> HIDE DEF Merged
    <3>2. M = Merged(S) BY <2>1, <3>1
    <3> USE DEF Merged
    <3>3. M = (CHOOSE h : h = RecOf(S, Len(S), h))[Len(S)] BY <3>2, Zenon
    <3> QED BY <2>1, <3>3, Zenon
  <2> HIDE DEF Rec
  <2> QED BY <1>8, <2>2
<1> DEFINE Unmerged == {n \in 0..N : ~MergedTo(S, n, g[n], a, b)}
<1>12. Unmerged = {}
  <2> SUFFICES ASSUME Unmerged # {} PROVE FALSE OBVIOUS
  <2>1. PICK n \in Unmerged : \A k \in Unmerged : n <= k
    <3>1. Unmerged \subseteq Nat BY <1>4
    <3> HIDE DEF Unmerged
    <3> QED BY <3>1, LeastOf
  <2>2. n \in 0..N /\ ~MergedTo(S, n, g[n], a, b) OBVIOUS
  <2>3. g[n] = IF n = 0 THEN <<>> ELSE AddWindow(g[n - 1], S[n])
    <3>1. PICK e : e = g OBVIOUS
    <3>2. e = [k \in 0..N |-> IF k = 0 THEN <<>> ELSE AddWindow(e[k - 1], S[k])] BY <1>9, <3>1
    <3>3. e[n] = IF n = 0 THEN <<>> ELSE AddWindow(e[n - 1], S[n]) BY <2>2, <3>2
    <3> QED BY <3>1, <3>3
  <2>4. CASE n = 0
    <3>1. g[n] = <<>> BY <2>3, <2>4
    <3>2. MergedTo(S, 0, <<>>, a, b) BY DEF MergedTo
    <3> QED BY <2>2, <2>4, <3>1, <3>2
  <2>5. CASE n # 0
    <3>1. PICK m : m = n - 1 OBVIOUS
    <3>2. m \in 0..N /\ ~(n <= m) /\ n = m + 1 /\ m \in Nat /\ m + 1 <= N BY <1>4, <2>2, <2>5, <3>1
    <3>3. MergedTo(S, m, g[m], a, b) BY <2>1, <3>2
    <3>4. MergedTo(S, m + 1, AddWindow(g[m], S[m + 1]), a, b)
      <4>1. \A i, j \in 1..N : i < j => S[i].lo <= S[j].lo BY <1>2, <1>3
      <4> QED BY <1>2, <1>3, <1>5, <3>2, <3>3, <4>1, AddKeeps
    <3>5. g[n] = AddWindow(g[m], S[m + 1]) BY <2>3, <2>5, <3>1, <3>2
    <3> QED BY <2>2, <3>2, <3>4, <3>5
  <2> QED BY <2>4, <2>5
<1>13. MergedTo(S, N, M, a, b)
  <2>1. N \in 0..N BY <1>4
  <2> QED BY <1>11, <1>12, <2>1
<1>14. /\ M \in Seq(WindowSet)
       /\ \A k \in 1..Len(M) : Fits(M[k], a, b)
       /\ \A j, k \in 1..Len(M) : j < k => M[j].hi < M[k].lo
       /\ \A i \in 1..N : \E k \in 1..Len(M) : Holds(M[k], S[i])
       /\ \A k \in 1..Len(M) : M[k].right => \E i \in 1..N : S[i].right
  BY <1>13 DEF MergedTo
<1>15. \A i \in 1..Len(W) : \E k \in 1..Len(M) : Holds(M[k], W[i])
  <2> SUFFICES ASSUME NEW i \in 1..Len(W) PROVE \E k \in 1..Len(M) : Holds(M[k], W[i]) OBVIOUS
  <2>1. PICK j \in 1..N : S[j] = W[i] BY <1>2, <1>3
  <2> QED BY <1>14, <2>1
<1>16. \A k \in 1..Len(M) : M[k].right => \E i \in 1..Len(W) : W[i].right BY <1>2, <1>3, <1>14
<1> QED BY <1>10, <1>14, <1>15, <1>16 DEF MergedFrom

\* The times from one until before another.
Span(lo, hi) == {t \in Times : Inside(t, lo, hi)}

\* The statements are different ones.
LEMMA OpsAre ==
  /\ "raw" \in ReadOps /\ "hour" \in ReadOps /\ "day" \in ReadOps /\ "sum" \in ReadOps /\ "grid" \in ReadOps
  /\ "event" \in ReadOps /\ "list" \in ReadOps /\ "count" \in ReadOps /\ "latency" \in ReadOps
  /\ "recent" \in ReadOps
BY DEF ReadOps

\* The times of events are numbers.
LEMMA TimesAre == Times \subseteq Int /\ \A t \in Times : t <= MaxTime
BY CacheAssumption DEF CacheConstants, Times

\* What the reads of hours, days, health buckets and events find.
LEMMA HourPart ==
  ASSUME NEW open, NEW lo, NEW hi, OnGrid(lo, Hour), OnGrid(hi, Hour)
  PROVE  /\ Cut(MainTimes(open), Part("hour", lo, hi), Span(lo, hi))
         /\ Cut(TotalTimes(open), Part("sum", lo, hi), Span(lo, hi))
<1>1. lo \in Int /\ hi \in Int BY DEF OnGrid
<1>2. \A t \in Times : Inside(HourBucket(t), lo, hi) <=> Inside(t, lo, hi)
  <2> SUFFICES ASSUME NEW t \in Times PROVE Inside(HourBucket(t), lo, hi) <=> Inside(t, lo, hi) OBVIOUS
  <2>1. t \in Int /\ Hour \in Nat \ {0} BY TimesAre, WindowAssumption
  <2> QED BY <2>1, WholeBuckets DEF HourBucket
<1>3. MainTimes(open)[Read("hour", lo, hi)] = Span(lo, hi)
  <2>1. PICK s : s = Read("hour", lo, hi) OBVIOUS
  <2>2. s \in ReadSet /\ s.op = "hour" /\ s.lo = lo /\ s.hi = hi BY <1>1, <2>1, OpsAre, ReadIs DEF Read
  <2>3. MainTimes(open)[s] = {t \in Times : MainTime(t, s, open)} BY <2>2 DEF MainTimes
  <2>4. \A t \in Times : MainTime(t, s, open) <=> Inside(t, lo, hi) BY <1>2, <2>2 DEF MainTime
  <2> QED BY <2>1, <2>3, <2>4 DEF Span
<1>4. TotalTimes(open)[Read("sum", lo, hi)] = Span(lo, hi)
  <2>1. PICK s : s = Read("sum", lo, hi) OBVIOUS
  <2>2. s \in ReadSet /\ s.op = "sum" /\ s.lo = lo /\ s.hi = hi BY <1>1, <2>1, OpsAre, ReadIs DEF Read
  <2>3. TotalTimes(open)[s] = {t \in Times : TotalTime(t, s, open)} BY <2>2 DEF TotalTimes
  <2>4. \A t \in Times : TotalTime(t, s, open) <=> Inside(t, lo, hi) BY <1>2, <2>2 DEF TotalTime
  <2> QED BY <2>1, <2>3, <2>4 DEF Span
<1>5. ~(lo < hi) => Span(lo, hi) = {}
  <2> SUFFICES ASSUME ~(lo < hi), NEW t \in Times, Inside(t, lo, hi) PROVE FALSE BY DEF Span
  <2> QED BY <1>1, TimesAre DEF Inside
<1> QED BY <1>1, <1>3, <1>4, <1>5, OpsAre, CutPart

\* Whole health buckets.
LEMMA HealthPart ==
  ASSUME NEW open, NEW shown, NEW span \in Nat \ {0}, NEW lo, NEW hi,
         OnGrid(lo, span), OnGrid(hi, span)
  PROVE  Cut(GridTimes(open, shown, span), Part("grid", lo, hi), Span(lo, hi))
<1>1. lo \in Int /\ hi \in Int BY DEF OnGrid
<1>2. \A t \in Times : Inside(Truncate(t, span), lo, hi) <=> Inside(t, lo, hi)
  <2> SUFFICES ASSUME NEW t \in Times PROVE Inside(Truncate(t, span), lo, hi) <=> Inside(t, lo, hi) OBVIOUS
  <2>1. t \in Int BY TimesAre
  <2> QED BY <2>1, WholeBuckets
<1>3. GridTimes(open, shown, span)[Read("grid", lo, hi)] = Span(lo, hi)
  <2>1. PICK s : s = Read("grid", lo, hi) OBVIOUS
  <2>2. s \in ReadSet /\ s.op = "grid" /\ s.lo = lo /\ s.hi = hi BY <1>1, <2>1, OpsAre, ReadIs DEF Read
  <2>3. GridTimes(open, shown, span)[s] = {t \in Times : GridTime(t, s, open, shown, span)}
    BY <2>2 DEF GridTimes
  <2>4. \A t \in Times : GridTime(t, s, open, shown, span) <=> Inside(t, lo, hi) BY <1>2, <2>2 DEF GridTime
  <2> QED BY <2>1, <2>3, <2>4 DEF Span
<1>5. ~(lo < hi) => Span(lo, hi) = {}
  <2> SUFFICES ASSUME ~(lo < hi), NEW t \in Times, Inside(t, lo, hi) PROVE FALSE BY DEF Span
  <2> QED BY <1>1, TimesAre DEF Inside
<1> QED BY <1>1, <1>3, <1>5, OpsAre, CutPart

\* Single events.
LEMMA EventPart ==
  ASSUME NEW open, NEW lo \in Int, NEW hi \in Int
  PROVE  Cut(MainTimes(open), Part("event", lo, hi), Span(lo, hi))
<1>1. PICK s : s = Read("event", lo, hi) OBVIOUS
<1>2. s \in ReadSet /\ s.op = "event" /\ s.lo = lo /\ s.hi = hi /\ s.closed = FALSE BY <1>1, OpsAre, ReadIs DEF Read
<1>3. MainTimes(open)[s] = {t \in Times : MainTime(t, s, open)} BY <1>2 DEF MainTimes
<1>4. \A t \in Times : MainTime(t, s, open) <=> Inside(t, lo, hi) BY <1>2 DEF MainTime, InRead, Inside
<1>5. MainTimes(open)[s] = Span(lo, hi) BY <1>3, <1>4 DEF Span
<1>6. ~(lo < hi) => Span(lo, hi) = {}
  <2> SUFFICES ASSUME ~(lo < hi), NEW t \in Times, Inside(t, lo, hi) PROVE FALSE BY DEF Span
  <2> QED BY TimesAre DEF Inside
<1> QED BY <1>1, <1>5, <1>6, OpsAre, CutPart

\* What a read does not feed.
LEMMA FeedsNot ==
  ASSUME NEW open, NEW shown, NEW span, NEW s \in ReadSet
  PROVE  /\ s.op \in {"sum", "grid", "latency", "count"} => MainTimes(open)[s] = {}
         /\ s.op \in {"hour", "day", "event", "list", "recent", "grid"} => TotalTimes(open)[s] = {}
         /\ s.op \in {"hour", "day", "event", "list", "sum", "latency", "count"}
              => GridTimes(open, shown, span)[s] = {}
<1>1. s.op \in {"sum", "grid", "latency", "count"} => MainTimes(open)[s] = {} BY DEF MainTimes, MainTime
<1>2. s.op \in {"hour", "day", "event", "list", "recent", "grid"} => TotalTimes(open)[s] = {}
  BY DEF TotalTimes, TotalTime
<1>3. s.op \in {"hour", "day", "event", "list", "sum", "latency", "count"}
        => GridTimes(open, shown, span)[s] = {}
  BY DEF GridTimes, GridTime
<1> QED BY <1>1, <1>2, <1>3

\* A part of a plan that feeds another part of the answer finds nothing for this one.
LEMMA PartFeedsNot ==
  ASSUME NEW open, NEW shown, NEW span, NEW op \in ReadOps, NEW lo \in Int, NEW hi \in Int
  PROVE  /\ op \in {"sum", "grid"} => Cut(MainTimes(open), Part(op, lo, hi), {})
         /\ op \in {"hour", "day", "event", "grid"} => Cut(TotalTimes(open), Part(op, lo, hi), {})
         /\ op \in {"hour", "day", "event", "sum"} => Cut(GridTimes(open, shown, span), Part(op, lo, hi), {})
<1>1. Read(op, lo, hi) \in ReadSet /\ Read(op, lo, hi).op = op BY ReadIs
<1>2. PICK s : s = Read(op, lo, hi) OBVIOUS
<1>3. /\ op \in {"sum", "grid"} => MainTimes(open)[s] = {}
      /\ op \in {"hour", "day", "event", "grid"} => TotalTimes(open)[s] = {}
      /\ op \in {"hour", "day", "event", "sum"} => GridTimes(open, shown, span)[s] = {}
  BY <1>1, <1>2, FeedsNot
<1>4. \A T : T[s] = {} => Cut(T, Part(op, lo, hi), {})
  <2> SUFFICES ASSUME NEW T, T[s] = {} PROVE Cut(T, Part(op, lo, hi), {}) OBVIOUS
  <2>1. Cut(T, Part(op, lo, hi), IF lo < hi THEN T[s] ELSE {}) BY <1>2, CutPart
  <2> QED BY <2>1
<1> QED BY <1>3, <1>4

\* The whole days of a range with the hours around them.
LEMMA DayPart ==
  ASSUME MidnightsAtWholeHours, NEW open,
         NEW fs, NEW fe, OnGrid(fs, Hour), OnGrid(fe, Hour), fs <= fe,
         NEW m \in Midnights, m <= fs, NEW ds, NEW de, ds = FullDayStart(fs), de = FullDayEnd(fs, fe),
         ds < de
  PROVE  \E S : /\ S \subseteq Span(fs, fe) /\ (DaysOf24Hours => S = Span(fs, fe))
                /\ Cut(MainTimes(open), Part("day", ds, de) \o Part("hour", fs, ds) \o Part("hour", de, fe), S)
<1>1. /\ OnGrid(ds, Hour) /\ OnGrid(de, Hour) /\ de <= fe /\ fs <= de /\ de \in Midnights
      /\ \A n \in Midnights : ds <= n => fs <= n
      /\ DaysOf24Hours => ds \in Midnights
  BY WholeDays
<1>2. fs \in Int /\ fe \in Int /\ ds \in Int /\ de \in Int /\ Midnights \subseteq Int
  BY <1>1, WindowAssumption DEF OnGrid
<1>3. PICK D : D = {t \in Times : Inside(DayBucket(t), ds, de)} OBVIOUS
<1>4. Cut(MainTimes(open), Part("day", ds, de), D)
  <2>1. PICK s : s = Read("day", ds, de) OBVIOUS
  <2>2. s \in ReadSet /\ s.op = "day" /\ s.lo = ds /\ s.hi = de BY <1>2, <2>1, OpsAre, ReadIs DEF Read
  <2>3. MainTimes(open)[s] = {t \in Times : MainTime(t, s, open)} BY <2>2 DEF MainTimes
  <2>4. \A t \in Times : MainTime(t, s, open) <=> Inside(DayBucket(t), ds, de) BY <2>2 DEF MainTime
  <2>5. MainTimes(open)[s] = D BY <1>3, <2>3, <2>4
  <2> QED BY <1>2, <2>1, <2>5, OpsAre, CutPart
<1>5. \A t \in D : t \in Int /\ t \in Times /\ Inside(t, ds, de) /\ fs <= t
  <2> SUFFICES ASSUME NEW t \in Times, Inside(DayBucket(t), ds, de)
               PROVE  t \in Int /\ Inside(t, ds, de) /\ fs <= t
    BY <1>3
  <2>1. t \in Int BY TimesAre
  <2>2. PICK n \in Midnights : ds <= n /\ n <= t BY <1>1, <1>2, DaysHold
  <2>3. Inside(t, ds, de) BY <1>1, <1>2, DaysHold
  <2>4. fs <= n /\ n \in Int BY <1>1, <1>2, <2>2
  <2> QED BY <1>2, <2>1, <2>2, <2>3, <2>4
<1>6. \A lo, hi \in Int : \A t \in Times : t \in Span(lo, hi) <=> lo <= t /\ t < hi BY DEF Span, Inside
<1>7. D \cap Span(fs, ds) = {}
  <2> SUFFICES ASSUME NEW t \in D, t \in Span(fs, ds) PROVE FALSE OBVIOUS
  <2>1. t \in Int /\ t \in Times /\ ds <= t /\ t < ds BY <1>2, <1>5, <1>6 DEF Inside
  <2> QED BY <1>2, <2>1
<1>8. (D \union Span(fs, ds)) \cap Span(de, fe) = {}
  <2> SUFFICES ASSUME NEW t \in D \union Span(fs, ds), t \in Span(de, fe) PROVE FALSE OBVIOUS
  <2>1. t \in Int /\ t \in Times /\ de <= t BY <1>2, <1>6, TimesAre DEF Span
  <2>2. t < de
    <3>1. CASE t \in D BY <1>5, <3>1 DEF Inside
    <3>2. CASE t \in Span(fs, ds) BY <1>2, <1>6, <2>1, <3>2
    <3> QED BY <3>1, <3>2
  <2> QED BY <1>2, <2>1, <2>2
<1>9. PICK S : S = (D \union Span(fs, ds)) \union Span(de, fe) OBVIOUS
<1>10. Cut(MainTimes(open), Part("day", ds, de) \o Part("hour", fs, ds) \o Part("hour", de, fe), S)
  <2>1. /\ Cut(MainTimes(open), Part("hour", fs, ds), Span(fs, ds))
        /\ Cut(MainTimes(open), Part("hour", de, fe), Span(de, fe))
    BY <1>1, HourPart
  <2>2. Cut(MainTimes(open), Part("day", ds, de) \o Part("hour", fs, ds), D \union Span(fs, ds))
    BY <1>4, <1>7, <2>1, CutTwo
  <2> QED BY <1>8, <1>9, <2>1, <2>2, CutTwo
<1>11. S \subseteq Span(fs, fe)
  <2> SUFFICES ASSUME NEW t \in S PROVE t \in Span(fs, fe) OBVIOUS
  <2>1. CASE t \in D BY <1>1, <1>2, <1>5, <1>6, <2>1 DEF Inside
  <2>2. CASE t \in Span(fs, ds)
    <3>1. t \in Int /\ t \in Times BY <2>2, TimesAre DEF Span
    <3> QED BY <1>1, <1>2, <1>6, <2>2, <3>1
  <2>3. CASE t \in Span(de, fe)
    <3>1. t \in Int /\ t \in Times BY <2>3, TimesAre DEF Span
    <3> QED BY <1>1, <1>2, <1>6, <2>3, <3>1
  <2> QED BY <1>9, <2>1, <2>2, <2>3
<1>12. ASSUME DaysOf24Hours, NEW t \in Span(fs, fe) PROVE t \in S
  <2>1. t \in Int /\ t \in Times /\ fs <= t /\ t < fe BY <1>2, <1>6, TimesAre DEF Span
  <2>2. CASE t < ds BY <1>2, <1>6, <1>9, <2>1, <2>2
  <2>3. CASE de <= t BY <1>2, <1>6, <1>9, <2>1, <2>3
  <2>4. CASE ds <= t /\ t < de
    <3>1. Inside(DayBucket(t), ds, de)
      <4>1. ds \in Midnights /\ Inside(t, ds, de) BY <1>1, <1>12, <2>4 DEF Inside
      <4> QED BY <1>1, <2>1, <4>1, DaysHoldAll
    <3> QED BY <1>3, <1>9, <2>1, <3>1
  <2> QED BY <1>2, <2>1, <2>2, <2>3, <2>4
<1> QED BY <1>10, <1>11, <1>12

\* One sequence after another holds what they hold.
PartsOf(u, p, q) ==
  /\ \A i \in 1..Len(u) : (\E j \in 1..Len(p) : u[i] = p[j]) \/ (\E j \in 1..Len(q) : u[i] = q[j])
  /\ \A j \in 1..Len(p) : \E i \in 1..Len(u) : u[i] = p[j]
  /\ \A j \in 1..Len(q) : \E i \in 1..Len(u) : u[i] = q[j]

\* One list of windows after another.
LEMMA TwoParts ==
  ASSUME NEW p \in Seq(WindowSet), NEW q \in Seq(WindowSet), NEW u, u = p \o q
  PROVE  u \in Seq(WindowSet) /\ PartsOf(u, p, q)
<1>1. PICK m, n : m = Len(p) /\ n = Len(q) OBVIOUS
<1>2. m \in Nat /\ n \in Nat BY <1>1
<1>3. u \in Seq(WindowSet) /\ Len(u) = m + n BY <1>1
<1>4. \A i \in 1..m : i \in 1..(m + n) /\ u[i] = p[i] BY <1>1, <1>2
<1>5. \A i \in 1..n : m + i \in 1..(m + n) /\ u[m + i] = q[i]
  <2> SUFFICES ASSUME NEW i \in 1..n PROVE m + i \in 1..(m + n) /\ u[m + i] = q[i] OBVIOUS
  <2>1. m + i \in 1..(m + n) /\ m + i > m /\ (m + i) - m = i BY <1>2
  <2>2. u[m + i] = q[(m + i) - m] BY <1>1, <1>2, <2>1
  <2> QED BY <2>1, <2>2
<1>6. ASSUME NEW i \in 1..(m + n) PROVE (\E j \in 1..m : u[i] = p[j]) \/ \E j \in 1..n : u[i] = q[j]
  <2>1. CASE i \in 1..m BY <1>4, <2>1
  <2>2. CASE i \notin 1..m
    <3>1. PICK j \in 1..n : i = m + j
      <4>1. i - m \in 1..n /\ i = m + (i - m) BY <1>2, <2>2
      <4> QED BY <4>1
    <3> QED BY <1>5, <3>1
  <2> QED BY <2>1, <2>2
<1> QED BY <1>1, <1>3, <1>4, <1>5, <1>6 DEF PartsOf

\* The windows at the edges of a range around what whole buckets cover.
EdgesAre(W, a, b, from, to, closed0, right) ==
  /\ W \in Seq(WindowSet)
  /\ \A i \in 1..Len(W) : Fits(W[i], a, b) /\ (W[i].right => right)
  /\ b < a => Len(W) = 0
  /\ \A t \in Int : a < b /\ ~Inside(t, from, to) /\ (Inside(t, a, b) \/ (closed0 /\ t = b))
              => \E i \in 1..Len(W) : InRead(t, W[i])

\* There are at most two, one on each side.
LEMMA BoundaryAre ==
  ASSUME NEW a \in Int, NEW b \in Int, NEW from \in Int, NEW to \in Int, a <= from, from <= to,
         to <= b \/ (from = to /\ b < from),
         NEW closed0 \in BOOLEAN, NEW right \in BOOLEAN,
         NEW W, W = BoundaryWindows(a, b, from, to, closed0, right)
  PROVE  EdgesAre(W, a, b, from, to, closed0, right)
<1> USE DEF EdgesAre
<1>1. PICK le, rs : le = AtMost(from, b) /\ rs = AtLeast(to, a) OBVIOUS
<1>2. le = (IF from < b THEN from ELSE b) /\ rs = to BY <1>1 DEF AtMost, AtLeast
<1>3. CASE a >= b
  <2>1. W = <<>> BY <1>3 DEF BoundaryWindows
  <2> QED BY <1>3, <2>1
<1>4. CASE ~(a >= b)
  <2>1. PICK left, last : /\ left = RawWindow(a, le, closed0 /\ le = b, right /\ le = b)
                          /\ last = RawWindow(rs, b, closed0, right)
    OBVIOUS
  <2>2. PICK p, q : /\ p = (IF a < le THEN <<left>> ELSE <<>>)
                    /\ q = (IF b >= to /\ (rs < b \/ (closed0 /\ rs = b)) THEN <<last>> ELSE <<>>)
    OBVIOUS
  <2>3. W = p \o q BY <1>1, <1>4, <2>1, <2>2, Zenon DEF BoundaryWindows
  <2>4. /\ left \in WindowSet /\ left.lo = a /\ left.hi = le
        /\ (left.closed <=> closed0 /\ le = b) /\ (left.right <=> right /\ le = b)
    BY <1>2, <2>1 DEF RawWindow, WindowSet
  <2>5. /\ last \in WindowSet /\ last.lo = rs /\ last.hi = b
        /\ (last.closed <=> closed0) /\ (last.right <=> right)
    BY <1>2, <2>1 DEF RawWindow, WindowSet
  <2>6. 1..1 = {1} /\ 1..0 = {} OBVIOUS
  <2>7. /\ p \in Seq(WindowSet) /\ (a < le => Len(p) = 1 /\ p[1] = left) /\ (~(a < le) => Len(p) = 0)
    BY <2>2, <2>4
  <2>8. PICK B \in BOOLEAN : B <=> b >= to /\ (rs < b \/ (closed0 /\ rs = b)) OBVIOUS
  <2>9. q \in Seq(WindowSet) /\ (B => Len(q) = 1 /\ q[1] = last) /\ (~B => Len(q) = 0)
    BY <2>2, <2>5, <2>8
  <2>10. \A i \in 1..Len(p) : p[i] = left /\ a < le BY <2>6, <2>7
  <2>11. \A i \in 1..Len(q) : q[i] = last /\ B BY <2>6, <2>9
  <2>12. a < le => Fits(left, a, b) /\ (left.right => right) BY <1>2, <2>4 DEF Fits
  <2>13. B => Fits(last, a, b) /\ (last.right => right) BY <1>2, <2>5, <2>8 DEF Fits
  <2>14. /\ W \in Seq(WindowSet)
         /\ \A i \in 1..Len(W) : (W[i] = left /\ a < le) \/ (W[i] = last /\ B)
         /\ a < le => \E i \in 1..Len(W) : W[i] = left
         /\ B => \E i \in 1..Len(W) : W[i] = last
    <3>1. /\ W \in Seq(WindowSet)
          /\ \A i \in 1..Len(W) : (\E j \in 1..Len(p) : W[i] = p[j]) \/ (\E j \in 1..Len(q) : W[i] = q[j])
          /\ \A j \in 1..Len(p) : \E i \in 1..Len(W) : W[i] = p[j]
          /\ \A j \in 1..Len(q) : \E i \in 1..Len(W) : W[i] = q[j]
      <4>1. p \in Seq(WindowSet) /\ q \in Seq(WindowSet) BY <2>7, <2>9
      <4>2. W \in Seq(WindowSet) /\ PartsOf(W, p, q) BY <2>3, <4>1, TwoParts
      <4> QED BY <4>2, Zenon DEF PartsOf
    <3>2. \A i \in 1..Len(W) : (W[i] = left /\ a < le) \/ (W[i] = last /\ B)
      BY <2>10, <2>11, <3>1, Zenon
    <3>3. a < le => \E i \in 1..Len(W) : W[i] = left
      <4> SUFFICES ASSUME a < le PROVE \E i \in 1..Len(W) : W[i] = left OBVIOUS
      <4>1. 1 \in 1..Len(p) /\ p[1] = left BY <2>6, <2>7
      <4> QED BY <3>1, <4>1, Zenon
    <3>4. B => \E i \in 1..Len(W) : W[i] = last
      <4> SUFFICES ASSUME B PROVE \E i \in 1..Len(W) : W[i] = last OBVIOUS
      <4>1. 1 \in 1..Len(q) /\ q[1] = last BY <2>6, <2>9
      <4> QED BY <3>1, <4>1, Zenon
    <3> QED BY <3>1, <3>2, <3>3, <3>4
  <2>15. \A i \in 1..Len(W) : Fits(W[i], a, b) /\ (W[i].right => right) BY <2>12, <2>13, <2>14
  <2>16. ASSUME NEW t \in Int, ~Inside(t, from, to), Inside(t, a, b) \/ (closed0 /\ t = b)
         PROVE  (a < le /\ InRead(t, left)) \/ (B /\ InRead(t, last))
    <3>1. CASE t < from
      <4>1. a < le /\ InRead(t, left) BY <1>2, <1>4, <2>4, <2>16, <3>1 DEF InRead, Inside
      <4> QED BY <4>1
    <3>2. CASE to <= t
      <4>1. B /\ InRead(t, last) BY <1>2, <1>4, <2>5, <2>8, <2>16, <3>2 DEF InRead, Inside
      <4> QED BY <4>1
    <3> QED BY <2>16, <3>1, <3>2 DEF Inside
  <2> QED BY <1>4, <2>14, <2>15, <2>16
<1> QED BY <1>3, <1>4

\* A function on the first numbers is a list.
LEMMA ListIs ==
  ASSUME NEW R, NEW n \in Nat, NEW s \in [1..n -> R]
  PROVE  s \in Seq(R) /\ Len(s) = n /\ DOMAIN s = 1..n
OBVIOUS

\* The reads of single events, one for each merged window.
RawReads(M, skip, skipGrid) ==
  [i \in DOMAIN M |-> [Read("raw", M[i].lo, M[i].hi) EXCEPT !.closed = M[i].closed, !.right = M[i].right,
                                                            !.skip = skip, !.skipGrid = skipGrid]]

ReadsAre(u, M, a, b, skip, skipGrid, open) ==
  /\ u \in Seq(ReadSet) /\ DOMAIN u = 1..Len(M)
  /\ \A k \in 1..Len(M) : u[k].op = "raw" /\ u[k].skip = skip /\ u[k].skipGrid = skipGrid
  /\ \A k \in 1..Len(M), t \in Int : InRead(t, M[k]) => RawTime(t, u[k], open)
  /\ \A k \in 1..Len(M), t \in Int :
       RawTime(t, u[k], open) => a <= t /\ (t <= b \/ (open /\ M[k].right))
  /\ \A j, k \in 1..Len(M), t \in Int : RawTime(t, u[j], open) /\ RawTime(t, u[k], open) => j = k

\* What the reads take is what the windows hold.
LEMMA RawReadsAre ==
  ASSUME NEW M \in Seq(WindowSet), NEW a \in Int, NEW b \in Int,
         \A k \in 1..Len(M) : Fits(M[k], a, b),
         \A j, k \in 1..Len(M) : j < k => M[j].hi < M[k].lo,
         NEW skip \in Int \X Int, NEW skipGrid \in Int \X Int, NEW open,
         NEW u, u = RawReads(M, skip, skipGrid)
  PROVE  ReadsAre(u, M, a, b, skip, skipGrid, open)
<1>1. PICK N : N = Len(M) OBVIOUS
<1>2. N \in Nat /\ DOMAIN M = 1..N /\ \A k \in 1..N : M[k] \in WindowSet BY <1>1
<1>3. \A k \in 1..N : /\ M[k].lo \in Int /\ M[k].hi \in Int /\ M[k].closed \in BOOLEAN /\ M[k].right \in BOOLEAN
                      /\ a <= M[k].lo /\ M[k].lo <= M[k].hi /\ M[k].hi <= b /\ (M[k].right => M[k].hi = b)
  BY <1>1, <1>2 DEF WindowSet, Fits
<1>4. ASSUME NEW k \in 1..N
      PROVE  /\ u[k] \in ReadSet
             /\ u[k].op = "raw" /\ u[k].skip = skip /\ u[k].skipGrid = skipGrid
             /\ u[k].lo = M[k].lo /\ u[k].hi = M[k].hi
             /\ u[k].closed = M[k].closed /\ u[k].right = M[k].right
  <2>1. PICK s : s = [op |-> "raw", lo |-> M[k].lo, hi |-> M[k].hi, closed |-> M[k].closed,
                      right |-> M[k].right, skip |-> skip, skipGrid |-> skipGrid]
    OBVIOUS
  <2>2. s \in ReadSet BY <1>3, <2>1, OpsAre DEF ReadSet
  <2>3. u[k] = s BY <1>2, <2>1 DEF RawReads, Read
  <2> QED BY <2>1, <2>2, <2>3
<1>5. u \in [1..N -> ReadSet] BY <1>2, <1>4 DEF RawReads
<1>6. u \in Seq(ReadSet) /\ DOMAIN u = 1..N BY <1>2, <1>5, ListIs
<1>7. \A k \in 1..N, t \in Int : InRead(t, u[k]) <=> InRead(t, M[k]) BY <1>4 DEF InRead
<1>8. \A k \in 1..N, t \in Int : InRead(t, M[k]) => RawTime(t, u[k], open) BY <1>7 DEF RawTime
<1>9. \A k \in 1..N, t \in Int :
        RawTime(t, u[k], open) => M[k].lo <= t /\ (t <= M[k].hi \/ (open /\ M[k].right))
  <2> SUFFICES ASSUME NEW k \in 1..N, NEW t \in Int, RawTime(t, u[k], open)
               PROVE  M[k].lo <= t /\ (t <= M[k].hi \/ (open /\ M[k].right))
    OBVIOUS
  <2>1. M[k].lo \in Int /\ M[k].hi \in Int BY <1>3
  <2>2. u[k].lo = M[k].lo /\ (u[k].right <=> M[k].right) BY <1>4
  <2>3. InRead(t, M[k]) \/ (open /\ M[k].right /\ M[k].lo <= t) BY <1>7, <2>2 DEF RawTime
  <2> QED BY <2>1, <2>3 DEF InRead
<1>10. \A k \in 1..N, t \in Int : RawTime(t, u[k], open) => a <= t /\ (t <= b \/ (open /\ M[k].right))
  BY <1>3, <1>9
<1>11. ASSUME NEW j \in 1..N, NEW k \in 1..N, NEW t \in Int, RawTime(t, u[j], open), RawTime(t, u[k], open)
       PROVE  ~(j < k)
  <2> SUFFICES ASSUME j < k PROVE FALSE OBVIOUS
  <2>1. M[j].hi < M[k].lo BY <1>1
  <2>2. M[k].lo <= t /\ (t <= M[j].hi \/ M[j].right) BY <1>9, <1>11
  <2>3. M[j].right => M[j].hi = b BY <1>3
  <2>4. M[j].hi \in Int /\ M[k].lo \in Int /\ M[k].hi \in Int /\ M[k].lo <= M[k].hi /\ M[k].hi <= b BY <1>3
  <2>5. CASE t <= M[j].hi BY <2>1, <2>2, <2>4, <2>5
  <2>6. CASE M[j].right BY <2>1, <2>3, <2>4, <2>6
  <2> QED BY <2>2, <2>5, <2>6
<1>12. \A j, k \in 1..N : ~(j < k) /\ ~(k < j) => j = k BY <1>2
<1> QED BY <1>1, <1>4, <1>6, <1>8, <1>10, <1>11, <1>12 DEF ReadsAre

\* Where an overview reads single events: the times its windows hold.
OverviewReads(M, a, b, right) ==
  /\ M \in Seq(WindowSet)
  /\ \A k \in 1..Len(M) : Fits(M[k], a, b) /\ (M[k].right => right)
  /\ \A j, k \in 1..Len(M) : j < k => M[j].hi < M[k].lo

OverviewFinds(M, a, b, fs, fe, s1, s2, gs, ge) ==
  /\ \A t \in Int : a < b /\ Inside(t, a, b + 1) /\ ~Inside(t, fs, fe)
                      => \E k \in 1..Len(M) : InRead(t, M[k])
  /\ \A t \in Int : Inside(t, s1, s2) /\ ~Inside(t, gs, ge)
                      => \E k \in 1..Len(M) : InRead(t, M[k])

\* Merged, they hold the times of both edges, the grid and the hours left out.
LEMMA OverviewMerged ==
  ASSUME NEW a \in Int, NEW b \in Int, NEW s1 \in Int, NEW s2 \in Int, a <= s1, s2 <= b,
         NEW right \in BOOLEAN, NEW fs, NEW fe, NEW gs, NEW ge,
         NEW p, NEW q, EdgesAre(p, a, b, fs, fe, TRUE, right), EdgesAre(q, s1, s2, gs, ge, FALSE, FALSE),
         NEW W \in Seq(WindowSet), PartsOf(W, p, q), NEW M, M = MergeWindows(W)
  PROVE  OverviewReads(M, a, b, right) /\ OverviewFinds(M, a, b, fs, fe, s1, s2, gs, ge)
<1>3. /\ p \in Seq(WindowSet) /\ \A i \in 1..Len(p) : Fits(p[i], a, b) /\ (p[i].right => right)
      /\ \A t \in Int : a < b /\ ~Inside(t, fs, fe) /\ (Inside(t, a, b) \/ t = b)
              => \E i \in 1..Len(p) : InRead(t, p[i])
  BY Zenon DEF EdgesAre
<1>4. /\ q \in Seq(WindowSet) /\ \A i \in 1..Len(q) : Fits(q[i], s1, s2) /\ ~q[i].right
      /\ \A t \in Int : s1 < s2 /\ ~Inside(t, gs, ge) /\ Inside(t, s1, s2)
              => \E i \in 1..Len(q) : InRead(t, q[i])
  BY Zenon DEF EdgesAre
<1>7. DOMAIN q = 1..Len(q) /\ \A i \in 1..Len(q) : q[i] \in WindowSet BY <1>4
<1>8. \A i \in 1..Len(q) : Fits(q[i], a, b)
  <2> SUFFICES ASSUME NEW i \in 1..Len(q) PROVE Fits(q[i], a, b) OBVIOUS
  <2>1. q[i].lo \in Int /\ q[i].hi \in Int BY <1>7 DEF WindowSet
  <2> QED BY <1>4, <2>1 DEF Fits
<1>9. \A i \in 1..Len(W) : Fits(W[i], a, b) /\ (W[i].right => right)
  <2> SUFFICES ASSUME NEW i \in 1..Len(W) PROVE Fits(W[i], a, b) /\ (W[i].right => right) OBVIOUS
  <2>1. CASE \E j \in 1..Len(p) : W[i] = p[j] BY <1>3, <2>1
  <2>2. CASE \E j \in 1..Len(q) : W[i] = q[j] BY <1>4, <1>8, <2>2
  <2> QED BY <2>1, <2>2 DEF PartsOf
<1>10. /\ M \in Seq(WindowSet)
       /\ \A k \in 1..Len(M) : Fits(M[k], a, b)
       /\ \A j, k \in 1..Len(M) : j < k => M[j].hi < M[k].lo
       /\ \A i \in 1..Len(W) : \E k \in 1..Len(M) : Holds(M[k], W[i])
       /\ \A k \in 1..Len(M) : M[k].right => \E i \in 1..Len(W) : W[i].right
  <2>2. MergedFrom(M, W, a, b) BY <1>9, MergedAre
  <2> QED BY <2>2, Zenon DEF MergedFrom
<1>11. \A k \in 1..Len(M) : M[k].right => right BY <1>9, <1>10
<1>12. ASSUME NEW t \in Int, NEW i \in 1..Len(W), InRead(t, W[i])
       PROVE  \E k \in 1..Len(M) : InRead(t, M[k])
  <2>1. PICK k \in 1..Len(M) : Holds(M[k], W[i]) BY <1>10
  <2>2. W[i] \in WindowSet /\ M[k] \in WindowSet
    <3>1. M \in Seq(WindowSet) BY <1>10, Zenon
    <3>2. DOMAIN W = 1..Len(W) /\ DOMAIN M = 1..Len(M) BY <3>1
    <3> QED BY <3>1, <3>2
  <2>3. W[i].lo \in Int /\ W[i].hi \in Int /\ M[k].lo \in Int /\ M[k].hi \in Int BY <2>2 DEF WindowSet
  <2>4. InRead(t, M[k])
    <3>1. PICK v, w : v = W[i] /\ w = M[k] OBVIOUS
    <3>2. InRead(t, v) /\ Holds(w, v) /\ v.lo \in Int /\ v.hi \in Int /\ w.lo \in Int /\ w.hi \in Int
      BY <1>12, <2>1, <2>3, <3>1
    <3>3. w.lo <= t /\ (t < w.hi \/ (t = w.hi /\ t = v.hi /\ v.closed)) BY <3>2 DEF InRead, Holds
    <3>4. InRead(t, w) BY <3>2, <3>3 DEF InRead, Holds
    <3> QED BY <3>1, <3>4
  <2> QED BY <2>4
<1>13. ASSUME NEW t \in Int, a < b, Inside(t, a, b + 1), ~Inside(t, fs, fe)
       PROVE  \E k \in 1..Len(M) : InRead(t, M[k])
  <2>1. Inside(t, a, b) \/ t = b BY <1>13 DEF Inside
  <2>2. PICK j \in 1..Len(p) : InRead(t, p[j]) BY <1>3, <1>13, <2>1
  <2>3. PICK i \in 1..Len(W) : W[i] = p[j] BY DEF PartsOf
  <2>4. InRead(t, W[i]) BY <2>2, <2>3
  <2> QED BY <1>12, <2>4
<1>14. ASSUME NEW t \in Int, Inside(t, s1, s2), ~Inside(t, gs, ge)
       PROVE  \E k \in 1..Len(M) : InRead(t, M[k])
  <2>1. s1 < s2 BY <1>14 DEF Inside
  <2>2. PICK j \in 1..Len(q) : InRead(t, q[j]) BY <1>4, <1>14, <2>1
  <2>3. PICK i \in 1..Len(W) : W[i] = q[j] BY DEF PartsOf
  <2>4. InRead(t, W[i]) BY <2>2, <2>3
  <2> QED BY <1>12, <2>4
<1>15. OverviewReads(M, a, b, right) BY <1>10, <1>11 DEF OverviewReads
<1> QED BY <1>13, <1>14, <1>15 DEF OverviewFinds

\* So do the ones an overview reads.
LEMMA OverviewWindows ==
  ASSUME NEW a \in Int, NEW b \in Int, NEW s1 \in Int, NEW s2 \in Int, a <= s1, s2 <= b,
         NEW s \in Nat \ {0}, NEW right \in BOOLEAN,
         NEW fs, NEW fe, NEW gs, NEW ge, Whole(a, b, fs, fe, Hour), Whole(s1, s2, gs, ge, s),
         NEW M, M = MergeWindows(BoundaryWindows(a, b, fs, fe, TRUE, right)
                                   \o BoundaryWindows(s1, s2, gs, ge, FALSE, FALSE))
  PROVE  OverviewReads(M, a, b, right) /\ OverviewFinds(M, a, b, fs, fe, s1, s2, gs, ge)
<1>1. /\ fs \in Int /\ fe \in Int /\ a <= fs /\ fs <= fe /\ (fe <= b \/ (fs = fe /\ b < fs))
      /\ gs \in Int /\ ge \in Int /\ s1 <= gs /\ gs <= ge /\ (ge <= s2 \/ (gs = ge /\ s2 < gs))
  BY DEF Whole, OnGrid
<1>2. PICK p, q : p = BoundaryWindows(a, b, fs, fe, TRUE, right) /\ q = BoundaryWindows(s1, s2, gs, ge, FALSE, FALSE)
  OBVIOUS
<1>3. EdgesAre(p, a, b, fs, fe, TRUE, right)
  <2>1. CASE right = TRUE
    <3>1. p = BoundaryWindows(a, b, fs, fe, TRUE, TRUE) BY <1>2, <2>1, Zenon
    <3>2. EdgesAre(p, a, b, fs, fe, TRUE, TRUE) BY <1>1, <3>1, BoundaryAre
    <3> QED BY <2>1, <3>2, Zenon
  <2>2. CASE right = FALSE
    <3>1. p = BoundaryWindows(a, b, fs, fe, TRUE, FALSE) BY <1>2, <2>2, Zenon
    <3>2. EdgesAre(p, a, b, fs, fe, TRUE, FALSE) BY <1>1, <3>1, BoundaryAre
    <3> QED BY <2>2, <3>2, Zenon
  <2> QED BY <2>1, <2>2
<1>4. EdgesAre(q, s1, s2, gs, ge, FALSE, FALSE) BY <1>1, <1>2, BoundaryAre
<1>5. PICK W : W = p \o q OBVIOUS
<1>6. W \in Seq(WindowSet) /\ PartsOf(W, p, q)
  <2>1. p \in Seq(WindowSet) /\ q \in Seq(WindowSet) BY <1>3, <1>4, Zenon DEF EdgesAre
  <2> QED BY <1>5, <2>1, TwoParts
<1>7. M = MergeWindows(W) BY <1>2, <1>5
<1>8. OverviewReads(M, a, b, right) /\ OverviewFinds(M, a, b, fs, fe, s1, s2, gs, ge)
  BY <1>3, <1>4, <1>6, <1>7, OverviewMerged
<1> QED BY <1>8

\* What its reads of single events find, when each takes what is in G.
TakesRaw(T, u, G, open) == \A k \in DOMAIN u : T[u[k]] = {t \in G : RawTime(t, u[k], open)}
RawsFind(R, T, u, G, M, a, b, right) ==
  /\ Cut(T, u, R) /\ R \subseteq G
  /\ \A t \in R : a <= t /\ (right \/ t <= b)
  /\ \A t \in G, k \in 1..Len(M) : InRead(t, M[k]) => t \in R

\* They take each time of G once.
LEMMA RawCut ==
  ASSUME NEW M, NEW a \in Int, NEW b \in Int, NEW right, OverviewReads(M, a, b, right),
         NEW skip \in Int \X Int, NEW skipGrid \in Int \X Int, NEW open,
         NEW u, u = RawReads(M, skip, skipGrid), NEW T, NEW G, G \subseteq Times,
         TakesRaw(T, u, G, open)
  PROVE  \E R : RawsFind(R, T, u, G, M, a, b, right)
<1>1. PICK N : N = Len(M) OBVIOUS
<1>2. /\ M \in Seq(WindowSet)
      /\ \A k \in 1..Len(M) : Fits(M[k], a, b)
      /\ \A k \in 1..Len(M) : M[k].right => right
      /\ \A j, k \in 1..Len(M) : j < k => M[j].hi < M[k].lo
  BY DEF OverviewReads
<1>3. /\ u \in Seq(ReadSet) /\ DOMAIN u = 1..N
      /\ \A k \in 1..N, t \in Int : InRead(t, M[k]) => RawTime(t, u[k], open)
      /\ \A k \in 1..N, t \in Int : RawTime(t, u[k], open) => a <= t /\ (t <= b \/ (open /\ M[k].right))
      /\ \A j, k \in 1..N, t \in Int : RawTime(t, u[j], open) /\ RawTime(t, u[k], open) => j = k
  <2>1. ReadsAre(u, M, a, b, skip, skipGrid, open)
    BY <1>2, RawReadsAre
  <2> QED BY <1>1, <2>1, Zenon DEF ReadsAre
<1>4. G \subseteq Int BY TimesAre
<1>5. \A k \in 1..N : T[u[k]] = {t \in G : RawTime(t, u[k], open)} BY <1>3 DEF TakesRaw
<1>6. PICK R : R = TakenBy(T, u) OBVIOUS
<1>7. \A t : t \in R <=> \E k \in 1..N : t \in T[u[k]] BY <1>3, <1>6 DEF TakenBy
<1>8. Cut(T, u, R)
  <2>1. ASSUME NEW j \in 1..N, NEW k \in 1..N, j # k PROVE T[u[j]] \cap T[u[k]] = {}
    <3> SUFFICES ASSUME NEW t \in T[u[j]], t \in T[u[k]] PROVE FALSE OBVIOUS
    <3>1. t \in Int /\ RawTime(t, u[j], open) /\ RawTime(t, u[k], open) BY <1>4, <1>5
    <3> QED BY <1>3, <2>1, <3>1
  <2>2. Apart(T, u) BY <1>3, <2>1 DEF Apart
  <2> QED BY <1>3, <1>6, <2>2 DEF Cut
<1>9. ASSUME NEW t \in R PROVE t \in G /\ a <= t /\ (right \/ t <= b)
  <2>1. PICK k \in 1..N : t \in T[u[k]] BY <1>7
  <2>2. t \in G /\ t \in Int /\ RawTime(t, u[k], open) BY <1>4, <1>5, <2>1
  <2> QED BY <1>1, <1>2, <1>3, <2>2
<1>10. ASSUME NEW t \in G, NEW k \in 1..N, InRead(t, M[k]) PROVE t \in R
  <2>1. t \in Int /\ RawTime(t, u[k], open) BY <1>3, <1>4, <1>10
  <2>2. t \in T[u[k]] BY <1>5, <2>1
  <2> QED BY <1>7, <2>2
<1> QED BY <1>1, <1>8, <1>9, <1>10 DEF RawsFind

\* What whole hours, or whole days and the hours around them, hold.
HoursOrDays(h, fs, fe) ==
  \/ h = Part("hour", fs, fe)
  \/ h = DaysAndHours(fs, fe) /\ FullDayStart(fs) < FullDayEnd(fs, fe)

\* An overview reads hours, or days and the hours around them.
LEMMA HoursOrDaysCut ==
  ASSUME MidnightsAtWholeHours, NEW open,
         NEW fs, NEW fe, OnGrid(fs, Hour), OnGrid(fe, Hour), fs <= fe,
         NEW m \in Midnights, m <= fs, NEW h, HoursOrDays(h, fs, fe)
  PROVE  \E H : /\ Cut(MainTimes(open), h, H)
                /\ H \subseteq Span(fs, fe) /\ (DaysOf24Hours => H = Span(fs, fe))
<1>1. CASE h = Part("hour", fs, fe) BY <1>1, HourPart
<1>2. CASE h = DaysAndHours(fs, fe) /\ FullDayStart(fs) < FullDayEnd(fs, fe)
  <2>1. PICK ds, de : ds = FullDayStart(fs) /\ de = FullDayEnd(fs, fe) OBVIOUS
  <2>2. h = Part("day", ds, de) \o Part("hour", fs, ds) \o Part("hour", de, fe) /\ ds < de
    BY <1>2, <2>1 DEF DaysAndHours
  <2>3. \E S : /\ S \subseteq Span(fs, fe) /\ (DaysOf24Hours => S = Span(fs, fe))
               /\ Cut(MainTimes(open), Part("day", ds, de) \o Part("hour", fs, ds) \o Part("hour", de, fe), S)
    BY <2>1, <2>2, DayPart
  <2> QED BY <2>2, <2>3
<1> QED BY <1>1, <1>2 DEF HoursOrDays

\* They feed nothing but the series and sums.
LEMMA HoursOrDaysOnly ==
  ASSUME MidnightsAtWholeHours, NEW open, NEW shown, NEW span,
         NEW fs, NEW fe, OnGrid(fs, Hour), OnGrid(fe, Hour), fs <= fe,
         NEW m \in Midnights, m <= fs, NEW h, HoursOrDays(h, fs, fe)
  PROVE  Cut(TotalTimes(open), h, {}) /\ Cut(GridTimes(open, shown, span), h, {})
<1>1. fs \in Int /\ fe \in Int BY DEF OnGrid
<1>2. CASE h = Part("hour", fs, fe) BY <1>1, <1>2, OpsAre, PartFeedsNot
<1>3. CASE h = DaysAndHours(fs, fe)
  <2>1. PICK ds, de : ds = FullDayStart(fs) /\ de = FullDayEnd(fs, fe) OBVIOUS
  <2>2. ds \in Int /\ de \in Int
    <3>1. OnGrid(ds, Hour) /\ OnGrid(de, Hour) BY <2>1, WholeDays
    <3> QED BY <3>1 DEF OnGrid
  <2>3. PICK p, q, v : p = Part("day", ds, de) /\ q = Part("hour", fs, ds) /\ v = Part("hour", de, fe) OBVIOUS
  <2>4. h = p \o q \o v BY <1>3, <2>1, <2>3 DEF DaysAndHours
  <2>5. /\ Cut(TotalTimes(open), p, {}) /\ Cut(GridTimes(open, shown, span), p, {})
        /\ Cut(TotalTimes(open), q, {}) /\ Cut(GridTimes(open, shown, span), q, {})
        /\ Cut(TotalTimes(open), v, {}) /\ Cut(GridTimes(open, shown, span), v, {})
    BY <1>1, <2>2, <2>3, OpsAre, PartFeedsNot
  <2>6. \A T : Cut(T, p, {}) /\ Cut(T, q, {}) /\ Cut(T, v, {}) => Cut(T, h, {})
    <3> SUFFICES ASSUME NEW T, Cut(T, p, {}), Cut(T, q, {}), Cut(T, v, {}) PROVE Cut(T, h, {}) OBVIOUS
    <3>1. {} \cap {} = {} /\ {} \union {} = {} OBVIOUS
    <3>2. Cut(T, p \o q, {} \union {}) BY <3>1, CutTwo
    <3>3. Cut(T, p \o q \o v, {} \union {}) BY <3>1, <3>2, CutTwo
    <3> QED BY <2>4, <3>1, <3>3
  <2> QED BY <2>5, <2>6
<1> QED BY <1>2, <1>3 DEF HoursOrDays

\* A part of a plan that feeds another part of the answer.
LEMMA CutMore ==
  ASSUME NEW T, NEW p, NEW q, NEW A, Cut(T, p, A), Cut(T, q, {})
  PROVE  Cut(T, p \o q, A)
<1>1. PICK E : E = {} OBVIOUS
<1>2. Cut(T, q, E) /\ A \cap E = {} /\ A \union E = A BY <1>1
<1>3. Cut(T, p \o q, A \union E) BY <1>2, CutTwo
<1> QED BY <1>2, <1>3

\* The times an overview may count.
Around(a, b, right) == {t \in Times : a <= t /\ (right \/ t <= b)}

InRange(T, plan, a, b, right, owed) ==
  \E S : Cut(T, plan, S) /\ S \subseteq Around(a, b, right) /\ (DaysOf24Hours => owed \subseteq S)

\* The plan of an overview cuts the times of each part of its answer.
LEMMA OverviewCuts ==
  ASSUME MidnightsAtWholeHours, NEW open,
         NEW a \in Int, NEW b \in Int, NEW s1 \in Int, NEW s2 \in Int, a <= s1, s2 <= b,
         NEW s \in Nat \ {0}, NEW right,
         NEW fs, NEW fe, NEW gs, NEW ge, Whole(a, b, fs, fe, Hour), Whole(s1, s2, gs, ge, s),
         NEW m \in Midnights, m <= a,
         NEW M, OverviewReads(M, a, b, right), OverviewFinds(M, a, b, fs, fe, s1, s2, gs, ge),
         NEW u, u = RawReads(M, <<fs, fe>>, <<gs, ge>>),
         NEW h, HoursOrDays(h, fs, fe),
         NEW plan, plan = u \o h \o Part("sum", fs, fe) \o Part("grid", gs, ge)
  PROVE  /\ InRange(MainTimes(open), plan, a, b, right, IF a < b THEN Span(a, b + 1) ELSE {})
         /\ InRange(TotalTimes(open), plan, a, b, right, IF a < b THEN Span(a, b + 1) ELSE {})
         /\ InRange(GridTimes(open, <<s1, s2>>, s), plan, a, b, right, Span(s1, s2))
<1>1. /\ fs \in Int /\ fe \in Int /\ a <= fs /\ fs <= fe /\ (fe <= b \/ (fs = fe /\ b < fs))
      /\ gs \in Int /\ ge \in Int /\ s1 <= gs /\ gs <= ge /\ (ge <= s2 \/ (gs = ge /\ s2 < gs))
      /\ OnGrid(fs, Hour) /\ OnGrid(fe, Hour) /\ OnGrid(gs, s) /\ OnGrid(ge, s)
  BY DEF Whole, OnGrid
<1>2. m <= fs BY <1>1, WindowAssumption
<1>3. PICK X, Y : X = Part("sum", fs, fe) /\ Y = Part("grid", gs, ge) OBVIOUS
<1>4. plan = u \o h \o X \o Y BY <1>3
<1>5. M \in Seq(WindowSet) BY DEF OverviewReads
<1>6. \A t \in Times : t \in Int BY TimesAre
<1>7. \A k \in DOMAIN u : u[k] \in ReadSet /\ u[k].op = "raw" /\ u[k].skip = <<fs, fe>> /\ u[k].skipGrid = <<gs, ge>>
  <2>1. PICK N : N = Len(M) OBVIOUS
  <2>2. ReadsAre(u, M, a, b, <<fs, fe>>, <<gs, ge>>, TRUE)
    <3>1. <<fs, fe>> \in Int \X Int /\ <<gs, ge>> \in Int \X Int BY <1>1
    <3>2. /\ M \in Seq(WindowSet) /\ \A k \in 1..Len(M) : Fits(M[k], a, b)
          /\ \A j, k \in 1..Len(M) : j < k => M[j].hi < M[k].lo
      BY DEF OverviewReads
    <3> QED BY <3>1, <3>2, RawReadsAre
  <2>3. u \in Seq(ReadSet) /\ DOMAIN u = 1..Len(M)
    BY <2>2 DEF ReadsAre
  <2>4. \A k \in DOMAIN u : u[k] \in ReadSet
    <3>1. \A v \in Seq(ReadSet) : \A k \in DOMAIN v : v[k] \in ReadSet OBVIOUS
    <3> QED BY <2>3, <3>1, Zenon
  <2> QED BY <2>2, <2>3, <2>4 DEF ReadsAre
<1>8. \A t \in Times : Inside(t, fs, fe) => t \in Around(a, b, right)
  BY <1>1, <1>6 DEF Inside, Around
<1>9. \A t \in Times : Inside(t, s1, s2) => t \in Around(a, b, right)
  BY <1>6 DEF Inside, Around
<1>10. \A t \in Times : Inside(t, gs, ge) => Inside(t, s1, s2)
  BY <1>1, <1>6 DEF Inside
<1>11. PICK G : G = {t \in Times : ~Inside(t, fs, fe)} OBVIOUS
<1>12. ASSUME NEW T, TakesRaw(T, u, G, open)
       PROVE  \E R : /\ Cut(T, u, R) /\ R \subseteq G /\ R \subseteq Around(a, b, right)
                     /\ \A t \in Times : a < b /\ Inside(t, a, b + 1) /\ ~Inside(t, fs, fe) => t \in R
  <2>1. PICK R : /\ Cut(T, u, R) /\ R \subseteq G
                 /\ \A t \in R : a <= t /\ (right \/ t <= b)
                 /\ \A t \in G, k \in 1..Len(M) : InRead(t, M[k]) => t \in R
    <3>1. <<fs, fe>> \in Int \X Int /\ <<gs, ge>> \in Int \X Int BY <1>1
    <3>2. G \subseteq Times BY <1>11
    <3>3. \E R : RawsFind(R, T, u, G, M, a, b, right) BY <1>12, <3>1, <3>2, RawCut
    <3> QED BY <3>3, Zenon DEF RawsFind
  <2>2. R \subseteq Around(a, b, right) BY <1>11, <2>1 DEF Around
  <2>3. ASSUME NEW t \in Times, a < b, Inside(t, a, b + 1), ~Inside(t, fs, fe) PROVE t \in R
    <3>1. \E k \in 1..Len(M) : InRead(t, M[k]) BY <1>6, <2>3 DEF OverviewFinds
    <3> QED BY <1>11, <2>1, <2>3, <3>1
  <2> QED BY <2>1, <2>2, <2>3
<1>13. \E S : /\ Cut(MainTimes(open), plan, S) /\ S \subseteq Around(a, b, right)
              /\ DaysOf24Hours /\ a < b => Span(a, b + 1) \subseteq S
  <2>1. PICK T : T = MainTimes(open) OBVIOUS
  <2>2. TakesRaw(T, u, G, open)
    <3> SUFFICES ASSUME NEW k \in DOMAIN u PROVE T[u[k]] = {t \in G : RawTime(t, u[k], open)}
      BY DEF TakesRaw
    <3>1. PICK w : w = u[k] OBVIOUS
    <3>2. w \in ReadSet /\ w.op = "raw" /\ w.skip = <<fs, fe>> BY <1>7, <3>1
    <3>3. \A t \in Times : MainTime(t, w, open) <=> RawTime(t, w, open) /\ ~Inside(t, fs, fe)
      BY <3>2 DEF MainTime
    <3>4. T[w] = {t \in Times : MainTime(t, w, open)} BY <2>1, <3>2 DEF MainTimes
    <3> QED BY <1>11, <3>1, <3>3, <3>4
  <2>3. PICK R : /\ Cut(T, u, R) /\ R \subseteq G /\ R \subseteq Around(a, b, right)
                 /\ \A t \in Times : a < b /\ Inside(t, a, b + 1) /\ ~Inside(t, fs, fe) => t \in R
    BY <1>12, <2>2
  <2>4. PICK H : Cut(T, h, H) /\ H \subseteq Span(fs, fe) /\ (DaysOf24Hours => H = Span(fs, fe))
    BY <1>1, <1>2, <2>1, HoursOrDaysCut
  <2>5. Cut(T, X, {}) /\ Cut(T, Y, {}) BY <1>1, <1>3, <2>1, OpsAre, PartFeedsNot
  <2>6. PICK S : S = R \union H OBVIOUS
  <2>7. Cut(T, plan, S)
    <3>1. R \cap H = {} BY <1>11, <2>3, <2>4 DEF Span
    <3>2. Cut(T, u \o h, S) BY <2>3, <2>4, <2>6, <3>1, CutTwo
    <3> QED BY <1>4, <2>5, <3>2, CutMore
  <2>8. S \subseteq Around(a, b, right) BY <1>8, <2>3, <2>4, <2>6 DEF Span
  <2>9. ASSUME DaysOf24Hours, a < b, NEW t \in Span(a, b + 1) PROVE t \in S
    <3>1. t \in Times /\ Inside(t, a, b + 1) BY DEF Span
    <3>2. CASE Inside(t, fs, fe) BY <2>4, <2>6, <2>9, <3>1, <3>2 DEF Span
    <3>3. CASE ~Inside(t, fs, fe) BY <2>3, <2>6, <2>9, <3>1, <3>3
    <3> QED BY <3>2, <3>3
  <2> QED BY <2>1, <2>7, <2>8, <2>9
<1>14. \E S : /\ Cut(TotalTimes(open), plan, S) /\ S \subseteq Around(a, b, right)
              /\ a < b => Span(a, b + 1) \subseteq S
  <2>1. PICK T : T = TotalTimes(open) OBVIOUS
  <2>2. TakesRaw(T, u, G, open)
    <3> SUFFICES ASSUME NEW k \in DOMAIN u PROVE T[u[k]] = {t \in G : RawTime(t, u[k], open)}
      BY DEF TakesRaw
    <3>1. PICK w : w = u[k] OBVIOUS
    <3>2. w \in ReadSet /\ w.op = "raw" /\ w.skip = <<fs, fe>> BY <1>7, <3>1
    <3>3. \A t \in Times : TotalTime(t, w, open) <=> RawTime(t, w, open) /\ ~Inside(t, fs, fe)
      BY <3>2 DEF TotalTime
    <3>4. T[w] = {t \in Times : TotalTime(t, w, open)} BY <2>1, <3>2 DEF TotalTimes
    <3> QED BY <1>11, <3>1, <3>3, <3>4
  <2>3. PICK R : /\ Cut(T, u, R) /\ R \subseteq G /\ R \subseteq Around(a, b, right)
                 /\ \A t \in Times : a < b /\ Inside(t, a, b + 1) /\ ~Inside(t, fs, fe) => t \in R
    BY <1>12, <2>2
  <2>4. Cut(T, h, {}) BY <1>1, <1>2, <2>1, HoursOrDaysOnly
  <2>5. Cut(T, X, Span(fs, fe)) /\ Cut(T, Y, {}) BY <1>1, <1>3, <2>1, OpsAre, PartFeedsNot, HourPart
  <2>6. PICK S : S = R \union Span(fs, fe) OBVIOUS
  <2>7. Cut(T, plan, S)
    <3>1. R \cap Span(fs, fe) = {} BY <1>11, <2>3 DEF Span
    <3>2. Cut(T, u \o h, R) BY <2>3, <2>4, CutMore
    <3>3. Cut(T, u \o h \o X, S) BY <2>5, <2>6, <3>1, <3>2, CutTwo
    <3> QED BY <1>4, <2>5, <3>3, CutMore
  <2>8. S \subseteq Around(a, b, right) BY <1>8, <2>3, <2>6 DEF Span
  <2>9. ASSUME a < b, NEW t \in Span(a, b + 1) PROVE t \in S
    <3>1. t \in Times /\ Inside(t, a, b + 1) BY DEF Span
    <3>2. CASE Inside(t, fs, fe) BY <2>6, <3>1, <3>2 DEF Span
    <3>3. CASE ~Inside(t, fs, fe) BY <2>3, <2>6, <2>9, <3>1, <3>3
    <3> QED BY <3>2, <3>3
  <2> QED BY <2>1, <2>7, <2>8, <2>9
<1>15. \E S : /\ Cut(GridTimes(open, <<s1, s2>>, s), plan, S) /\ S \subseteq Around(a, b, right)
              /\ Span(s1, s2) \subseteq S
  <2>1. PICK T, V : T = GridTimes(open, <<s1, s2>>, s) /\ V = {t \in Times : Inside(t, s1, s2) /\ ~Inside(t, gs, ge)}
    OBVIOUS
  <2>2. TakesRaw(T, u, V, open)
    <3> SUFFICES ASSUME NEW k \in DOMAIN u PROVE T[u[k]] = {t \in V : RawTime(t, u[k], open)}
      BY DEF TakesRaw
    <3>1. PICK w : w = u[k] OBVIOUS
    <3>2. w \in ReadSet /\ w.op = "raw" /\ w.skipGrid = <<gs, ge>> BY <1>7, <3>1
    <3>3. \A t \in Times : GridTime(t, w, open, <<s1, s2>>, s)
                             <=> RawTime(t, w, open) /\ Inside(t, s1, s2) /\ ~Inside(t, gs, ge)
      BY <3>2 DEF GridTime
    <3>4. T[w] = {t \in Times : GridTime(t, w, open, <<s1, s2>>, s)} BY <2>1, <3>2 DEF GridTimes
    <3> QED BY <2>1, <3>1, <3>3, <3>4
  <2>3. PICK R : /\ Cut(T, u, R) /\ R \subseteq V
                 /\ \A t \in V, k \in 1..Len(M) : InRead(t, M[k]) => t \in R
    <3>1. <<fs, fe>> \in Int \X Int /\ <<gs, ge>> \in Int \X Int BY <1>1
    <3>2. V \subseteq Times BY <2>1
    <3>3. \E R : RawsFind(R, T, u, V, M, a, b, right) BY <2>2, <3>1, <3>2, RawCut
    <3> QED BY <3>3, Zenon DEF RawsFind
  <2>4. Cut(T, h, {}) BY <1>1, <1>2, <2>1, HoursOrDaysOnly
  <2>5. Cut(T, X, {}) BY <1>1, <1>3, <2>1, OpsAre, PartFeedsNot
  <2>6. Cut(T, Y, Span(gs, ge)) BY <1>1, <1>3, <2>1, HealthPart
  <2>7. PICK S : S = R \union Span(gs, ge) OBVIOUS
  <2>8. Cut(T, plan, S)
    <3>1. R \cap Span(gs, ge) = {} BY <2>1, <2>3 DEF Span
    <3>2. Cut(T, u \o h \o X, R) BY <2>3, <2>4, <2>5, CutMore
    <3>3. PICK v, Z : v = u \o h \o X /\ Z = Span(gs, ge) OBVIOUS
    <3>4. Cut(T, v, R) /\ Cut(T, Y, Z) /\ R \cap Z = {} BY <2>6, <3>1, <3>2, <3>3, Zenon
    <3>5. Cut(T, v \o Y, R \union Z) BY <3>4, CutTwo
    <3> QED BY <1>4, <2>7, <3>3, <3>5, Zenon
  <2>9. S \subseteq Around(a, b, right) BY <1>9, <1>10, <2>1, <2>3, <2>7 DEF Span
  <2>10. ASSUME NEW t \in Span(s1, s2) PROVE t \in S
    <3>1. t \in Times /\ t \in Int /\ Inside(t, s1, s2) BY <1>6 DEF Span
    <3>2. CASE Inside(t, gs, ge) BY <2>7, <3>1, <3>2 DEF Span
    <3>3. CASE ~Inside(t, gs, ge)
      <4>1. \E k \in 1..Len(M) : InRead(t, M[k]) BY <3>1, <3>3 DEF OverviewFinds
      <4> QED BY <2>1, <2>3, <2>7, <3>1, <3>3, <4>1
    <3> QED BY <3>2, <3>3
  <2> QED BY <2>1, <2>8, <2>9, <2>10
<1> QED BY <1>13, <1>14, <1>15 DEF InRange

\* A plan keeps to the scope of its query, takes no time twice, and finds what it owes.
Planned(T, F, plan, scope, owed) ==
  /\ plan \in Seq(ReadSet) /\ Apart(T, plan)
  /\ TakenBy(T, plan) \subseteq scope
  /\ DaysOf24Hours => owed \subseteq TakenBy(F, plan)
Plans(plan, shown, span, scope, main, totals, grid) ==
  /\ Planned(MainTimes(TRUE), MainTimes(FALSE), plan, scope, main)
  /\ Planned(TotalTimes(TRUE), TotalTimes(FALSE), plan, scope, totals)
  /\ Planned(GridTimes(TRUE, shown, span), GridTimes(FALSE, shown, span), plan, scope, grid)

\* Cuts that agree within the scope make a plan.
LEMMA PlannedIs ==
  ASSUME NEW T, NEW F, NEW plan, NEW scope, NEW owed, NEW S, NEW R,
         Cut(T, plan, S), Cut(F, plan, R), S \subseteq scope, DaysOf24Hours => owed \subseteq R
  PROVE  Planned(T, F, plan, scope, owed)
BY DEF Planned, Cut

\* The ranges users ask for lie between midnights.
LEMMA AskedRangeIs ==
  ASSUME NEW t \in FirstTime..MaxTime, NEW r \in AskedRanges(t)
  PROVE  /\ r.start \in Int /\ r.end \in Int /\ r.start <= r.end
         /\ (\E m \in Midnights : m <= r.start) /\ (\E m \in Midnights : r.start < m)
         /\ r = AskedRange(r.name, r.start, r.end)
<1>1. FirstTime \in Int /\ MaxTime \in Int /\ t \in Int /\ Midnights \subseteq Int /\ EventTimes \subseteq Int
  BY CacheAssumption, WindowAssumption DEF CacheConstants
<1>2. PICK first \in Midnights, second \in Midnights, last \in Midnights :
        /\ first < second /\ second <= FirstTime /\ MaxTime < last
        /\ \A p \in DOMAIN Presets : first <= FirstTime - Presets[p]
        /\ \A w \in CustomRanges : first <= w[1] /\ w[1] < last
  BY CalendarAssumption
<1>3. first \in Int /\ second \in Int /\ last \in Int /\ second <= t /\ t < last BY <1>1, <1>2
<1>4. ASSUME NEW n, NEW s \in Int, NEW e \in Int, s <= e, first <= s, s < last, r = AskedRange(n, s, e)
      PROVE  /\ r.start \in Int /\ r.end \in Int /\ r.start <= r.end
             /\ (\E m \in Midnights : m <= r.start) /\ (\E m \in Midnights : r.start < m)
             /\ r = AskedRange(r.name, r.start, r.end)
  BY <1>4 DEF AskedRange
<1>5. ASSUME NEW p \in DOMAIN Presets, r = AskedRange(p, t - Presets[p], t)
      PROVE  \E n : \E s, e \in Int : s <= e /\ first <= s /\ s < last /\ r = AskedRange(n, s, e)
  <2>1. Presets[p] \in Nat BY QueryAssumption
  <2>2. first <= FirstTime - Presets[p] BY <1>2
  <2>3. t - Presets[p] \in Int /\ t - Presets[p] <= t /\ first <= t - Presets[p] /\ t - Presets[p] < last
    BY <1>1, <1>3, <2>1, <2>2
  <2> QED BY <1>1, <1>5, <2>3
<1>6. PICK today : today = LocalMidnight(t) OBVIOUS
<1>7. today \in Midnights /\ today \in Int /\ today <= t /\ second <= today
  BY <1>1, <1>3, <1>6, LocalMidnightIs
<1>8. PICK yesterday : yesterday = LocalMidnight(today - 1) OBVIOUS
<1>9. yesterday \in Int /\ first <= yesterday /\ yesterday <= today - 1
  <2>1. today - 1 \in Int /\ first <= today - 1 BY <1>2, <1>3, <1>7
  <2>2. yesterday \in Int /\ yesterday <= today - 1 /\ (first <= yesterday <=> first <= today - 1)
    BY <1>8, <2>1, LocalMidnightIs
  <2> QED BY <2>1, <2>2
<1>10. PICK next : next = NextMidnight(t) OBVIOUS
<1>11. next \in Int /\ t < next BY <1>1, <1>3, <1>10, NextMidnightIs
<1>12. ASSUME r = AskedRange("today", today, next - 1)
       PROVE  \E n : \E s, e \in Int : s <= e /\ first <= s /\ s < last /\ r = AskedRange(n, s, e)
  <2>1. next - 1 \in Int /\ today <= next - 1 /\ first <= today /\ today < last BY <1>1, <1>2, <1>3, <1>7, <1>11
  <2> QED BY <1>7, <1>12, <2>1
<1>13. ASSUME r = AskedRange("yesterday", yesterday, today - 1)
       PROVE  \E n : \E s, e \in Int : s <= e /\ first <= s /\ s < last /\ r = AskedRange(n, s, e)
  <2>1. today - 1 \in Int /\ yesterday < last BY <1>1, <1>3, <1>7, <1>9
  <2> QED BY <1>9, <1>13, <2>1
<1>14. ASSUME NEW w \in CustomRanges, w[1] <= w[2], r = AskedRange("custom", w[1], w[2])
       PROVE  \E n : \E s, e \in Int : s <= e /\ first <= s /\ s < last /\ r = AskedRange(n, s, e)
  <2>1. w[1] \in Int /\ w[2] \in Int BY QueryAssumption
  <2> QED BY <1>2, <1>14, <2>1
<1>15. \/ \E p \in DOMAIN Presets : r = AskedRange(p, t - Presets[p], t)
       \/ r = AskedRange("today", today, next - 1)
       \/ r = AskedRange("yesterday", yesterday, today - 1)
       \/ \E w \in CustomRanges : w[1] <= w[2] /\ r = AskedRange("custom", w[1], w[2])
  BY <1>6, <1>8, <1>10, Zenon DEF AskedRanges
<1>16. \E n : \E s, e \in Int : s <= e /\ first <= s /\ s < last /\ r = AskedRange(n, s, e)
  BY <1>5, <1>12, <1>13, <1>14, <1>15, Zenon
<1>17. PICK n : \E s, e \in Int : s <= e /\ first <= s /\ s < last /\ r = AskedRange(n, s, e) BY <1>16
<1>18. PICK s \in Int, e \in Int : s <= e /\ first <= s /\ s < last /\ r = AskedRange(n, s, e) BY <1>17
<1> QED BY <1>4, <1>18

\* The range of an overview, cut to now.
LEMMA EffectiveIs ==
  ASSUME NEW t \in Int, NEW n, NEW s \in Int, NEW e \in Int, NEW r, r = AskedRange(n, s, e)
  PROVE  /\ Effective(r, t).name = n /\ Effective(r, t).start = s
         /\ Effective(r, t).end \in Int /\ Effective(r, t).end <= t
BY DEF Effective, AskedRange, AtMost

\* The health grid shows a part of the range.
LEMMA HealthGridIs ==
  ASSUME NEW t \in Int, NEW r, r.start \in Int, r.end \in Int, \E m \in Midnights : r.start < m
  PROVE  /\ \E s1, s2 \in Int : HealthGrid(r, t) = <<s1, s2>> /\ r.start <= s1 /\ s2 <= r.end
         /\ GridSpan(r) \in Nat \ {0}
<1>1. PICK a, b : a = r.start /\ b = r.end OBVIOUS
<1>2. NextMidnight(a) \in Int BY <1>1, NextMidnightIs
<1>3. LongSpan \in Nat \ {0} /\ LongWindow \in Int /\ ShortSpan \in Nat \ {0} /\ StdDay \in Int
  BY QueryAssumption, WindowAssumption
<1>4. Truncate(b, LongSpan) \in Int BY <1>1, <1>3, TruncateIs
<1>5. PICK day, whole : day = NextMidnight(a) /\ whole = Truncate(b, LongSpan) + LongSpan OBVIOUS
<1>6. PICK upTo : upTo = IF whole > t THEN b ELSE whole OBVIOUS
<1>7. PICK shown : shown = IF r.name \in {"today", "yesterday"} /\ day <= t THEN <<a, day>>
                           ELSE IF r.name \in ShortRanges THEN <<b - StdDay, b>>
                           ELSE <<upTo - LongWindow, upTo>>
  OBVIOUS
<1>8. day \in Int /\ whole \in Int /\ upTo \in Int BY <1>1, <1>2, <1>3, <1>4, <1>5, <1>6
<1>9. shown[1] \in Int /\ shown[2] \in Int BY <1>1, <1>3, <1>7, <1>8
<1>10. HealthGrid(r, t) = <<AtLeast(shown[1], a), AtMost(shown[2], b)>>
  BY <1>1, <1>5, <1>6, <1>7, Zenon DEF HealthGrid
<1>11. PICK s1, s2 : s1 = AtLeast(shown[1], a) /\ s2 = AtMost(shown[2], b) OBVIOUS
<1>12. s1 \in Int /\ s2 \in Int /\ a <= s1 /\ s2 <= b BY <1>1, <1>9, <1>11 DEF AtLeast, AtMost
<1>13. GridSpan(r) \in Nat \ {0} BY <1>3 DEF GridSpan
<1> QED BY <1>1, <1>10, <1>11, <1>12, <1>13

\* Only the realtime chart is read from the cache alone.
NoRecent(plan) == plan \in Seq(ReadSet) /\ \A k \in 1..Len(plan) : plan[k].op # "recent"

\* Two such plans.
LEMMA NoRecentTwo ==
  ASSUME NEW p, NEW q, NoRecent(p), NoRecent(q)
  PROVE  NoRecent(p \o q)
<1>1. p \in Seq(ReadSet) /\ q \in Seq(ReadSet) BY DEF NoRecent
<1>2. PICK m, n, u : m = Len(p) /\ n = Len(q) /\ u = p \o q OBVIOUS
<1>3. m \in Nat /\ n \in Nat /\ u \in Seq(ReadSet) /\ Len(u) = m + n BY <1>1, <1>2
<1>4. ASSUME NEW k \in 1..(m + n) PROVE u[k].op # "recent"
  <2>1. CASE k <= m
    <3>1. k \in 1..Len(p) /\ u[k] = p[k] BY <1>1, <1>2, <1>3, <2>1
    <3> QED BY <3>1 DEF NoRecent
  <2>2. CASE ~(k <= m)
    <3>1. k - m \in 1..Len(q) /\ u[k] = q[k - m] BY <1>1, <1>2, <1>3, <2>2
    <3> QED BY <3>1 DEF NoRecent
  <2> QED BY <2>1, <2>2
<1> QED BY <1>2, <1>3, <1>4 DEF NoRecent

\* One such read.
LEMMA NoRecentOne == ASSUME NEW s \in ReadSet, s.op # "recent" PROVE NoRecent(<<s>>)
<1>1. <<s>> \in Seq(ReadSet) /\ Len(<<s>>) = 1 /\ <<s>>[1] = s OBVIOUS
<1>2. \A k \in 1..1 : k = 1 OBVIOUS
<1> QED BY <1>1, <1>2 DEF NoRecent

\* A part of a plan.
LEMMA NoRecentPart ==
  ASSUME NEW op \in ReadOps, op # "recent", NEW lo \in Int, NEW hi \in Int
  PROVE  NoRecent(Part(op, lo, hi))
<1>1. CASE lo < hi
  <2>1. Part(op, lo, hi) = <<Read(op, lo, hi)>> BY <1>1 DEF Part
  <2>2. PICK s : s = Read(op, lo, hi) OBVIOUS
  <2>3. s \in ReadSet /\ s.op = op BY <2>2, ReadIs
  <2>4. NoRecent(<<s>>) BY <2>3, NoRecentOne
  <2> QED BY <2>1, <2>2, <2>4
<1>2. CASE ~(lo < hi)
  <2>1. Part(op, lo, hi) = <<>> BY <1>2 DEF Part
  <2>2. <<>> \in Seq(ReadSet) /\ Len(<<>>) = 0 /\ 1..0 = {} OBVIOUS
  <2> QED BY <2>1, <2>2 DEF NoRecent
<1> QED BY <1>1, <1>2

\* Whole hours and days.
LEMMA NoRecentHours ==
  ASSUME MidnightsAtWholeHours, NEW fs, NEW fe, OnGrid(fs, Hour), OnGrid(fe, Hour), fs <= fe,
         NEW m \in Midnights, m <= fs, NEW h, HoursOrDays(h, fs, fe)
  PROVE  NoRecent(h)
<1>1. fs \in Int /\ fe \in Int BY DEF OnGrid
<1>2. PICK ds, de : ds = FullDayStart(fs) /\ de = FullDayEnd(fs, fe) OBVIOUS
<1>3. OnGrid(ds, Hour) /\ OnGrid(de, Hour) BY <1>2, WholeDays
<1>4. ds \in Int /\ de \in Int BY <1>3 DEF OnGrid
<1>5. PICK p, q, v : p = Part("day", ds, de) /\ q = Part("hour", fs, ds) /\ v = Part("hour", de, fe) OBVIOUS
<1>6. NoRecent(p) /\ NoRecent(q) /\ NoRecent(v) BY <1>1, <1>4, <1>5, OpsAre, NoRecentPart
<1>7. NoRecent(p \o q) BY <1>6, NoRecentTwo
<1>8. NoRecent((p \o q) \o v) BY <1>6, <1>7, NoRecentTwo
<1>9. NoRecent(Part("hour", fs, fe)) BY <1>1, OpsAre, NoRecentPart
<1>10. h = Part("hour", fs, fe) \/ h = p \o q \o v BY <1>2, <1>5, Zenon DEF HoursOrDays, DaysAndHours
<1> QED BY <1>8, <1>9, <1>10

\* An overview is planned soundly.
LEMMA OverviewPlans ==
  ASSUME MidnightsAtWholeHours, NEW t \in FirstTime..MaxTime, NEW asked \in AskedRanges(t),
         NEW r, r = Effective(asked, t), NEW owed, owed = IF r.start < r.end THEN Span(r.start, r.end + 1) ELSE {},
         NEW shown, shown = HealthGrid(r, t)
  PROVE  /\ Plans(OverviewPlan(asked, t), shown, GridSpan(r),
                  r.start..(IF CurrentRight(asked, t) THEN MaxTime ELSE r.end),
                  owed, owed, Span(shown[1], shown[2]))
         /\ NoRecent(OverviewPlan(asked, t))
<1>1. t \in Int BY CacheAssumption DEF CacheConstants
<1>2. /\ asked.start \in Int /\ asked.end \in Int
      /\ (\E m \in Midnights : m <= asked.start) /\ (\E m \in Midnights : asked.start < m)
      /\ asked = AskedRange(asked.name, asked.start, asked.end)
  BY AskedRangeIs
<1>3. r.start = asked.start /\ r.end \in Int BY <1>1, <1>2, EffectiveIs
<1>4. PICK a, b : a = r.start /\ b = r.end OBVIOUS
<1>5. a \in Int /\ b \in Int /\ \E m \in Midnights : a < m BY <1>2, <1>3, <1>4
<1>6. PICK m \in Midnights : m <= a BY <1>2, <1>3, <1>4
<1>7. /\ \E s1, s2 \in Int : shown = <<s1, s2>> /\ a <= s1 /\ s2 <= b
      /\ GridSpan(r) \in Nat \ {0}
  BY <1>1, <1>4, <1>5, HealthGridIs
<1>8. PICK s1 \in Int, s2 \in Int : shown = <<s1, s2>> /\ a <= s1 /\ s2 <= b BY <1>7
<1>9. PICK s : s = GridSpan(r) OBVIOUS
<1>10. s \in Nat \ {0} /\ shown[1] = s1 /\ shown[2] = s2 BY <1>7, <1>8, <1>9
<1>11. PICK fs, fe, gs, ge : /\ fs = FullHourStart(a) /\ fe = FullHourEnd(a, b)
                             /\ gs = FullHealthStart(s1, s) /\ ge = FullHealthEnd(s1, s2, s)
  OBVIOUS
<1>12. Whole(a, b, fs, fe, Hour) BY <1>5, <1>11, WholeHours
<1>13. Whole(s1, s2, gs, ge, s) BY <1>10, <1>11, WholeHealth
<1>14. PICK right : right = CurrentRight(asked, t) OBVIOUS
<1>15. right \in BOOLEAN BY <1>14 DEF CurrentRight
<1>16. PICK M : M = MergeWindows(BoundaryWindows(a, b, fs, fe, TRUE, right)
                                 \o BoundaryWindows(s1, s2, gs, ge, FALSE, FALSE))
  OBVIOUS
<1>17. OverviewReads(M, a, b, right) /\ OverviewFinds(M, a, b, fs, fe, s1, s2, gs, ge)
  <2>1. CASE right = TRUE
    <3>1. OverviewReads(M, a, b, TRUE) /\ OverviewFinds(M, a, b, fs, fe, s1, s2, gs, ge)
      BY <1>5, <1>8, <1>10, <1>12, <1>13, <1>16, <2>1, OverviewWindows
    <3> QED BY <2>1, <3>1, Zenon
  <2>2. CASE right = FALSE
    <3>1. OverviewReads(M, a, b, FALSE) /\ OverviewFinds(M, a, b, fs, fe, s1, s2, gs, ge)
      BY <1>5, <1>8, <1>10, <1>12, <1>13, <1>16, <2>2, OverviewWindows
    <3> QED BY <2>2, <3>1, Zenon
  <2> QED BY <1>15, <2>1, <2>2
<1>18. PICK u : u = RawReads(M, <<fs, fe>>, <<gs, ge>>) OBVIOUS
<1>19. PICK h : h = IF ByDay(r) /\ FullDayEnd(fs, fe) > FullDayStart(fs)
                    THEN DaysAndHours(fs, fe) ELSE Part("hour", fs, fe)
  OBVIOUS
<1>20. HoursOrDays(h, fs, fe)
  <2>1. FullDayEnd(fs, fe) > FullDayStart(fs) => FullDayStart(fs) < FullDayEnd(fs, fe) OBVIOUS
  <2> QED BY <1>19, <2>1 DEF HoursOrDays
<1>21. PICK plan : plan = u \o h \o Part("sum", fs, fe) \o Part("grid", gs, ge) OBVIOUS
<1>22. OverviewPlan(asked, t) = plan
  <2>1. RawEventWindows(r, shown, fs, fe, right) = M
    BY <1>4, <1>9, <1>10, <1>11, <1>16, Zenon DEF RawEventWindows
  <2> QED BY <1>4, <1>9, <1>10, <1>11, <1>14, <1>18, <1>19, <1>21, <2>1, Zenon DEF OverviewPlan, RawReads
<1>23. PICK scope : scope = a..(IF right THEN MaxTime ELSE b) OBVIOUS
<1>24. Around(a, b, right) \subseteq scope
  <2> SUFFICES ASSUME NEW n \in Times, a <= n, right \/ n <= b PROVE n \in scope BY DEF Around
  <2>1. n \in Int /\ n <= MaxTime /\ MaxTime \in Int BY TimesAre, CacheAssumption DEF CacheConstants
  <2>2. CASE right BY <1>5, <1>23, <2>1, <2>2
  <2>3. CASE ~right BY <1>5, <1>23, <2>1, <2>3
  <2> QED BY <2>2, <2>3
<1>25. ASSUME NEW open
       PROVE  /\ InRange(MainTimes(open), plan, a, b, right, owed)
              /\ InRange(TotalTimes(open), plan, a, b, right, owed)
              /\ InRange(GridTimes(open, shown, s), plan, a, b, right, Span(s1, s2))
  <2>1. owed = IF a < b THEN Span(a, b + 1) ELSE {} BY <1>4
  <2>2. /\ InRange(MainTimes(open), plan, a, b, right, IF a < b THEN Span(a, b + 1) ELSE {})
        /\ InRange(TotalTimes(open), plan, a, b, right, IF a < b THEN Span(a, b + 1) ELSE {})
        /\ InRange(GridTimes(open, <<s1, s2>>, s), plan, a, b, right, Span(s1, s2))
    BY <1>5, <1>6, <1>8, <1>10, <1>12, <1>13, <1>17, <1>18, <1>20, <1>21, OverviewCuts
  <2> QED BY <1>8, <2>1, <2>2, Zenon
<1>26. ASSUME NEW T, NEW F, NEW due, InRange(T, plan, a, b, right, due), InRange(F, plan, a, b, right, due)
       PROVE  Planned(T, F, plan, scope, due)
  BY <1>24, <1>26, PlannedIs DEF InRange
<1>27. Plans(plan, shown, s, scope, owed, owed, Span(s1, s2)) BY <1>25, <1>26 DEF Plans
<1>28. NoRecent(plan)
  <2>1. /\ fs \in Int /\ fe \in Int /\ a <= fs /\ fs <= fe /\ gs \in Int /\ ge \in Int
        /\ OnGrid(fs, Hour) /\ OnGrid(fe, Hour)
    BY <1>12, <1>13 DEF Whole, OnGrid
  <2>2. /\ M \in Seq(WindowSet) /\ \A k \in 1..Len(M) : Fits(M[k], a, b)
        /\ \A j, k \in 1..Len(M) : j < k => M[j].hi < M[k].lo
    BY <1>17 DEF OverviewReads
  <2>3. PICK g, f : g = <<fs, fe>> /\ f = <<gs, ge>> OBVIOUS
  <2>4. g \in Int \X Int /\ f \in Int \X Int BY <2>1, <2>3
  <2>5. u = RawReads(M, g, f) BY <1>18, <2>3
  <2>6. ReadsAre(u, M, a, b, g, f, TRUE) BY <1>5, <2>2, <2>4, <2>5, RawReadsAre
  <2>7. NoRecent(u)
    <3>1. u \in Seq(ReadSet) /\ DOMAIN u = 1..Len(M) /\ \A k \in 1..Len(M) : u[k].op = "raw"
      BY <2>6 DEF ReadsAre
    <3>2. 1..Len(u) = DOMAIN u BY <3>1
    <3> QED BY <3>1, <3>2 DEF NoRecent
  <2>8. m \in Int /\ m <= fs BY <1>5, <1>6, <2>1, WindowAssumption
  <2>9. NoRecent(h) BY <1>6, <1>20, <2>1, <2>8, NoRecentHours
  <2>10. PICK x, y : x = Part("sum", fs, fe) /\ y = Part("grid", gs, ge) OBVIOUS
  <2>11. NoRecent(x) /\ NoRecent(y) BY <2>1, <2>10, OpsAre, NoRecentPart
  <2>12. NoRecent(u \o h) BY <2>7, <2>9, NoRecentTwo
  <2>13. NoRecent((u \o h) \o x) BY <2>11, <2>12, NoRecentTwo
  <2>14. NoRecent(((u \o h) \o x) \o y) BY <2>11, <2>13, NoRecentTwo
  <2> QED BY <1>21, <2>10, <2>14
<1> QED BY <1>4, <1>9, <1>10, <1>14, <1>22, <1>23, <1>27, <1>28

\* The plans that are not an overview's have no health grid.
NoGrid == <<0, 0>>

\* A read of single events up to and including the end of its window.
LEMMA ClosedRead ==
  ASSUME NEW open, NEW op \in {"latency", "count", "list"}, NEW lo \in Int, NEW hi \in Int,
         NEW s, s = [Read(op, lo, hi) EXCEPT !.closed = TRUE]
  PROVE  /\ s \in ReadSet /\ s.op = op
         /\ Cut(MainTimes(open), <<s>>, IF op = "list" THEN Span(lo, hi + 1) ELSE {})
         /\ Cut(TotalTimes(open), <<s>>, IF op = "list" THEN {} ELSE Span(lo, hi + 1))
         /\ Cut(GridTimes(open, NoGrid, 1), <<s>>, {})
<1>1. op \in ReadOps BY OpsAre
<1>2. s \in ReadSet /\ s.op = op /\ s.lo = lo /\ s.hi = hi /\ s.closed = TRUE BY <1>1 DEF Read, ReadSet
<1>3. \A t \in Times : InRead(t, s) <=> Inside(t, lo, hi + 1)
  <2> SUFFICES ASSUME NEW t \in Times PROVE InRead(t, s) <=> Inside(t, lo, hi + 1) OBVIOUS
  <2>1. t \in Int BY TimesAre
  <2> QED BY <1>2, <2>1 DEF InRead, Inside
<1>4. op = "list" => MainTimes(open)[s] = Span(lo, hi + 1)
  <2> SUFFICES ASSUME op = "list" PROVE MainTimes(open)[s] = Span(lo, hi + 1) OBVIOUS
  <2>1. \A t \in Times : MainTime(t, s, open) <=> InRead(t, s) BY <1>2 DEF MainTime
  <2>2. MainTimes(open)[s] = {t \in Times : MainTime(t, s, open)} BY <1>2 DEF MainTimes
  <2> QED BY <1>3, <2>1, <2>2 DEF Span
<1>5. op # "list" => TotalTimes(open)[s] = Span(lo, hi + 1)
  <2> SUFFICES ASSUME op # "list" PROVE TotalTimes(open)[s] = Span(lo, hi + 1) OBVIOUS
  <2>1. \A t \in Times : TotalTime(t, s, open) <=> InRead(t, s) BY <1>2 DEF TotalTime
  <2>2. TotalTimes(open)[s] = {t \in Times : TotalTime(t, s, open)} BY <1>2 DEF TotalTimes
  <2> QED BY <1>3, <2>1, <2>2 DEF Span
<1>6. /\ op # "list" => MainTimes(open)[s] = {}
      /\ op = "list" => TotalTimes(open)[s] = {}
      /\ GridTimes(open, NoGrid, 1)[s] = {}
  <2>1. /\ s.op \in {"sum", "grid", "latency", "count"} => MainTimes(open)[s] = {}
        /\ s.op \in {"hour", "day", "event", "list", "recent", "grid"} => TotalTimes(open)[s] = {}
        /\ s.op \in {"hour", "day", "event", "list", "sum", "latency", "count"}
             => GridTimes(open, NoGrid, 1)[s] = {}
    BY <1>2, FeedsNot, Zenon
  <2> QED BY <1>2, <2>1, Zenon
<1>7. /\ Cut(MainTimes(open), <<s>>, MainTimes(open)[s])
      /\ Cut(TotalTimes(open), <<s>>, TotalTimes(open)[s])
      /\ Cut(GridTimes(open, NoGrid, 1), <<s>>, GridTimes(open, NoGrid, 1)[s])
  BY <1>2, CutOne
<1>8. Cut(MainTimes(open), <<s>>, IF op = "list" THEN Span(lo, hi + 1) ELSE {}) BY <1>4, <1>6, <1>7, Zenon
<1>9. Cut(TotalTimes(open), <<s>>, IF op = "list" THEN {} ELSE Span(lo, hi + 1)) BY <1>5, <1>6, <1>7, Zenon
<1>10. Cut(GridTimes(open, NoGrid, 1), <<s>>, {}) BY <1>6, <1>7, Zenon
<1> QED BY <1>2, <1>8, <1>9, <1>10

\* One sequence of one read after another.
LEMMA TwoReads ==
  ASSUME NEW c \in ReadSet, NEW l \in ReadSet
  PROVE  <<c, l>> = <<c>> \o <<l>>
<1>1. PICK u : u = <<c>> \o <<l>> OBVIOUS
<1>2. <<c>> \in Seq(ReadSet) /\ <<l>> \in Seq(ReadSet) /\ Len(<<c>>) = 1 /\ Len(<<l>>) = 1 OBVIOUS
<1>3. u \in Seq(ReadSet) /\ Len(u) = 2 BY <1>1, <1>2
<1>4. u[1] = c /\ u[2] = l BY <1>1, <1>2
<1>5. PICK v : v = <<c, l>> OBVIOUS
<1>6. v \in Seq(ReadSet) /\ Len(v) = 2 /\ v[1] = c /\ v[2] = l BY <1>5
<1>7. \A i \in 1..2 : u[i] = v[i]
  <2>1. 1..2 = {1, 2} OBVIOUS
  <2> QED BY <1>4, <1>6, <2>1
<1>8. u = v BY <1>3, <1>6, <1>7
<1> QED BY <1>1, <1>5, <1>8

\* Ranges that meet.
LEMMA SpansMeet ==
  ASSUME NEW lo \in Int, NEW m \in Int, NEW hi \in Int
  PROVE  /\ lo <= m /\ m <= hi => Span(lo, m) \cup Span(m, hi) = Span(lo, hi)
         /\ Span(lo, m) \cap Span(m, hi) = {}
         /\ ~(lo < m) => Span(lo, m) = {}
<1>1. \A t \in Times : t \in Int BY TimesAre
<1>2. \A t, p, q : t \in Span(p, q) <=> t \in Times /\ Inside(t, p, q) BY DEF Span
<1>3. lo <= m /\ m <= hi => \A t \in Times : Inside(t, lo, hi) <=> Inside(t, lo, m) \/ Inside(t, m, hi)
  BY <1>1 DEF Inside
<1>4. \A t \in Times : ~(Inside(t, lo, m) /\ Inside(t, m, hi)) BY <1>1 DEF Inside
<1>5. ~(lo < m) => \A t \in Times : ~Inside(t, lo, m) BY <1>1 DEF Inside
<1>6. lo <= m /\ m <= hi => Span(lo, m) \cup Span(m, hi) = Span(lo, hi) BY <1>2, <1>3, Zenon
<1>7. Span(lo, m) \cap Span(m, hi) = {} BY <1>2, <1>4, Zenon
<1>8. ~(lo < m) => Span(lo, m) = {} BY <1>2, <1>5, Zenon
<1> QED BY <1>6, <1>7, <1>8

\* The times of a range are numbers in it.
LEMMA SpanIs ==
  ASSUME NEW lo \in Int, NEW hi \in Int
  PROVE  Span(lo, hi + 1) \subseteq lo..hi /\ Span(lo, hi) \subseteq lo..(hi - 1)
<1> SUFFICES ASSUME NEW t \in Times
             PROVE  (Inside(t, lo, hi + 1) => t \in lo..hi) /\ (Inside(t, lo, hi) => t \in lo..(hi - 1))
  BY DEF Span
<1>1. t \in Int BY TimesAre
<1> QED BY <1>1 DEF Inside

\* A plan whose reads never look past its end is cut alike with and without it.
LEMMA PlansAre ==
  ASSUME NEW plan, NEW scope, NEW A, NEW B, NEW C, A \subseteq scope, B \subseteq scope, C \subseteq scope,
         \A open : /\ Cut(MainTimes(open), plan, A) /\ Cut(TotalTimes(open), plan, B)
                   /\ Cut(GridTimes(open, NoGrid, 1), plan, C)
  PROVE  Plans(plan, NoGrid, 1, scope, A, B, C)
<1>1. Planned(MainTimes(TRUE), MainTimes(FALSE), plan, scope, A) BY PlannedIs
<1>2. Planned(TotalTimes(TRUE), TotalTimes(FALSE), plan, scope, B) BY PlannedIs
<1>3. Planned(GridTimes(TRUE, NoGrid, 1), GridTimes(FALSE, NoGrid, 1), plan, scope, C) BY PlannedIs
<1> QED BY <1>1, <1>2, <1>3 DEF Plans

\* A page and an export are planned soundly.
LEMMA PagePlans ==
  ASSUME NEW r, NEW a \in Int, NEW b \in Int, r.start = a, r.end = b
  PROVE  /\ Plans(PagePlan(r), NoGrid, 1, a..b, Span(a, b + 1), Span(a, b + 1), {})
         /\ Plans(ExportPlan(r), NoGrid, 1, a..b, Span(a, b + 1), {}, {})
         /\ NoRecent(PagePlan(r)) /\ NoRecent(ExportPlan(r))
<1>1. PICK c, l : c = [Read("count", a, b) EXCEPT !.closed = TRUE] /\ l = [Read("list", a, b) EXCEPT !.closed = TRUE]
  OBVIOUS
<1>2. PagePlan(r) = <<c>> \o <<l>> /\ ExportPlan(r) = <<l>>
  <2>1. PagePlan(r) = <<c, l>> BY <1>1 DEF PagePlan
  <2>2. c \in ReadSet /\ l \in ReadSet BY <1>1, ClosedRead
  <2>3. <<c, l>> = <<c>> \o <<l>> BY <2>2, TwoReads
  <2> QED BY <1>1, <2>1, <2>3 DEF ExportPlan
<1>3. ASSUME NEW open
      PROVE  /\ Cut(MainTimes(open), <<c>>, {}) /\ Cut(TotalTimes(open), <<c>>, Span(a, b + 1))
             /\ Cut(GridTimes(open, NoGrid, 1), <<c>>, {})
  BY <1>1, ClosedRead
<1>4. ASSUME NEW open
      PROVE  /\ Cut(MainTimes(open), <<l>>, Span(a, b + 1)) /\ Cut(TotalTimes(open), <<l>>, {})
             /\ Cut(GridTimes(open, NoGrid, 1), <<l>>, {})
  BY <1>1, ClosedRead
<1>5. ASSUME NEW open
      PROVE  /\ Cut(MainTimes(open), <<c>> \o <<l>>, Span(a, b + 1))
             /\ Cut(TotalTimes(open), <<c>> \o <<l>>, Span(a, b + 1))
             /\ Cut(GridTimes(open, NoGrid, 1), <<c>> \o <<l>>, {})
  <2>1. Cut(MainTimes(open), <<c>> \o <<l>>, {} \cup Span(a, b + 1))
    <3>1. {} \cap Span(a, b + 1) = {} OBVIOUS
    <3> QED BY <1>3, <1>4, <3>1, CutTwo
  <2>2. {} \cup Span(a, b + 1) = Span(a, b + 1) OBVIOUS
  <2>3. Cut(TotalTimes(open), <<c>> \o <<l>>, Span(a, b + 1)) BY <1>3, <1>4, CutMore
  <2>4. Cut(GridTimes(open, NoGrid, 1), <<c>> \o <<l>>, {}) BY <1>3, <1>4, CutMore
  <2> QED BY <2>1, <2>2, <2>3, <2>4
<1>6. Span(a, b + 1) \subseteq a..b /\ {} \subseteq a..b BY SpanIs
<1>7. Plans(<<c>> \o <<l>>, NoGrid, 1, a..b, Span(a, b + 1), Span(a, b + 1), {}) BY <1>5, <1>6, PlansAre
<1>8. Plans(<<l>>, NoGrid, 1, a..b, Span(a, b + 1), {}, {}) BY <1>4, <1>6, PlansAre
<1>9. NoRecent(<<c>>) /\ NoRecent(<<l>>)
  <2>1. c \in ReadSet /\ c.op = "count" BY <1>1, OpsAre DEF Read, ReadSet
  <2>2. l \in ReadSet /\ l.op = "list" BY <1>1, OpsAre DEF Read, ReadSet
  <2> QED BY <2>1, <2>2, NoRecentOne
<1>10. NoRecent(<<c>> \o <<l>>) BY <1>9, NoRecentTwo
<1> QED BY <1>2, <1>7, <1>8, <1>9, <1>10

\* A quota window is planned soundly.
LEMMA QuotaPlans ==
  ASSUME NEW a \in Int, NEW b \in Int, a < b
  PROVE  /\ Plans(QuotaPlan(a, b), NoGrid, 1, a..(b - 1), Span(a, b), {}, {})
         /\ NoRecent(QuotaPlan(a, b))
<1>1. Hour \in Nat \ {0} BY WindowAssumption
<1>2. PICK le, rs : le = QuotaLeftEnd(a, b) /\ rs = QuotaRightStart(a, b) OBVIOUS
<1>3. PICK c, e : c = CeilHour(a) /\ e = Truncate(b, Hour) - Hour OBVIOUS
<1>4. OnGrid(c, Hour) /\ c \in Int /\ a <= c
  <2>1. PICK g : g = Truncate(a, Hour) OBVIOUS
  <2>2. OnGrid(g, Hour) /\ g \in Int /\ g <= a /\ a < g + Hour BY <1>1, <2>1, TruncateIs
  <2>3. OnGrid(g + Hour, Hour) BY <1>1, <2>2, GridSteps
  <2> QED BY <1>1, <1>3, <2>1, <2>2, <2>3 DEF CeilHour
<1>5. OnGrid(e, Hour) /\ e \in Int /\ e <= b
  <2>1. PICK g : g = Truncate(b, Hour) OBVIOUS
  <2>2. OnGrid(g, Hour) /\ g \in Int /\ g <= b BY <1>1, <2>1, TruncateIs
  <2>3. OnGrid(g - Hour, Hour) BY <1>1, <2>2, GridSteps
  <2> QED BY <1>1, <1>3, <2>1, <2>2, <2>3
<1>6. le = (IF c < b THEN c ELSE b) /\ rs = AtLeast(AtLeast(e, a), le)
  BY <1>2, <1>3, Zenon DEF QuotaLeftEnd, QuotaRightStart, AtMost
<1>7. /\ le \in Int /\ rs \in Int /\ a <= le /\ le <= rs /\ rs <= b
      /\ le < rs => OnGrid(le, Hour) /\ OnGrid(rs, Hour)
  <2>1. le \in Int /\ a <= le /\ le <= b BY <1>4, <1>6
  <2>2. rs \in Int /\ le <= rs /\ rs <= b BY <1>5, <1>6, <2>1 DEF AtLeast
  <2>3. ASSUME le < rs PROVE rs = e BY <1>5, <1>6, <2>1, <2>3 DEF AtLeast
  <2>4. ASSUME le < rs PROVE le = c BY <1>4, <1>6, <2>1, <2>2, <2>4
  <2> QED BY <1>4, <1>5, <2>1, <2>2, <2>3, <2>4
<1>8. PICK x, y, z, w : /\ x = Part("event", a, le) /\ y = Part("hour", le, rs) /\ z = Part("event", rs, b)
                        /\ w = Part("event", a, b)
  OBVIOUS
<1>9. QuotaPlan(a, b) = w \/ QuotaPlan(a, b) = x \o y \o z BY <1>2, <1>8, Zenon DEF QuotaPlan
<1>10. ASSUME NEW open
       PROVE  Cut(MainTimes(open), x, Span(a, le)) /\ Cut(MainTimes(open), z, Span(rs, b))
  BY <1>7, <1>8, EventPart
<1>11. ASSUME NEW open PROVE Cut(MainTimes(open), y, Span(le, rs))
  <2>1. CASE le < rs BY <1>7, <1>8, <2>1, HourPart
  <2>2. CASE ~(le < rs)
    <3>1. y = <<>> BY <1>8, <2>2 DEF Part
    <3>2. Span(le, rs) = {} BY <1>7, <2>2, SpansMeet
    <3> QED BY <3>1, <3>2, CutNone
  <2> QED BY <2>1, <2>2
<1>12. /\ Span(a, le) \cup Span(le, rs) = Span(a, rs) /\ Span(a, rs) \cup Span(rs, b) = Span(a, b)
       /\ Span(a, le) \cap Span(le, rs) = {} /\ Span(a, rs) \cap Span(rs, b) = {}
  <2>1. Span(a, le) \cup Span(le, rs) = Span(a, rs) /\ Span(a, le) \cap Span(le, rs) = {} BY <1>7, SpansMeet
  <2>2. a <= rs BY <1>7
  <2>3. Span(a, rs) \cup Span(rs, b) = Span(a, b) /\ Span(a, rs) \cap Span(rs, b) = {}
    BY <1>7, <2>2, SpansMeet
  <2> QED BY <2>1, <2>3
<1>13. ASSUME NEW open
       PROVE  /\ Cut(MainTimes(open), x \o y \o z, Span(a, b))
              /\ Cut(TotalTimes(open), x \o y \o z, {})
              /\ Cut(GridTimes(open, NoGrid, 1), x \o y \o z, {})
  <2>1. Cut(MainTimes(open), x \o y, Span(a, rs)) BY <1>10, <1>11, <1>12, CutTwo
  <2>2. Cut(MainTimes(open), (x \o y) \o z, Span(a, b)) BY <1>10, <1>12, <2>1, CutTwo
  <2>3. /\ Cut(TotalTimes(open), x, {}) /\ Cut(TotalTimes(open), y, {}) /\ Cut(TotalTimes(open), z, {})
        /\ Cut(GridTimes(open, NoGrid, 1), x, {}) /\ Cut(GridTimes(open, NoGrid, 1), y, {})
        /\ Cut(GridTimes(open, NoGrid, 1), z, {})
    BY <1>7, <1>8, OpsAre, PartFeedsNot
  <2>4. Cut(TotalTimes(open), x \o y, {}) /\ Cut(GridTimes(open, NoGrid, 1), x \o y, {}) BY <2>3, CutMore
  <2>5. Cut(TotalTimes(open), (x \o y) \o z, {}) /\ Cut(GridTimes(open, NoGrid, 1), (x \o y) \o z, {})
    BY <2>3, <2>4, CutMore
  <2> QED BY <2>2, <2>5
<1>14. ASSUME NEW open
       PROVE  /\ Cut(MainTimes(open), w, Span(a, b)) /\ Cut(TotalTimes(open), w, {})
              /\ Cut(GridTimes(open, NoGrid, 1), w, {})
  BY <1>8, OpsAre, EventPart, PartFeedsNot
<1>15. Span(a, b) \subseteq a..(b - 1) /\ {} \subseteq a..(b - 1) BY SpanIs
<1>16. Plans(w, NoGrid, 1, a..(b - 1), Span(a, b), {}, {}) BY <1>14, <1>15, PlansAre
<1>17. Plans(x \o y \o z, NoGrid, 1, a..(b - 1), Span(a, b), {}, {}) BY <1>13, <1>15, PlansAre
<1>18. NoRecent(w) /\ NoRecent(x) /\ NoRecent(y) /\ NoRecent(z) BY <1>7, <1>8, OpsAre, NoRecentPart
<1>19. NoRecent(x \o y) BY <1>18, NoRecentTwo
<1>20. NoRecent((x \o y) \o z) BY <1>18, <1>19, NoRecentTwo
<1> QED BY <1>9, <1>16, <1>17, <1>18, <1>20

\* The rolling average has enough buckets, and reads no more of the past than the cache keeps.
LEMMA RollingBuckets ==
  /\ RollingCount \in Nat \ {0} /\ WarmupCount \in Nat /\ WarmupCount = RollingCount - 1
  /\ RealtimeSpan * RollingCount \in Nat /\ WarmupCount * RealtimeSpan \in Nat
  /\ RealtimeSpan * RollingCount = WarmupCount * RealtimeSpan + RealtimeSpan
  /\ RealtimeAggregation <= RealtimeSpan * RollingCount
  /\ WarmupCount * RealtimeSpan <= RealtimeAggregation
<1>1. PICK s, g : s = RealtimeSpan /\ g = RealtimeAggregation OBVIOUS
<1>2. s \in Nat \ {0} /\ g \in Nat BY <1>1, QueryAssumption
<1>3. PICK q : q = (g + s - 1) \div s OBVIOUS
<1>4. q \in Int /\ s * q <= g + s - 1 /\ g + s - 1 < s * q + s
  <2>1. PICK n \in Int : n = g + s - 1 BY <1>2
  <2>2. n = s * (n \div s) + (n % s) /\ n % s \in 0..(s - 1) /\ n \div s \in Int BY <1>2
  <2>3. s * (n \div s) \in Int BY <1>2, <2>2
  <2> QED BY <1>2, <1>3, <2>1, <2>2, <2>3
<1>5. PICK c : c = RollingCount OBVIOUS
<1>6. c = IF 1 < q THEN q ELSE 1 BY <1>1, <1>3, <1>5, Zenon DEF RollingCount, AtLeast
<1>7. c \in Nat \ {0} BY <1>4, <1>6
<1>8. s * c \in Nat /\ s * (c - 1) = s * c - s /\ s * (c - 1) = (c - 1) * s BY <1>2, <1>7
<1>9. g <= s * c /\ s * c - s <= g
  <2>1. CASE 1 < q
    <3>1. c = q BY <1>6, <2>1
    <3>2. s * c \in Int BY <1>8
    <3> QED BY <1>2, <1>4, <3>1, <3>2
  <2>2. CASE ~(1 < q)
    <3>1. c = 1 /\ q <= 1 BY <1>4, <1>6, <2>2
    <3>2. s * c = s BY <1>2, <3>1
    <3>3. s * q <= s
      <4>1. s * 1 = s /\ s * q \in Int BY <1>2, <1>4
      <4>2. CASE q = 1 BY <1>2, <4>1, <4>2
      <4>3. CASE q < 1
        <5>1. ~(s * q - s * 1 >= s)
          <6> SUFFICES ASSUME s * q - s * 1 >= s PROVE FALSE OBVIOUS
          <6>1. s * 1 - s * q < s BY <1>2, <4>1
          <6>2. 1 <= q BY <1>2, <1>4, <6>1, Multiples
          <6> QED BY <1>4, <4>3, <6>2
        <5>2. s * (q + 1) = s * q + s /\ q + 1 <= 1 /\ q + 1 \in Int BY <1>2, <1>4, <4>3
        <5>3. s * q <= 0
          <6> SUFFICES ASSUME s * q > 0 PROVE FALSE BY <4>1
          <6>1. s * 0 = 0 /\ s * 0 - s * q < s BY <1>2, <4>1
          <6>2. 0 <= q BY <1>2, <1>4, <6>1, Multiples
          <6>3. q = 0 BY <1>4, <4>3, <6>2
          <6> QED BY <1>2, <6>3
        <5> QED BY <1>2, <4>1, <5>3
      <4> QED BY <1>4, <3>1, <4>2, <4>3
    <3> QED BY <1>2, <1>4, <3>2, <3>3
  <2> QED BY <2>1, <2>2
<1> QED BY <1>1, <1>2, <1>5, <1>7, <1>8, <1>9 DEF WarmupCount

\* The events of the aggregation window are in the buckets of the chart's first point.
LEMMA FirstBuckets ==
  ASSUME NEW x \in Int, NEW lo \in Int, lo <= x, x < lo + RealtimeSpan * RollingCount
  PROVE  BucketIndex(x, lo) \in FirstPoint
<1>1. PICK s, c, w : s = RealtimeSpan /\ c = RollingCount /\ w = RealtimeWindow \div RealtimeSpan OBVIOUS
<1>2. s \in Nat \ {0} /\ c \in Nat \ {0} /\ WarmupCount = c - 1 /\ s * c \in Nat
  BY <1>1, QueryAssumption, RollingBuckets
<1>3. w \in Int /\ 1 <= w
  <2>1. RealtimeWindow \in Nat \ {0} /\ RealtimeWindow % s = 0 BY <1>1, QueryAssumption
  <2>2. RealtimeWindow = s * w + 0 /\ w \in Int BY <1>1, <1>2, <2>1
  <2>3. s * w \in Int /\ s * 0 = 0 /\ s * w > 0 BY <1>2, <2>1, <2>2
  <2>4. s * 0 - s * w < s BY <1>2, <2>3
  <2>5. 0 <= w BY <1>2, <2>2, <2>4, Multiples
  <2>6. w # 0 BY <2>3
  <2> QED BY <2>2, <2>5, <2>6
<1>4. PICK q : q = (x - lo) \div s OBVIOUS
<1>5. q \in Int /\ 0 <= q /\ q < c
  <2>1. PICK n \in Nat : n = x - lo OBVIOUS
  <2>2. n = s * (n \div s) + (n % s) /\ n % s \in 0..(s - 1) /\ n \div s \in Int BY <1>2
  <2>3. q \in Int /\ s * q \in Int /\ s * q <= n /\ n < s * q + s
    <3>1. s * q \in Int BY <1>2, <1>4, <2>1, <2>2
    <3> QED BY <1>2, <1>4, <2>1, <2>2, <3>1
  <2>4. s * 0 = 0 /\ s * 0 - s * q < s BY <1>2, <2>1, <2>3
  <2>5. 0 <= q BY <1>2, <2>3, <2>4, Multiples
  <2>6. ~(c <= q)
    <3> SUFFICES ASSUME c <= q PROVE FALSE OBVIOUS
    <3>1. n < s * c BY <1>1, <1>2, <2>1
    <3>2. s * q < s * c BY <1>2, <2>1, <2>3, <3>1
    <3>3. s * c - s * q > 0 /\ s * q - s * c < s BY <1>2, <2>3, <3>2
    <3>4. q <= c BY <1>2, <2>3, <3>3, Multiples
    <3>5. q = c BY <1>2, <2>3, <3>4
    <3> QED BY <1>2, <3>2, <3>5
  <2> QED BY <1>2, <2>3, <2>5, <2>6
<1>6. BucketIndex(x, lo) = IF q < w + (c - 1) - 1 THEN q ELSE w + (c - 1) - 1
  BY <1>1, <1>2, <1>4, Zenon DEF BucketIndex, AtMost
<1>7. FirstPoint = 0..(c - 1)
  <2>1. AtLeast(0, WarmupCount - RollingCount + 1) = 0 BY <1>1, <1>2 DEF AtLeast
  <2> QED BY <1>2, <2>1 DEF FirstPoint
<1>8. BucketIndex(x, lo) \in 0..(c - 1) BY <1>2, <1>3, <1>5, <1>6
<1> QED BY <1>7, <1>8

\* The realtime chart is planned soundly, from what the cache keeps.
LEMMA RealtimePlans ==
  ASSUME NEW t \in Int, NEW lo, lo = RealtimePlan(t)[1].lo,
         NEW point, point = t - RealtimeWindow + RealtimeSpan
  PROVE  /\ Plans(RealtimePlan(t), NoGrid, 1, lo..(t - 1),
                  Span(lo, t), {}, Span(point - RealtimeAggregation, point))
         /\ lo \in Int /\ lo >= t - Window + QueryTime
         /\ \A k \in 1..Len(RealtimePlan(t)) : RealtimePlan(t)[k].lo = lo
<1>1. PICK w, s, g : w = RealtimeWindow /\ s = RealtimeSpan /\ g = RealtimeAggregation OBVIOUS
<1>2. /\ w \in Nat \ {0} /\ s \in Nat \ {0} /\ g \in Nat /\ QueryTime \in Nat /\ Window \in Int
      /\ w + g + QueryTime <= Window /\ w % s = 0
  BY <1>1, QueryAssumption, CacheAssumption DEF CacheConstants
<1>3. PICK k, b : k = WarmupCount * RealtimeSpan /\ b = RealtimeSpan * RollingCount OBVIOUS
<1>4. k \in Nat /\ b \in Nat /\ b = k + s /\ g <= b /\ k <= g BY <1>1, <1>3, RollingBuckets
<1>5. PICK low : low = t - w - k OBVIOUS
<1>6. low \in Int /\ low < t BY <1>2, <1>4, <1>5
<1>7. PICK r : r = Read("recent", low, t) OBVIOUS
<1>8. r \in ReadSet /\ r.op = "recent" /\ r.lo = low /\ r.hi = t /\ r.closed = FALSE
  BY <1>6, <1>7, ReadIs, OpsAre DEF Read
<1>9. RealtimePlan(t) = <<r>> /\ lo = low
  <2>1. RealtimePlan(t) = <<r>> BY <1>1, <1>3, <1>5, <1>7, Zenon DEF RealtimePlan
  <2>2. <<r>>[1] = r OBVIOUS
  <2> QED BY <1>8, <2>1, <2>2
<1>10. \A x \in Times : InRead(x, r) <=> Inside(x, low, t) BY <1>8 DEF InRead, Inside
<1>11. s <= w
  <2>1. PICK q : q = w \div s OBVIOUS
  <2>2. w = s * q + 0 /\ q \in Int BY <1>2, <2>1
  <2>3. s * q \in Int /\ s * 0 = 0 /\ s * q > 0 /\ s * 1 = s BY <1>2, <2>2
  <2>4. ~(w < s)
    <3> SUFFICES ASSUME w < s PROVE FALSE OBVIOUS
    <3>1. s * q - s * 0 < s /\ s * 0 - s * q < s BY <1>2, <2>2, <2>3
    <3>2. q <= 0 /\ 0 <= q BY <1>2, <2>2, <3>1, Multiples
    <3>3. q = 0 BY <2>2, <3>2
    <3> QED BY <2>3, <3>3
  <2> QED BY <1>2, <2>4
<1>12. PICK P : P = Span(point - g, point) OBVIOUS
<1>13. ASSUME NEW x \in P PROVE x \in Times /\ Inside(x, low, t) /\ BucketIndex(x, low) \in FirstPoint
  <2>1. x \in Times /\ x \in Int BY <1>12, <1>13, TimesAre DEF Span
  <2>2. point - g <= x /\ x < point BY <1>12, <1>13 DEF Span, Inside
  <2>3. point = t - w + s BY <1>1
  <2>4. low <= x /\ x < low + b /\ x < t BY <1>2, <1>4, <1>5, <1>11, <2>1, <2>2, <2>3
  <2>5. BucketIndex(x, low) \in FirstPoint BY <1>3, <1>6, <2>1, <2>4, FirstBuckets
  <2> QED BY <2>1, <2>4, <2>5 DEF Inside
<1>14. PICK A : A = {x \in Span(low, t) : BucketIndex(x, low) \in FirstPoint} OBVIOUS
<1>15. P \subseteq A BY <1>13, <1>14 DEF Span
<1>16. Span(low, t) \subseteq low..(t - 1) BY <1>6, SpanIs
<1>17. A \subseteq low..(t - 1) BY <1>14, <1>16
<1>18. ASSUME NEW open
       PROVE  /\ Cut(MainTimes(open), <<r>>, Span(low, t)) /\ Cut(TotalTimes(open), <<r>>, {})
              /\ Cut(GridTimes(open, NoGrid, 1), <<r>>, A)
  <2>1. MainTimes(open)[r] = Span(low, t)
    <3>1. \A x \in Times : MainTime(x, r, open) <=> InRead(x, r) BY <1>8 DEF MainTime
    <3>2. MainTimes(open)[r] = {x \in Times : MainTime(x, r, open)} BY <1>8 DEF MainTimes
    <3> QED BY <1>10, <3>1, <3>2 DEF Span
  <2>2. TotalTimes(open)[r] = {}
    <3>1. \A x \in Times : ~TotalTime(x, r, open) BY <1>8 DEF TotalTime
    <3>2. TotalTimes(open)[r] = {x \in Times : TotalTime(x, r, open)} BY <1>8 DEF TotalTimes
    <3> QED BY <3>1, <3>2
  <2>3. GridTimes(open, NoGrid, 1)[r] = A
    <3>1. \A x \in Times : GridTime(x, r, open, NoGrid, 1) <=> InRead(x, r) /\ BucketIndex(x, low) \in FirstPoint
      BY <1>8 DEF GridTime
    <3>2. GridTimes(open, NoGrid, 1)[r] = {x \in Times : GridTime(x, r, open, NoGrid, 1)} BY <1>8 DEF GridTimes
    <3>3. A = {x \in Times : Inside(x, low, t) /\ BucketIndex(x, low) \in FirstPoint} BY <1>14 DEF Span
    <3> QED BY <1>10, <3>1, <3>2, <3>3
  <2> QED BY <1>8, <2>1, <2>2, <2>3, CutOne
<1>19. Planned(MainTimes(TRUE), MainTimes(FALSE), <<r>>, low..(t - 1), Span(low, t)) BY <1>16, <1>18, PlannedIs
<1>20. Planned(TotalTimes(TRUE), TotalTimes(FALSE), <<r>>, low..(t - 1), {}) BY <1>18, PlannedIs
<1>21. Planned(GridTimes(TRUE, NoGrid, 1), GridTimes(FALSE, NoGrid, 1), <<r>>, low..(t - 1), P)
  BY <1>15, <1>17, <1>18, PlannedIs
<1>22. Plans(<<r>>, NoGrid, 1, low..(t - 1), Span(low, t), {}, P) BY <1>19, <1>20, <1>21 DEF Plans
<1>23. low >= t - Window + QueryTime BY <1>2, <1>4, <1>5
<1>24. \A n \in 1..Len(<<r>>) : <<r>>[n].lo = lo
  <2>1. Len(<<r>>) = 1 /\ <<r>>[1] = r OBVIOUS
  <2>2. \A n \in 1..1 : n = 1 OBVIOUS
  <2> QED BY <1>8, <1>9, <2>1, <2>2
<1> QED BY <1>1, <1>6, <1>9, <1>12, <1>22, <1>23, <1>24

\* Where the whole hours of an analysis end.
LEMMA AnalysisEndIs ==
  ASSUME MidnightsAtWholeHours, NEW r, NEW a \in Int, NEW b \in Int, r.start = a, r.end = b
  PROVE  /\ OnGrid(FullHourStart(a), Hour) /\ OnGrid(AnalysisEnd(r), Hour)
         /\ a <= FullHourStart(a) /\ FullHourStart(a) <= AnalysisEnd(r)
<1>1. Hour \in Nat \ {0} /\ StdDay \in Nat \ {0} BY WindowAssumption
<1>2. PICK fs, fe, g : fs = FullHourStart(a) /\ fe = FullHourEnd(a, b) /\ g = Truncate(a, Hour) OBVIOUS
<1>3. OnGrid(fs, Hour) /\ OnGrid(fe, Hour) /\ a <= fs /\ fs <= fe BY <1>2, WholeHours DEF Whole
<1>4. fs \in Int /\ fe \in Int /\ OnGrid(fe + Hour, Hour) BY <1>1, <1>3, GridSteps
<1>5. OnGrid(g + StdDay, Hour) /\ g + StdDay \in Int
  <2>1. OnGrid(g, Hour) BY <1>1, <1>2, TruncateIs
  <2>2. OnGrid(StdDay, Hour) BY HoursOnGrid
  <2>3. OnGrid(g + StdDay, Hour) BY <1>1, <2>1, <2>2, GridSteps
  <2> QED BY <2>3 DEF OnGrid
<1>6. PICK e : e = AtLeast(fe, g + StdDay) OBVIOUS
<1>7. OnGrid(e, Hour) /\ fs <= e BY <1>3, <1>4, <1>5, <1>6 DEF AtLeast
<1>8. AnalysisEnd(r) = fe + Hour \/ AnalysisEnd(r) = fe \/ AnalysisEnd(r) = e
  BY <1>2, <1>6, Zenon DEF AnalysisEnd
<1>9. fs <= fe + Hour BY <1>1, <1>3, <1>4
<1> QED BY <1>2, <1>3, <1>4, <1>7, <1>8, <1>9

\* Whole hours and days, as an analysis reads them.
AnalysisHours(h, fs, fe) ==
  \/ h = Part("hour", fs, fe)
  \/ h = Part("day", FullDayStart(fs), FullDayEnd(fs, fe))
           \o Part("hour", fs, AtMost(FullDayStart(fs), fe))
           \o Part("hour", AtLeast(FullDayEnd(fs, fe), fs), fe)

\* They cut the times of those hours.
LEMMA AnalysisHoursCut ==
  ASSUME MidnightsAtWholeHours, NEW open,
         NEW fs, NEW fe, OnGrid(fs, Hour), OnGrid(fe, Hour), fs <= fe,
         NEW m \in Midnights, m <= fs, NEW h, AnalysisHours(h, fs, fe)
  PROVE  /\ \E H : /\ Cut(MainTimes(open), h, H)
                   /\ H \subseteq Span(fs, fe) /\ (DaysOf24Hours => H = Span(fs, fe))
         /\ Cut(TotalTimes(open), h, {}) /\ Cut(GridTimes(open, NoGrid, 1), h, {})
         /\ NoRecent(h)
<1>1. fs \in Int /\ fe \in Int BY DEF OnGrid
<1>2. CASE h = Part("hour", fs, fe)
  <2>1. Cut(MainTimes(open), h, Span(fs, fe)) BY <1>2, HourPart
  <2>2. Cut(TotalTimes(open), h, {}) /\ Cut(GridTimes(open, NoGrid, 1), h, {})
    BY <1>1, <1>2, OpsAre, PartFeedsNot
  <2>3. NoRecent(h) BY <1>1, <1>2, OpsAre, NoRecentPart
  <2> QED BY <2>1, <2>2, <2>3
<1>3. ASSUME h # Part("hour", fs, fe)
      PROVE  /\ \E H : /\ Cut(MainTimes(open), h, H)
                       /\ H \subseteq Span(fs, fe) /\ (DaysOf24Hours => H = Span(fs, fe))
             /\ Cut(TotalTimes(open), h, {}) /\ Cut(GridTimes(open, NoGrid, 1), h, {})
             /\ NoRecent(h)
  <2>1. PICK ds, de : ds = FullDayStart(fs) /\ de = FullDayEnd(fs, fe) OBVIOUS
  <2>2. /\ OnGrid(ds, Hour) /\ OnGrid(de, Hour) /\ ds <= de
        /\ ds < de => de <= fe /\ fs <= de
    BY <2>1, WholeDays
  <2>3. ds \in Int /\ de \in Int BY <2>2 DEF OnGrid
  <2>4. PICK x, y : x = AtMost(ds, fe) /\ y = AtLeast(de, fs) OBVIOUS
  <2>5. OnGrid(x, Hour) /\ OnGrid(y, Hour) BY <2>2, <2>4 DEF AtMost, AtLeast
  <2>6. x \in Int /\ y \in Int BY <2>5 DEF OnGrid
  <2>7. PICK p, q, v : p = Part("day", ds, de) /\ q = Part("hour", fs, x) /\ v = Part("hour", y, fe) OBVIOUS
  <2>8. h = p \o q \o v BY <1>3, <2>1, <2>4, <2>7, Zenon DEF AnalysisHours
  <2>9. /\ Cut(TotalTimes(open), p, {}) /\ Cut(TotalTimes(open), q, {}) /\ Cut(TotalTimes(open), v, {})
        /\ Cut(GridTimes(open, NoGrid, 1), p, {}) /\ Cut(GridTimes(open, NoGrid, 1), q, {})
        /\ Cut(GridTimes(open, NoGrid, 1), v, {})
    BY <1>1, <2>3, <2>6, <2>7, OpsAre, PartFeedsNot
  <2>10. Cut(TotalTimes(open), p \o q, {}) /\ Cut(GridTimes(open, NoGrid, 1), p \o q, {}) BY <2>9, CutMore
  <2>11. Cut(TotalTimes(open), (p \o q) \o v, {}) /\ Cut(GridTimes(open, NoGrid, 1), (p \o q) \o v, {})
    BY <2>9, <2>10, CutMore
  <2>12. NoRecent(h)
    <3>1. NoRecent(p) /\ NoRecent(q) /\ NoRecent(v) BY <1>1, <2>3, <2>6, <2>7, OpsAre, NoRecentPart
    <3>2. NoRecent(p \o q) BY <3>1, NoRecentTwo
    <3>3. NoRecent((p \o q) \o v) BY <3>1, <3>2, NoRecentTwo
    <3> QED BY <2>8, <3>3
  <2>13. CASE ds < de
    <3>1. x = ds /\ y = de BY <1>1, <2>2, <2>3, <2>4, <2>13 DEF AtMost, AtLeast
    <3>2. \E S : /\ S \subseteq Span(fs, fe) /\ (DaysOf24Hours => S = Span(fs, fe))
                 /\ Cut(MainTimes(open), Part("day", ds, de) \o Part("hour", fs, ds) \o Part("hour", de, fe), S)
      BY <2>1, <2>13, DayPart
    <3> QED BY <2>7, <2>8, <2>11, <2>12, <3>1, <3>2
  <2>14. CASE ~(ds < de)
    <3>1. ds = de BY <2>2, <2>3, <2>14
    <3>2. p = <<>> BY <2>7, <2>14 DEF Part
    <3>3. Cut(MainTimes(open), p, {}) BY <3>2, CutNone
    <3>4. Cut(MainTimes(open), q, Span(fs, x)) /\ Cut(MainTimes(open), v, Span(y, fe)) BY <2>5, <2>7, HourPart
    <3>5. Span(fs, x) \cup Span(y, fe) = Span(fs, fe) /\ Span(fs, x) \cap Span(y, fe) = {}
      <4>1. CASE ds < fs
        <5>1. x = ds /\ y = fs BY <1>1, <2>3, <2>4, <3>1, <4>1 DEF AtMost, AtLeast
        <5>2. ~(fs < x) BY <1>1, <2>3, <4>1, <5>1
        <5>3. Span(fs, x) = {} BY <1>1, <2>6, <5>2, SpansMeet
        <5> QED BY <5>1, <5>3
      <4>2. CASE fs <= ds /\ ds < fe
        <5>1. x = ds /\ y = ds BY <1>1, <2>3, <2>4, <3>1, <4>2 DEF AtMost, AtLeast
        <5>2. fs <= ds /\ ds <= fe BY <1>1, <2>3, <4>2
        <5> QED BY <1>1, <2>3, <5>1, <5>2, SpansMeet
      <4>3. CASE fs <= ds /\ ~(ds < fe)
        <5>1. x = fe /\ y = ds /\ ~(y < fe) BY <1>1, <2>3, <2>4, <3>1, <4>3 DEF AtMost, AtLeast
        <5>2. Span(y, fe) = {} BY <1>1, <2>6, <5>1, SpansMeet
        <5> QED BY <5>1, <5>2
      <4> QED BY <1>1, <2>3, <4>1, <4>2, <4>3
    <3>6. {} \cap Span(fs, x) = {} /\ {} \cup Span(fs, x) = Span(fs, x) OBVIOUS
    <3>7. Cut(MainTimes(open), p \o q, Span(fs, x))
      <4>1. Cut(MainTimes(open), p \o q, {} \cup Span(fs, x)) BY <3>3, <3>4, <3>6, CutTwo
      <4> QED BY <3>6, <4>1
    <3>8. Cut(MainTimes(open), (p \o q) \o v, Span(fs, x) \cup Span(y, fe)) BY <3>4, <3>5, <3>7, CutTwo
    <3> QED BY <2>8, <2>11, <2>12, <3>5, <3>8
  <2> QED BY <2>13, <2>14
<1> QED BY <1>2, <1>3

\* An analysis is planned soundly.
LEMMA AnalysisPlans ==
  ASSUME MidnightsAtWholeHours, NEW r, NEW a \in Int, NEW b \in Int, r.start = a, r.end = b,
         NEW m \in Midnights, m <= a
  PROVE  /\ Plans(AnalysisPlan(r), NoGrid, 1, a..AtLeast(b, AnalysisEnd(r) - 1),
                  Span(FullHourStart(a), AnalysisEnd(r)), Span(a, b + 1), {})
         /\ NoRecent(AnalysisPlan(r))
<1>1. PICK fs, fe : fs = FullHourStart(a) /\ fe = AnalysisEnd(r) OBVIOUS
<1>2. OnGrid(fs, Hour) /\ OnGrid(fe, Hour) /\ a <= fs /\ fs <= fe BY <1>1, AnalysisEndIs
<1>3. fs \in Int /\ fe \in Int /\ m \in Int /\ m <= fs BY <1>2, WindowAssumption DEF OnGrid
<1>4. PICK l : l = [Read("latency", a, b) EXCEPT !.closed = TRUE] OBVIOUS
<1>5. PICK h : h = IF b - a > StdDay
                   THEN Part("day", FullDayStart(fs), FullDayEnd(fs, fe))
                        \o Part("hour", fs, AtMost(FullDayStart(fs), fe))
                        \o Part("hour", AtLeast(FullDayEnd(fs, fe), fs), fe)
                   ELSE Part("hour", fs, fe)
  OBVIOUS
<1>6. AnalysisHours(h, fs, fe) BY <1>5, Zenon DEF AnalysisHours
<1>7. AnalysisPlan(r) = <<l>> \o h BY <1>1, <1>4, <1>5, Zenon DEF AnalysisPlan
<1>8. PICK scope : scope = a..AtLeast(b, fe - 1) OBVIOUS
<1>9. Span(fs, fe) \subseteq scope /\ Span(a, b + 1) \subseteq scope
  <2>1. \A t \in Int : a <= t /\ (t <= b \/ t <= fe - 1) => t \in scope
    BY <1>3, <1>8 DEF AtLeast
  <2>2. Span(fs, fe) \subseteq fs..(fe - 1) /\ Span(a, b + 1) \subseteq a..b BY <1>3, SpanIs
  <2>3. \A t \in fs..(fe - 1) : t \in scope BY <1>2, <1>3, <2>1
  <2>4. \A t \in a..b : t \in scope BY <2>1
  <2> QED BY <2>2, <2>3, <2>4
<1>10. ASSUME NEW open
       PROVE  /\ \E H : /\ Cut(MainTimes(open), <<l>> \o h, H)
                        /\ H \subseteq scope /\ (DaysOf24Hours => Span(fs, fe) \subseteq H)
              /\ Cut(TotalTimes(open), <<l>> \o h, Span(a, b + 1))
              /\ Cut(GridTimes(open, NoGrid, 1), <<l>> \o h, {})
  <2>1. /\ Cut(MainTimes(open), <<l>>, {}) /\ Cut(TotalTimes(open), <<l>>, Span(a, b + 1))
        /\ Cut(GridTimes(open, NoGrid, 1), <<l>>, {})
    BY <1>4, ClosedRead
  <2>2. /\ \E H : /\ Cut(MainTimes(open), h, H)
                  /\ H \subseteq Span(fs, fe) /\ (DaysOf24Hours => H = Span(fs, fe))
        /\ Cut(TotalTimes(open), h, {}) /\ Cut(GridTimes(open, NoGrid, 1), h, {})
    BY <1>2, <1>3, <1>6, AnalysisHoursCut
  <2>3. PICK H : /\ Cut(MainTimes(open), h, H)
                 /\ H \subseteq Span(fs, fe) /\ (DaysOf24Hours => H = Span(fs, fe))
    BY <2>2
  <2>4. Cut(MainTimes(open), <<l>> \o h, H)
    <3>1. {} \cap H = {} /\ {} \cup H = H OBVIOUS
    <3>2. Cut(MainTimes(open), <<l>> \o h, {} \cup H) BY <2>1, <2>3, <3>1, CutTwo
    <3> QED BY <3>1, <3>2
  <2>5. Cut(TotalTimes(open), <<l>> \o h, Span(a, b + 1)) BY <2>1, <2>2, CutMore
  <2>6. Cut(GridTimes(open, NoGrid, 1), <<l>> \o h, {}) BY <2>1, <2>2, CutMore
  <2>7. H \subseteq scope BY <1>9, <2>3
  <2> QED BY <2>3, <2>4, <2>5, <2>6, <2>7
<1> HIDE DEF AnalysisHours
<1>11. PICK u : u = <<l>> \o h OBVIOUS
<1>12. Planned(MainTimes(TRUE), MainTimes(FALSE), u, scope, Span(fs, fe))
  <2>1. PICK S : Cut(MainTimes(TRUE), u, S) /\ S \subseteq scope BY <1>10, <1>11
  <2>2. PICK R : Cut(MainTimes(FALSE), u, R) /\ (DaysOf24Hours => Span(fs, fe) \subseteq R) BY <1>10, <1>11
  <2> QED BY <2>1, <2>2, PlannedIs
<1>13. Planned(TotalTimes(TRUE), TotalTimes(FALSE), u, scope, Span(a, b + 1)) BY <1>9, <1>10, <1>11, PlannedIs
<1>14. Planned(GridTimes(TRUE, NoGrid, 1), GridTimes(FALSE, NoGrid, 1), u, scope, {})
  <2>1. PICK none : none = {} OBVIOUS
  <2>2. Cut(GridTimes(TRUE, NoGrid, 1), u, none) /\ Cut(GridTimes(FALSE, NoGrid, 1), u, none)
    BY <1>10, <1>11, <2>1
  <2>3. none \subseteq scope /\ none \subseteq none BY <2>1
  <2>4. Planned(GridTimes(TRUE, NoGrid, 1), GridTimes(FALSE, NoGrid, 1), u, scope, none) BY <2>2, <2>3, PlannedIs
  <2> QED BY <2>1, <2>4
<1>15. Plans(u, NoGrid, 1, scope, Span(fs, fe), Span(a, b + 1), {}) BY <1>12, <1>13, <1>14 DEF Plans
<1>16. NoRecent(u)
  <2>1. l \in ReadSet /\ l.op = "latency" BY <1>4, OpsAre DEF Read, ReadSet
  <2>2. NoRecent(<<l>>) BY <2>1, NoRecentOne
  <2>3. NoRecent(h) BY <1>2, <1>3, <1>6, AnalysisHoursCut
  <2> QED BY <1>11, <2>2, <2>3, NoRecentTwo
<1> QED BY <1>1, <1>7, <1>8, <1>11, <1>15, <1>16

\* One part of the answer: what it counted lies in the scope of the query and is not found
\* again by the reads to come; what it owes is counted or will be found.
PartIs(T, F, plan, scope, due, tally, rs) ==
  /\ plan \in Seq(ReadSet) /\ Apart(T, plan) /\ TakenBy(T, plan) \subseteq scope
  /\ tally \in [Ids -> 0..1]
  /\ \A i \in Ids : tally[i] = 1 => /\ i \in DOMAIN rs /\ rs[i].ts \in scope
                                    /\ rs[i].ts \notin TakenBy(T, plan)
  /\ due \subseteq Ids \cap DOMAIN rs
  /\ DaysOf24Hours => \A i \in due : tally[i] = 1 \/ rs[i].ts \in TakenBy(F, plan)

\* A plan takes what its first read takes and what the rest takes.
Taking(T, plan, s, rest) ==
  /\ s \in ReadSet /\ rest \in Seq(ReadSet) /\ Len(rest) = Len(plan) - 1
  /\ \A k \in 1..Len(rest) : k + 1 \in 1..Len(plan) /\ rest[k] = plan[k + 1]
  /\ TakenBy(T, plan) = T[s] \cup TakenBy(T, rest)
  /\ Apart(T, plan) => Apart(T, rest) /\ T[s] \cap TakenBy(T, rest) = {}

\* So it is for the head of a plan and its tail.
LEMMA TakenIs ==
  ASSUME NEW T, NEW plan \in Seq(ReadSet), plan # <<>>, NEW s, s = Head(plan), NEW rest, rest = Tail(plan)
  PROVE  Taking(T, plan, s, rest)
<1>1. PICK n : n = Len(plan) OBVIOUS
<1>2. n \in Nat /\ n >= 1 /\ s = plan[1] /\ s \in ReadSet BY <1>1
<1>3. rest \in Seq(ReadSet) /\ Len(rest) = n - 1 BY <1>1, <1>2
<1>4. \A k \in 1..(n - 1) : k + 1 \in 1..n /\ rest[k] = plan[k + 1] BY <1>1, <1>2, <1>3
<1>5. DOMAIN plan = 1..n /\ DOMAIN rest = 1..(n - 1) BY <1>1, <1>2, <1>3
<1>6. \A k \in 1..n : k = 1 \/ \E j \in 1..(n - 1) : k = j + 1
  <2> SUFFICES ASSUME NEW k \in 1..n, k # 1 PROVE \E j \in 1..(n - 1) : k = j + 1 OBVIOUS
  <2>1. k - 1 \in 1..(n - 1) /\ k = (k - 1) + 1 BY <1>2
  <2> QED BY <2>1
<1>7. 1 \in 1..n BY <1>2
<1>8. TakenBy(T, plan) = T[s] \cup TakenBy(T, rest)
  <2>1. \A t : t \in TakenBy(T, plan) <=> \E k \in 1..n : t \in T[plan[k]] BY <1>5 DEF TakenBy
  <2>2. \A t : t \in TakenBy(T, rest) <=> \E k \in 1..(n - 1) : t \in T[rest[k]] BY <1>5 DEF TakenBy
  <2>3. \A t : t \in TakenBy(T, plan) => t \in T[s] \/ t \in TakenBy(T, rest)
    <3> SUFFICES ASSUME NEW t, NEW k \in 1..n, t \in T[plan[k]] PROVE t \in T[s] \/ t \in TakenBy(T, rest)
      BY <2>1
    <3>1. CASE k = 1 BY <1>2, <3>1
    <3>2. CASE \E j \in 1..(n - 1) : k = j + 1
      <4>1. PICK j \in 1..(n - 1) : k = j + 1 BY <3>2
      <4>2. rest[j] = plan[k] BY <1>4, <4>1
      <4> QED BY <2>2, <4>1, <4>2
    <3> QED BY <1>6, <3>1, <3>2
  <2>4. \A t \in T[s] : t \in TakenBy(T, plan) BY <1>2, <1>7, <2>1
  <2>5. \A t \in TakenBy(T, rest) : t \in TakenBy(T, plan) BY <1>4, <2>1, <2>2
  <2> QED BY <2>3, <2>4, <2>5
<1>9. ASSUME Apart(T, plan) PROVE Apart(T, rest) /\ T[s] \cap TakenBy(T, rest) = {}
  <2>1. \A k, l \in 1..n : k # l => T[plan[k]] \cap T[plan[l]] = {} BY <1>5, <1>9 DEF Apart
  <2>2. ASSUME NEW k \in 1..(n - 1), NEW l \in 1..(n - 1), k # l PROVE T[rest[k]] \cap T[rest[l]] = {}
    <3>1. k + 1 # l + 1 BY <1>2, <2>2
    <3> QED BY <1>4, <2>1, <3>1
  <2>3. ASSUME NEW k \in 1..(n - 1) PROVE T[s] \cap T[rest[k]] = {}
    <3>1. 1 # k + 1 BY <1>2
    <3> QED BY <1>2, <1>4, <1>7, <2>1, <3>1
  <2>4. Apart(T, rest) BY <1>5, <2>2 DEF Apart
  <2>5. TakenBy(T, rest) = UNION {T[rest[k]] : k \in 1..(n - 1)} BY <1>5, Zenon DEF TakenBy
  <2>6. T[s] \cap TakenBy(T, rest) = {}
    <3> SUFFICES ASSUME NEW t \in T[s], NEW k \in 1..(n - 1), t \in T[rest[k]] PROVE FALSE BY <2>5
    <3> QED BY <2>3
  <2> QED BY <2>4, <2>6
<1> QED BY <1>1, <1>2, <1>3, <1>4, <1>8, <1>9 DEF Taking

\* A tally after a read.
LEMMA TallyIs ==
  ASSUME NEW tally \in [Ids -> 0..1], NEW ids
  PROVE  /\ DOMAIN Tally(tally, ids) = Ids
         /\ \A i \in Ids : Tally(tally, ids)[i] = IF i \in ids THEN tally[i] + 1 ELSE tally[i]
BY DEF Tally

\* A read adds the events at its times, each at most once.
LEMMA PartSteps ==
  ASSUME NEW T, NEW F, NEW plan, plan # <<>>, NEW scope, NEW due, NEW tally, NEW rs,
         PartIs(T, F, plan, scope, due, tally, rs),
         NEW s, s = Head(plan), NEW rest, rest = Tail(plan),
         NEW ids, \A i \in ids : i \in DOMAIN rs /\ rs[i].ts \in T[s],
         \A i \in due : rs[i].ts \in F[s] => i \in ids
  PROVE  PartIs(T, F, rest, scope, due, Tally(tally, ids), rs)
<1>1. plan \in Seq(ReadSet) /\ Apart(T, plan) /\ TakenBy(T, plan) \subseteq scope BY DEF PartIs
<1>2. /\ rest \in Seq(ReadSet) /\ Apart(T, rest) /\ T[s] \cap TakenBy(T, rest) = {}
      /\ TakenBy(T, plan) = T[s] \cup TakenBy(T, rest)
      /\ TakenBy(F, plan) = F[s] \cup TakenBy(F, rest)
  <2>1. /\ rest \in Seq(ReadSet) /\ Apart(T, rest) /\ T[s] \cap TakenBy(T, rest) = {}
        /\ TakenBy(T, plan) = T[s] \cup TakenBy(T, rest)
    <3>1. Taking(T, plan, s, rest) BY <1>1, TakenIs
    <3> QED BY <1>1, <3>1, Zenon DEF Taking
  <2>2. TakenBy(F, plan) = F[s] \cup TakenBy(F, rest)
    <3>1. Taking(F, plan, s, rest) BY <1>1, TakenIs
    <3> QED BY <3>1, Zenon DEF Taking
  <2> QED BY <2>1, <2>2
<1>3. tally \in [Ids -> 0..1] BY DEF PartIs
<1>4. PICK new : new = Tally(tally, ids) OBVIOUS
<1>5. DOMAIN new = Ids /\ \A i \in Ids : new[i] = IF i \in ids THEN tally[i] + 1 ELSE tally[i]
  BY <1>3, <1>4, TallyIs, Zenon
<1>6. \A i \in Ids : tally[i] \in 0..1 BY <1>3
<1>7. \A i \in Ids : tally[i] = 1 => i \in DOMAIN rs /\ rs[i].ts \in scope /\ rs[i].ts \notin TakenBy(T, plan)
  BY DEF PartIs
<1>8. \A i \in Ids : i \in ids => tally[i] = 0 BY <1>2, <1>6, <1>7
<1>9. \A i \in Ids : new[i] \in 0..1 /\ (new[i] = 1 <=> i \in ids \/ tally[i] = 1) BY <1>5, <1>6, <1>8
<1>10. new \in [Ids -> 0..1]
  <2>1. new = [i \in Ids |-> new[i]] BY <1>4 DEF Tally
  <2> QED BY <1>9, <2>1
<1>11. ASSUME NEW i \in Ids, new[i] = 1
       PROVE  i \in DOMAIN rs /\ rs[i].ts \in scope /\ rs[i].ts \notin TakenBy(T, rest)
  <2>1. CASE i \in ids BY <1>1, <1>2, <2>1
  <2>2. CASE tally[i] = 1 BY <1>2, <1>7, <2>2
  <2> QED BY <1>9, <1>11, <2>1, <2>2
<1>12. due \subseteq Ids \cap DOMAIN rs BY DEF PartIs
<1>13. ASSUME DaysOf24Hours, NEW i \in due PROVE new[i] = 1 \/ rs[i].ts \in TakenBy(F, rest)
  <2>1. tally[i] = 1 \/ rs[i].ts \in TakenBy(F, plan) BY <1>13 DEF PartIs
  <2>2. i \in Ids BY <1>12
  <2> QED BY <1>2, <1>9, <2>1, <2>2
<1>14. TakenBy(T, rest) \subseteq scope BY <1>1, <1>2
<1> QED BY <1>2, <1>4, <1>10, <1>11, <1>12, <1>13, <1>14 DEF PartIs

\* Rows are only added.
LEMMA PartStays ==
  ASSUME NEW T, NEW F, NEW plan, NEW scope, NEW due, NEW tally, NEW rs,
         PartIs(T, F, plan, scope, due, tally, rs),
         NEW more, DOMAIN rs \subseteq DOMAIN more, \A i \in DOMAIN rs : more[i] = rs[i]
  PROVE  PartIs(T, F, plan, scope, due, tally, more)
<1>1. \A i \in Ids : tally[i] = 1 => /\ i \in DOMAIN more /\ more[i].ts \in scope
                                     /\ more[i].ts \notin TakenBy(T, plan)
  BY DEF PartIs
<1>2. due \subseteq Ids \cap DOMAIN more BY DEF PartIs
<1>3. DaysOf24Hours => \A i \in due : tally[i] = 1 \/ more[i].ts \in TakenBy(F, plan) BY DEF PartIs
<1> QED BY <1>1, <1>2, <1>3 DEF PartIs

\* A new query has counted nothing.
LEMMA PartStarts ==
  ASSUME NEW T, NEW F, NEW plan, NEW scope, NEW owed, Planned(T, F, plan, scope, owed),
         NEW rs, NEW due, due \subseteq Ids \cap DOMAIN rs, \A i \in due : rs[i].ts \in owed
  PROVE  PartIs(T, F, plan, scope, due, NoTally, rs)
<1>1. NoTally \in [Ids -> 0..1] /\ \A i \in Ids : NoTally[i] = 0 BY DEF NoTally
<1> QED BY <1>1 DEF Planned, PartIs

\* No query owes nothing.
LEMMA PartNone ==
  ASSUME NEW T, NEW F, NEW rs
  PROVE  PartIs(T, F, <<>>, {}, {}, NoTally, rs)
<1>1. NoTally \in [Ids -> 0..1] /\ \A i \in Ids : NoTally[i] = 0 BY DEF NoTally
<1>2. Cut(T, <<>>, {}) BY CutNone
<1>3. <<>> \in Seq(ReadSet) /\ Apart(T, <<>>) /\ TakenBy(T, <<>>) = {} BY <1>2 DEF Cut
<1> QED BY <1>1, <1>3 DEF PartIs

\* What the writers keep: the cache holds what reached it and is recent.
Recorded ==
  /\ now \in Int /\ FirstTime <= now /\ now <= MaxTime
  /\ rows \in Seq([ts : EventTimes, cred : Credentials]) /\ Len(rows) <= MaxRows
  /\ \A i \in 1..Len(rows) : rows[i].ts <= now
  /\ offered \in 0..Len(rows)
  /\ queue \in Seq(Int) /\ \A k \in 1..Len(queue) : queue[k] \in 1..Len(rows)
  /\ worker \in {"took", "has"} => held \in 1..Len(rows)
  /\ cached \subseteq delivered /\ delivered \subseteq 1..Len(rows)
  /\ \A i \in delivered : rows[i].ts >= now - Window => i \in cached
  /\ counted \in 0..Len(rows)

\* An event a query that started at q cannot miss.
Owed(i, q) ==
  i \in delivered /\ i <= counted /\ ~Inside(rows[i].ts, q - Window, q - Window + QueryTime)
InTime == query.qnow \in Int /\ query.qnow <= now /\ now <= query.qnow + QueryTime

\* The committed events are the rows.
LEMMA CommittedAre ==
  ASSUME Recorded
  PROVE  /\ Committed = 1..Len(rows) /\ Committed \subseteq Ids
         /\ \A i \in Committed : rows[i].ts \in Times /\ rows[i].ts \in Int
         /\ cached \subseteq Committed /\ delivered \subseteq Committed
<1>1. Committed = 1..Len(rows) BY DEF Recorded, Committed
<1>2. MaxRows \in Nat /\ EventTimes \subseteq Int /\ MaxTime \in Int BY CacheAssumption DEF CacheConstants
<1>3. Len(rows) \in Nat /\ Len(rows) <= MaxRows BY DEF Recorded
<1>4. Committed \subseteq Ids BY <1>1, <1>2, <1>3 DEF Ids
<1>5. ASSUME NEW i \in Committed PROVE rows[i].ts \in Times /\ rows[i].ts \in Int
  <2>1. rows[i] \in [ts : EventTimes, cred : Credentials]
    <3>1. PICK R : R = [ts : EventTimes, cred : Credentials] OBVIOUS
    <3>2. rows \in Seq(R) BY <3>1 DEF Recorded
    <3>3. i \in 1..Len(rows) BY <1>1, <1>5
    <3>4. \A k \in 1..Len(rows) : rows[k] \in R BY <3>2
    <3> QED BY <3>1, <3>3, <3>4
  <2>2. rows[i].ts \in EventTimes /\ rows[i].ts \in Int BY <1>2, <2>1
  <2>3. rows[i].ts <= now /\ now \in Int /\ now <= MaxTime BY <1>1, <1>5 DEF Recorded
  <2> QED BY <1>2, <2>2, <2>3 DEF Times
<1>6. cached \subseteq Committed /\ delivered \subseteq Committed BY <1>1 DEF Recorded
<1> QED BY <1>1, <1>4, <1>5, <1>6

\* A read of single events finds nothing but at its times, and everything it cannot miss.
LEMMA RawFound ==
  ASSUME Recorded, InTime, NEW s \in ReadSet
  PROVE  /\ \A i \in RawIds(s) : i \in Committed /\ RawTime(rows[i].ts, s, TRUE)
         /\ \A i \in Committed : Owed(i, query.qnow) /\ RawTime(rows[i].ts, s, FALSE) => i \in RawIds(s)
<1>1. s.lo \in Int /\ s.hi \in Int /\ s.closed \in BOOLEAN /\ s.right \in BOOLEAN BY DEF ReadSet
<1>2. ASSUME NEW i \in RawIds(s) PROVE i \in Committed /\ RawTime(rows[i].ts, s, TRUE)
  <2>1. CASE CacheCovers(s)
    <3>1. i \in cached /\ (IF s.right THEN rows[i].ts >= s.lo ELSE InRead(rows[i].ts, s))
      BY <1>2, <2>1 DEF RawIds
    <3>2. i \in Committed /\ rows[i].ts \in Int BY <3>1, CommittedAre
    <3> QED BY <1>1, <3>1, <3>2 DEF RawTime
  <2>2. CASE ~CacheCovers(s) BY <1>2, <2>2 DEF RawIds, RawTime
  <2> QED BY <2>1, <2>2
<1>3. ASSUME NEW i \in Committed, Owed(i, query.qnow), RawTime(rows[i].ts, s, FALSE) PROVE i \in RawIds(s)
  <2>1. InRead(rows[i].ts, s) BY <1>3 DEF RawTime
  <2>2. rows[i].ts \in Int BY <1>3, CommittedAre
  <2>3. s.lo <= rows[i].ts /\ (rows[i].ts < s.hi \/ (s.closed /\ rows[i].ts = s.hi)) BY <2>1 DEF InRead
  <2>4. CASE CacheCovers(s)
    <3>1. s.lo >= query.qnow - Window BY <1>1, <2>2, <2>3, <2>4 DEF CacheCovers
    <3>2. Window \in Int /\ QueryTime \in Int /\ query.qnow \in Int /\ now \in Int
      BY CacheAssumption, QueryAssumption DEF InTime, Recorded, CacheConstants
    <3>3. rows[i].ts >= query.qnow - Window + QueryTime
      BY <1>1, <1>3, <2>2, <2>3, <3>1, <3>2 DEF Owed, Inside
    <3>4. rows[i].ts >= now - Window BY <2>2, <3>2, <3>3 DEF InTime
    <3>5. i \in cached BY <1>3, <3>4 DEF Recorded, Owed
    <3>6. rows[i].ts >= s.lo BY <1>1, <2>2, <2>3
    <3> QED BY <1>1, <2>1, <2>4, <3>5, <3>6 DEF RawIds
  <2>5. CASE ~CacheCovers(s) BY <1>3, <2>1, <2>5 DEF RawIds
  <2> QED BY <2>4, <2>5
<1> QED BY <1>2, <1>3

\* A read of the cache alone.
LEMMA RecentFound ==
  ASSUME Recorded, InTime, NEW s \in ReadSet, s.lo >= query.qnow - Window + QueryTime
  PROVE  \A i \in Committed : Owed(i, query.qnow) /\ InRead(rows[i].ts, s) => i \in RecentIds(s)
<1> SUFFICES ASSUME NEW i \in Committed, Owed(i, query.qnow), InRead(rows[i].ts, s) PROVE i \in RecentIds(s)
  OBVIOUS
<1>1. s.lo \in Int BY DEF ReadSet
<1>2. rows[i].ts \in Int /\ s.lo <= rows[i].ts BY CommittedAre DEF InRead
<1>3. Window \in Int /\ QueryTime \in Int /\ query.qnow \in Int /\ now \in Int
  BY CacheAssumption, QueryAssumption DEF InTime, Recorded, CacheConstants
<1>4. rows[i].ts >= now - Window BY <1>1, <1>2, <1>3 DEF InTime
<1>5. i \in cached BY <1>4 DEF Recorded, Owed
<1> QED BY <1>5 DEF RecentIds

\* Reads of statistics find what is aggregated.
LEMMA CountedIs ==
  ASSUME Recorded
  PROVE  /\ \A i \in Aggregated : i \in Committed
         /\ \A i \in Committed : Owed(i, query.qnow) => i \in Aggregated
BY DEF Aggregated, Owed

\* Which statement finds what.
LEMMA IdsByOp ==
  ASSUME NEW s
  PROVE  /\ s.op = "raw" => MainIds(s) = RawMain(s) /\ TotalIds(s) = RawMain(s) /\ GridIds(s) = RawGrid(s)
         /\ s.op = "hour" => MainIds(s) = HourIds(s) /\ TotalIds(s) = {} /\ GridIds(s) = {}
         /\ s.op = "day" => MainIds(s) = DayIds(s) /\ TotalIds(s) = {} /\ GridIds(s) = {}
         /\ s.op = "sum" => MainIds(s) = {} /\ TotalIds(s) = HourIds(s) /\ GridIds(s) = {}
         /\ s.op = "grid" => MainIds(s) = {} /\ TotalIds(s) = {} /\ GridIds(s) = HealthIds(s, query.span)
         /\ s.op \in {"event", "list"} => MainIds(s) = EventIds(s) /\ TotalIds(s) = {} /\ GridIds(s) = {}
         /\ s.op \in {"count", "latency"} => MainIds(s) = {} /\ TotalIds(s) = EventIds(s) /\ GridIds(s) = {}
         /\ s.op = "recent" => /\ MainIds(s) = RecentIds(s) /\ TotalIds(s) = {}
                               /\ GridIds(s) = {i \in RecentIds(s) : BucketIndex(rows[i].ts, s.lo) \in FirstPoint}
<1>1. s.op = "raw" => MainIds(s) = RawMain(s) /\ TotalIds(s) = RawMain(s) /\ GridIds(s) = RawGrid(s)
  BY DEF MainIds, TotalIds, GridIds
<1>2. s.op = "hour" => MainIds(s) = HourIds(s) /\ TotalIds(s) = {} /\ GridIds(s) = {}
  BY DEF MainIds, TotalIds, GridIds
<1>3. s.op = "day" => MainIds(s) = DayIds(s) /\ TotalIds(s) = {} /\ GridIds(s) = {}
  BY DEF MainIds, TotalIds, GridIds
<1>4. s.op = "sum" => MainIds(s) = {} /\ TotalIds(s) = HourIds(s) /\ GridIds(s) = {}
  BY DEF MainIds, TotalIds, GridIds
<1>5. s.op = "grid" => MainIds(s) = {} /\ TotalIds(s) = {} /\ GridIds(s) = HealthIds(s, query.span)
  BY DEF MainIds, TotalIds, GridIds
<1>6. s.op \in {"event", "list"} => MainIds(s) = EventIds(s) /\ TotalIds(s) = {} /\ GridIds(s) = {}
  BY DEF MainIds, TotalIds, GridIds
<1>7. s.op \in {"count", "latency"} => MainIds(s) = {} /\ TotalIds(s) = EventIds(s) /\ GridIds(s) = {}
  BY DEF MainIds, TotalIds, GridIds
<1>8. s.op = "recent" => /\ MainIds(s) = RecentIds(s) /\ TotalIds(s) = {}
                         /\ GridIds(s) = {i \in RecentIds(s) : BucketIndex(rows[i].ts, s.lo) \in FirstPoint}
  BY DEF MainIds, TotalIds, GridIds
<1> QED BY <1>1, <1>2, <1>3, <1>4, <1>5, <1>6, <1>7, <1>8

\* What a read adds to a part of the answer: nothing but committed events at its times, and
\* every event it cannot miss.
FindsTimes(ids, T, F, s) ==
  /\ \A i \in ids : i \in Committed /\ rows[i].ts \in T[s]
  /\ \A i \in Committed : Owed(i, query.qnow) /\ rows[i].ts \in F[s] => i \in ids

RecentEnough(s, q) == s.op = "recent" => s.lo >= q - Window + QueryTime

\* Single events outside of the whole hours.
LEMMA RawMainFound ==
  ASSUME Recorded, InTime, NEW s \in ReadSet
  PROVE  /\ \A i \in RawMain(s) : /\ i \in Committed /\ RawTime(rows[i].ts, s, TRUE)
                                  /\ ~Inside(rows[i].ts, s.skip[1], s.skip[2])
         /\ \A i \in Committed : /\ Owed(i, query.qnow) /\ RawTime(rows[i].ts, s, FALSE)
                                 /\ ~Inside(rows[i].ts, s.skip[1], s.skip[2])
                                 => i \in RawMain(s)
BY RawFound, Zenon DEF RawMain

\* What a read adds to the series and sums.
LEMMA MainFinds ==
  ASSUME Recorded, InTime, NEW s \in ReadSet, RecentEnough(s, query.qnow)
  PROVE  FindsTimes(MainIds(s), MainTimes(TRUE), MainTimes(FALSE), s)
<1>1. \A i \in Committed : rows[i].ts \in Times BY CommittedAre
<1>2. \A open : MainTimes(open)[s] = {t \in Times : MainTime(t, s, open)} BY DEF MainTimes
<1>3. SUFFICES /\ \A i \in MainIds(s) : i \in Committed /\ MainTime(rows[i].ts, s, TRUE)
               /\ \A i \in Committed : Owed(i, query.qnow) /\ MainTime(rows[i].ts, s, FALSE) => i \in MainIds(s)
  BY <1>1, <1>2, Zenon DEF FindsTimes
<1>4. CASE s.op = "raw"
  <2>1. MainIds(s) = RawMain(s) BY <1>4, IdsByOp
  <2>2. \A t, open : MainTime(t, s, open) <=> RawTime(t, s, open) /\ ~Inside(t, s.skip[1], s.skip[2])
    BY <1>4 DEF MainTime
  <2> QED BY <2>1, <2>2, RawMainFound, Zenon
<1>5. CASE s.op = "hour"
  <2>1. MainIds(s) = HourIds(s) BY <1>5, IdsByOp
  <2>2. \A t, open : MainTime(t, s, open) <=> Inside(HourBucket(t), s.lo, s.hi) BY <1>5 DEF MainTime
  <2> QED BY <2>1, <2>2, CountedIs, Zenon DEF HourIds
<1>6. CASE s.op = "day"
  <2>1. MainIds(s) = DayIds(s) BY <1>6, IdsByOp
  <2>2. \A t, open : MainTime(t, s, open) <=> Inside(DayBucket(t), s.lo, s.hi) BY <1>6 DEF MainTime
  <2> QED BY <2>1, <2>2, CountedIs, Zenon DEF DayIds
<1>7. CASE s.op \in {"event", "list"}
  <2>1. MainIds(s) = EventIds(s) BY <1>7, IdsByOp
  <2>2. \A t, open : MainTime(t, s, open) <=> InRead(t, s) BY <1>7 DEF MainTime
  <2> QED BY <2>1, <2>2, Zenon DEF EventIds
<1>8. CASE s.op = "recent"
  <2>1. MainIds(s) = RecentIds(s) BY <1>8, IdsByOp
  <2>2. \A t, open : MainTime(t, s, open) <=> InRead(t, s) BY <1>8 DEF MainTime
  <2>3. \A i \in Committed : Owed(i, query.qnow) /\ InRead(rows[i].ts, s) => i \in RecentIds(s)
    BY <1>8, RecentFound DEF RecentEnough
  <2>4. \A i \in RecentIds(s) : i \in Committed /\ InRead(rows[i].ts, s) BY CommittedAre DEF RecentIds
  <2> QED BY <2>1, <2>2, <2>3, <2>4, Zenon
<1>9. CASE s.op \in {"sum", "grid", "count", "latency"}
  <2>1. MainIds(s) = {} BY <1>9, IdsByOp
  <2>2. \A t, open : ~MainTime(t, s, open) BY <1>9 DEF MainTime
  <2> QED BY <2>1, <2>2, Zenon
<1>10. s.op \in ReadOps BY DEF ReadSet
<1> QED BY <1>4, <1>5, <1>6, <1>7, <1>8, <1>9, <1>10 DEF ReadOps

\* What it adds to the totals.
LEMMA TotalFinds ==
  ASSUME Recorded, InTime, NEW s \in ReadSet
  PROVE  FindsTimes(TotalIds(s), TotalTimes(TRUE), TotalTimes(FALSE), s)
<1>1. \A i \in Committed : rows[i].ts \in Times BY CommittedAre
<1>2. \A open : TotalTimes(open)[s] = {t \in Times : TotalTime(t, s, open)} BY DEF TotalTimes
<1>3. SUFFICES /\ \A i \in TotalIds(s) : i \in Committed /\ TotalTime(rows[i].ts, s, TRUE)
               /\ \A i \in Committed : Owed(i, query.qnow) /\ TotalTime(rows[i].ts, s, FALSE) => i \in TotalIds(s)
  BY <1>1, <1>2, Zenon DEF FindsTimes
<1>4. CASE s.op = "raw"
  <2>1. TotalIds(s) = RawMain(s) BY <1>4, IdsByOp
  <2>2. \A t, open : TotalTime(t, s, open) <=> RawTime(t, s, open) /\ ~Inside(t, s.skip[1], s.skip[2])
    BY <1>4 DEF TotalTime
  <2> QED BY <2>1, <2>2, RawMainFound, Zenon
<1>5. CASE s.op = "sum"
  <2>1. TotalIds(s) = HourIds(s) BY <1>5, IdsByOp
  <2>2. \A t, open : TotalTime(t, s, open) <=> Inside(HourBucket(t), s.lo, s.hi) BY <1>5 DEF TotalTime
  <2> QED BY <2>1, <2>2, CountedIs, Zenon DEF HourIds
<1>6. CASE s.op \in {"count", "latency"}
  <2>1. TotalIds(s) = EventIds(s) BY <1>6, IdsByOp
  <2>2. \A t, open : TotalTime(t, s, open) <=> InRead(t, s) BY <1>6 DEF TotalTime
  <2> QED BY <2>1, <2>2, Zenon DEF EventIds
<1>7. CASE s.op \in {"hour", "day", "event", "list", "grid", "recent"}
  <2>1. TotalIds(s) = {} BY <1>7, IdsByOp
  <2>2. \A t, open : ~TotalTime(t, s, open) BY <1>7 DEF TotalTime
  <2> QED BY <2>1, <2>2, Zenon
<1>8. s.op \in ReadOps BY DEF ReadSet
<1> QED BY <1>4, <1>5, <1>6, <1>7, <1>8 DEF ReadOps

\* What it adds to the health grid or the first point of the chart.
LEMMA GridFinds ==
  ASSUME Recorded, InTime, NEW s \in ReadSet, RecentEnough(s, query.qnow)
  PROVE  FindsTimes(GridIds(s), GridTimes(TRUE, query.shown, query.span),
                    GridTimes(FALSE, query.shown, query.span), s)
<1> DEFINE Time(t, open) == GridTime(t, s, open, query.shown, query.span)
<1>1. \A i \in Committed : rows[i].ts \in Times BY CommittedAre
<1>2. \A open : GridTimes(open, query.shown, query.span)[s] = {t \in Times : Time(t, open)} BY DEF GridTimes
<1>3. SUFFICES /\ \A i \in GridIds(s) : i \in Committed /\ Time(rows[i].ts, TRUE)
               /\ \A i \in Committed : Owed(i, query.qnow) /\ Time(rows[i].ts, FALSE) => i \in GridIds(s)
  <2> HIDE DEF Time
  <2> QED BY <1>1, <1>2, Zenon DEF FindsTimes
<1>4. CASE s.op = "raw"
  <2>1. GridIds(s) = RawGrid(s) BY <1>4, IdsByOp
  <2>2. \A t, open : Time(t, open) <=> /\ RawTime(t, s, open) /\ Inside(t, query.shown[1], query.shown[2])
                                       /\ ~Inside(t, s.skipGrid[1], s.skipGrid[2])
    BY <1>4 DEF GridTime
  <2> HIDE DEF Time
  <2> QED BY <2>1, <2>2, RawFound, Zenon DEF RawGrid
<1>5. CASE s.op = "grid"
  <2>1. GridIds(s) = HealthIds(s, query.span) BY <1>5, IdsByOp
  <2>2. \A t, open : Time(t, open) <=> Inside(Truncate(t, query.span), s.lo, s.hi) BY <1>5 DEF GridTime
  <2> HIDE DEF Time
  <2> QED BY <2>1, <2>2, CountedIs, Zenon DEF HealthIds
<1>6. CASE s.op = "recent"
  <2>1. GridIds(s) = {i \in RecentIds(s) : BucketIndex(rows[i].ts, s.lo) \in FirstPoint} BY <1>6, IdsByOp
  <2>2. \A t, open : Time(t, open) <=> InRead(t, s) /\ BucketIndex(t, s.lo) \in FirstPoint BY <1>6 DEF GridTime
  <2>3. \A i \in Committed : Owed(i, query.qnow) /\ InRead(rows[i].ts, s) => i \in RecentIds(s)
    BY <1>6, RecentFound DEF RecentEnough
  <2>4. \A i \in RecentIds(s) : i \in Committed /\ InRead(rows[i].ts, s) BY CommittedAre DEF RecentIds
  <2> HIDE DEF Time
  <2> QED BY <2>1, <2>2, <2>3, <2>4, Zenon
<1>7. CASE s.op \in {"hour", "day", "event", "list", "sum", "count", "latency"}
  <2>1. GridIds(s) = {} BY <1>7, IdsByOp
  <2>2. \A t, open : ~Time(t, open) BY <1>7 DEF GridTime
  <2> HIDE DEF Time
  <2> QED BY <2>1, <2>2, Zenon
<1>8. s.op \in ReadOps BY DEF ReadSet
<1> QED BY <1>4, <1>5, <1>6, <1>7, <1>8 DEF ReadOps

\* The query that runs, or none.
QueryIs ==
  /\ query = [kind |-> query.kind, qnow |-> query.qnow, plan |-> query.plan, shown |-> query.shown,
              span |-> query.span, scope |-> query.scope, due |-> query.due,
              main |-> query.main, totals |-> query.totals, grid |-> query.grid]
  /\ Running => InTime
  /\ query.plan # <<>> => Running
  /\ \A k \in 1..Len(query.plan) : RecentEnough(query.plan[k], query.qnow)
  /\ \A i \in query.due.main \cup query.due.totals \cup query.due.grid : Owed(i, query.qnow)
PartsAre ==
  /\ PartIs(MainTimes(TRUE), MainTimes(FALSE), query.plan, query.scope, query.due.main, query.main, rows)
  /\ PartIs(TotalTimes(TRUE), TotalTimes(FALSE), query.plan, query.scope, query.due.totals, query.totals, rows)
  /\ PartIs(GridTimes(TRUE, query.shown, query.span), GridTimes(FALSE, query.shown, query.span),
            query.plan, query.scope, query.due.grid, query.grid, rows)
QueryInv == Recorded /\ QueryIs /\ PartsAre

\* The writers: rows and what reached the cache and the statistics only grow.
Grows ==
  /\ Recorded'
  /\ DOMAIN rows \subseteq DOMAIN rows' /\ \A i \in DOMAIN rows : rows'[i] = rows[i]
  /\ delivered \subseteq delivered' /\ counted <= counted' /\ now <= now'

\* What each of these is.
LEMMA RecordedTyped ==
  ASSUME Recorded
  PROVE  /\ now \in Int /\ Len(rows) \in Nat /\ Len(rows) <= MaxRows /\ DOMAIN rows = 1..Len(rows)
         /\ counted \in Int /\ 0 <= counted /\ counted <= Len(rows) /\ offered \in 0..Len(rows)
         /\ Window \in Int /\ MaxTime \in Int /\ FirstTime \in Int /\ EventTimes \subseteq Int
         /\ MaxRows \in Nat
<1>1. Window \in Int /\ MaxTime \in Int /\ FirstTime \in Int /\ EventTimes \subseteq Int /\ MaxRows \in Nat
  BY CacheAssumption DEF CacheConstants
<1>2. Len(rows) \in Nat /\ DOMAIN rows = 1..Len(rows) BY DEF Recorded
<1>3. now \in Int /\ counted \in 0..Len(rows) /\ Len(rows) <= MaxRows /\ offered \in 0..Len(rows) BY DEF Recorded
<1> QED BY <1>1, <1>2, <1>3

\* Time passes: the cache keeps what is recent.
LEMMA TickGrows == ASSUME Recorded, Tick, UNCHANGED <<counted, query>> PROVE Grows /\ now' = now + 1
<1>1. /\ now < MaxTime /\ now' = now + 1 /\ rows' = rows /\ offered' = offered /\ queue' = queue
      /\ worker' = worker /\ held' = held /\ cached' = cached /\ delivered' = delivered /\ counted' = counted
  BY DEF Tick
<1>2. /\ now \in Int /\ MaxTime \in Int /\ Window \in Int /\ FirstTime \in Int /\ counted \in Int
  BY RecordedTyped
<1>3. \A i \in 1..Len(rows) : rows[i].ts \in Int
  BY CommittedAre
<1>4. Recorded'
  <2>1. /\ now' \in Int /\ FirstTime <= now' /\ now' <= MaxTime BY <1>1, <1>2 DEF Recorded
  <2>2. \A i \in 1..Len(rows) : rows[i].ts <= now' BY <1>1, <1>2, <1>3 DEF Recorded
  <2>3. \A i \in delivered : rows[i].ts >= now' - Window => i \in cached
    <3> SUFFICES ASSUME NEW i \in delivered, rows[i].ts >= now' - Window PROVE i \in cached OBVIOUS
    <3>1. rows[i].ts \in Int BY CommittedAre
    <3>2. rows[i].ts >= now - Window BY <1>1, <1>2, <3>1
    <3> QED BY <3>2 DEF Recorded
  <2> QED BY <1>1, <2>1, <2>2, <2>3 DEF Recorded
<1> QED BY <1>1, <1>2, <1>4 DEF Grows

\* An event is committed.
LEMMA CommitGrows ==
  ASSUME Recorded, NEW t \in EventTimes, NEW c \in Credentials, Commit(t, c), UNCHANGED <<counted, query>>
  PROVE  Grows /\ now' = now
<1>1. /\ Len(rows) < MaxRows /\ t <= now /\ rows' = Append(rows, [ts |-> t, cred |-> c])
      /\ offered' = Len(rows) + 1 /\ now' = now /\ queue' = queue /\ worker' = worker /\ held' = held
      /\ cached' = cached /\ delivered' = delivered /\ counted' = counted
  BY DEF Commit
<1>2. PICK R, n, row : R = [ts : EventTimes, cred : Credentials] /\ n = Len(rows) /\ row = [ts |-> t, cred |-> c]
  OBVIOUS
<1>3. n \in Nat /\ rows \in Seq(R) /\ row \in R /\ row.ts = t /\ counted \in Int /\ now \in Int /\ MaxRows \in Nat
  <2>1. rows \in Seq(R) BY <1>2 DEF Recorded
  <2> QED BY <1>2, <2>1, RecordedTyped
<1>4. rows' \in Seq(R) /\ Len(rows') = n + 1 /\ rows'[n + 1] = row /\ \A i \in 1..n : rows'[i] = rows[i]
  BY <1>1, <1>2, <1>3
<1>5. \A i \in 1..(n + 1) : i \in 1..n \/ i = n + 1 BY <1>3
<1>6. \A i \in 1..n : i \in 1..(n + 1) BY <1>3
<1>7. Recorded'
  <2>1. rows' \in Seq([ts : EventTimes, cred : Credentials]) /\ Len(rows') <= MaxRows BY <1>1, <1>2, <1>3, <1>4
  <2>2. ASSUME NEW i \in 1..Len(rows') PROVE rows'[i].ts <= now'
    <3>1. CASE i \in 1..n
      <4>1. rows[i].ts <= now BY <1>2, <3>1 DEF Recorded
      <4> QED BY <1>1, <1>4, <3>1, <4>1
    <3>2. CASE i = n + 1 BY <1>1, <1>3, <1>4, <3>2
    <3> QED BY <1>4, <1>5, <3>1, <3>2
  <2>3. offered' \in 0..Len(rows') BY <1>1, <1>2, <1>3, <1>4
  <2>4. queue \in Seq(Int) /\ \A k \in 1..Len(queue) : queue[k] \in 1..n BY <1>2 DEF Recorded
  <2>5. \A k \in 1..Len(queue) : queue[k] \in 1..(n + 1) BY <1>6, <2>4
  <2>6. worker \in {"took", "has"} => held \in 1..(n + 1) BY <1>2, <1>6 DEF Recorded
  <2>7. delivered \subseteq 1..n /\ delivered \subseteq 1..(n + 1)
    <3>1. delivered \subseteq 1..n BY <1>2 DEF Recorded
    <3> QED BY <1>6, <3>1
  <2>8. \A i \in delivered : rows'[i].ts >= now - Window => i \in cached
    <3>1. \A i \in delivered : rows'[i] = rows[i] BY <1>4, <2>7
    <3>2. \A i \in delivered : rows[i].ts >= now - Window => i \in cached BY DEF Recorded
    <3> QED BY <3>1, <3>2
  <2>9. counted \in 0..(n + 1)
    <3>1. counted \in 0..n BY <1>2 DEF Recorded
    <3> QED BY <1>3, <3>1
  <2>10. now \in Int /\ FirstTime <= now /\ now <= MaxTime /\ cached \subseteq delivered BY DEF Recorded
  <2> QED BY <1>1, <1>4, <2>1, <2>2, <2>3, <2>4, <2>5, <2>6, <2>7, <2>8, <2>9, <2>10 DEF Recorded
<1>8. DOMAIN rows = 1..n /\ DOMAIN rows' = 1..(n + 1) BY <1>2, <1>3, <1>4
<1> QED BY <1>1, <1>3, <1>4, <1>6, <1>7, <1>8 DEF Grows

\* The cache is offered, takes and appends an event.
LEMMA CacheGrows ==
  ASSUME Recorded, CacheWork, UNCHANGED <<counted, query>>
  PROVE  Grows /\ now' = now
<1>1. now' = now /\ rows' = rows /\ counted' = counted
  BY DEF CacheWork, TryAppend, WorkerTake, ReleaseSlot, WorkerAppend
<1>2. counted \in Int /\ now \in Int /\ Window \in Int /\ Len(rows) \in Nat BY RecordedTyped
<1>3. PICK N : N = 1..Len(rows) OBVIOUS
<1>4. /\ offered \in 0..Len(rows) /\ queue \in Seq(Int) /\ \A k \in 1..Len(queue) : queue[k] \in N
      /\ worker \in {"took", "has"} => held \in N
      /\ cached \subseteq delivered /\ delivered \subseteq N
      /\ \A i \in delivered : rows[i].ts >= now - Window => i \in cached
  BY <1>3 DEF Recorded
<1>5. SUFFICES /\ offered' \in 0..Len(rows) /\ queue' \in Seq(Int) /\ \A k \in 1..Len(queue') : queue'[k] \in N
               /\ worker' \in {"took", "has"} => held' \in N
               /\ cached' \subseteq delivered' /\ delivered' \subseteq N /\ delivered \subseteq delivered'
               /\ \A i \in delivered' : rows[i].ts >= now - Window => i \in cached'
  <2>1. Recorded' BY <1>1, <1>3, <1>5 DEF Recorded
  <2> QED BY <1>1, <1>2, <1>5, <2>1 DEF Grows
<1>6. CASE TryAppend
  <2>1. /\ offered # 0 /\ offered' = 0 /\ (queue' = Append(queue, offered) \/ queue' = queue)
        /\ worker' = worker /\ held' = held /\ cached' = cached /\ delivered' = delivered
    BY <1>6 DEF TryAppend
  <2>2. offered \in N /\ offered \in Int BY <1>2, <1>3, <1>4, <2>1
  <2>3. ASSUME queue' = Append(queue, offered)
        PROVE  queue' \in Seq(Int) /\ \A k \in 1..Len(queue') : queue'[k] \in N
    <3>1. PICK m : m = Len(queue) OBVIOUS
    <3>2. m \in Nat /\ queue' \in Seq(Int) /\ Len(queue') = m + 1 BY <1>4, <2>2, <2>3, <3>1
    <3>3. \A k \in 1..m : queue'[k] = queue[k] BY <1>4, <2>3, <3>1
    <3>4. queue'[m + 1] = offered BY <1>4, <2>3, <3>1
    <3>5. \A k \in 1..(m + 1) : k \in 1..m \/ k = m + 1 BY <3>2
    <3> QED BY <1>4, <2>2, <3>1, <3>2, <3>3, <3>4, <3>5
  <2> QED BY <1>2, <1>4, <2>1, <2>3
<1>7. CASE WorkerTake
  <2>1. /\ queue # <<>> /\ held' = Head(queue) /\ queue' = Tail(queue)
        /\ offered' = offered /\ cached' = cached /\ delivered' = delivered
    BY <1>7 DEF WorkerTake
  <2>2. PICK m : m = Len(queue) OBVIOUS
  <2>3. m \in Nat /\ m >= 1 /\ held' = queue[1] /\ queue' \in Seq(Int) /\ Len(queue') = m - 1 BY <1>4, <2>1, <2>2
  <2>4. \A k \in 1..(m - 1) : k + 1 \in 1..m /\ queue'[k] = queue[k + 1] BY <1>4, <2>1, <2>2, <2>3
  <2>5. held' \in N BY <1>4, <2>2, <2>3
  <2> QED BY <1>4, <2>1, <2>2, <2>3, <2>4, <2>5
<1>8. CASE ReleaseSlot BY <1>4, <1>8 DEF ReleaseSlot
<1>9. CASE WorkerAppend
  <2>1. /\ worker = "has" /\ worker' = "idle" /\ cached' = KeepRecent(cached \cup {held}, now)
        /\ delivered' = delivered \cup {held} /\ offered' = offered /\ queue' = queue
    BY <1>9 DEF WorkerAppend
  <2>2. held \in N BY <1>4, <2>1
  <2>3. cached' \subseteq delivered' /\ \A i \in cached \cup {held} : rows[i].ts >= now - Window => i \in cached'
    BY <1>4, <2>1 DEF KeepRecent
  <2> QED BY <1>4, <2>1, <2>2, <2>3
<1> QED BY <1>6, <1>7, <1>8, <1>9 DEF CacheWork

\* No query.
LEMMA NoQueryIs ==
  ASSUME Recorded', query' = NoQuery
  PROVE  QueryInv'
<1>1. /\ query'.kind = "none" /\ query'.plan = <<>> /\ query'.scope = {} /\ query'.due.main = {}
      /\ query'.due.totals = {} /\ query'.due.grid = {}
      /\ query'.main = NoTally /\ query'.totals = NoTally /\ query'.grid = NoTally
  BY DEF NoQuery, NoIds
<1>2. Len(query'.plan) = 0 /\ 1..0 = {} BY <1>1
<1>3. /\ query' = [kind |-> query'.kind, qnow |-> query'.qnow, plan |-> query'.plan, shown |-> query'.shown,
                   span |-> query'.span, scope |-> query'.scope, due |-> query'.due,
                   main |-> query'.main, totals |-> query'.totals, grid |-> query'.grid]
  BY DEF NoQuery
<1>4. QueryIs' BY <1>1, <1>2, <1>3 DEF QueryIs, Running
<1>5. PartsAre'
  <2>1. /\ PartIs(MainTimes(TRUE), MainTimes(FALSE), <<>>, {}, {}, NoTally, rows')
        /\ PartIs(TotalTimes(TRUE), TotalTimes(FALSE), <<>>, {}, {}, NoTally, rows')
        /\ PartIs(GridTimes(TRUE, query'.shown, query'.span), GridTimes(FALSE, query'.shown, query'.span),
                  <<>>, {}, {}, NoTally, rows')
    BY PartNone
  <2> QED BY <1>1, <2>1, Zenon DEF PartsAre
<1> QED BY <1>4, <1>5 DEF QueryInv

\* A restart loads the window and catches up the statistics.
LEMMA ReopenKeeps == ASSUME Recorded, Reopen PROVE QueryInv'
<1>1. /\ now' = now /\ rows' = rows /\ cached' = {i \in Committed : rows[i].ts >= now - Window}
      /\ delivered' = Committed /\ offered' = 0 /\ queue' = <<>> /\ worker' = "idle"
      /\ counted' = Len(rows) /\ query' = NoQuery
  BY DEF Reopen, Restart, LoadAt
<1>2. Committed = 1..Len(rows) /\ Len(rows) \in Nat BY CommittedAre, RecordedTyped
<1>3. queue' \in Seq(Int) /\ Len(queue') = 0 /\ 1..0 = {} BY <1>1
<1>4. /\ now \in Int /\ FirstTime <= now /\ now <= MaxTime
      /\ rows \in Seq([ts : EventTimes, cred : Credentials]) /\ Len(rows) <= MaxRows
      /\ \A i \in 1..Len(rows) : rows[i].ts <= now
  BY DEF Recorded
<1>5. Recorded' BY <1>1, <1>2, <1>3, <1>4 DEF Recorded
<1> QED BY <1>1, <1>5, NoQueryIs

\* An answer is delivered.
LEMMA DeliverKeeps == ASSUME Recorded, Deliver PROVE QueryInv'
<1>1. /\ query' = NoQuery
      /\ UNCHANGED <<now, rows, offered, queue, worker, held, cached, delivered, counted>>
  BY DEF Deliver, cacheVars
<1>2. Recorded' BY <1>1 DEF Recorded
<1> QED BY <1>1, <1>2, NoQueryIs

\* Steps of others.
LEMMA QueryStays ==
  ASSUME QueryInv, Grows, UNCHANGED query, Running => now' <= query.qnow + QueryTime
  PROVE  QueryInv'
<1>1. \A i \in DOMAIN rows : rows'[i] = rows[i] BY DEF Grows
<1>2. counted \in Int /\ now \in Int /\ counted' \in Int /\ now' \in Int
  BY RecordedTyped DEF QueryInv, Grows, Recorded
<1>3. ASSUME NEW i, Owed(i, query.qnow) PROVE Owed(i, query.qnow)'
  <2>1. i \in delivered /\ i <= counted BY <1>3 DEF Owed
  <2>2. i \in DOMAIN rows /\ i \in Int BY <2>1, RecordedTyped DEF QueryInv, Recorded
  <2>3. rows'[i] = rows[i] BY <1>1, <2>2
  <2>4. i <= counted' /\ i \in delivered' BY <1>2, <2>1, <2>2 DEF Grows
  <2> QED BY <1>3, <2>3, <2>4 DEF Owed
<1>4. Running => InTime' BY <1>2 DEF QueryInv, QueryIs, InTime, Grows
<1>5. QueryIs' BY <1>3, <1>4 DEF QueryInv, QueryIs, Running, RecentEnough
<1>6. PartsAre'
  <2>1. /\ PartIs(MainTimes(TRUE), MainTimes(FALSE), query.plan, query.scope, query.due.main, query.main, rows)
        /\ PartIs(TotalTimes(TRUE), TotalTimes(FALSE), query.plan, query.scope, query.due.totals, query.totals, rows)
        /\ PartIs(GridTimes(TRUE, query.shown, query.span), GridTimes(FALSE, query.shown, query.span),
                  query.plan, query.scope, query.due.grid, query.grid, rows)
    BY DEF QueryInv, PartsAre
  <2>2. DOMAIN rows \subseteq DOMAIN rows' BY DEF Grows
  <2>3. PartIs(MainTimes(TRUE), MainTimes(FALSE), query.plan, query.scope, query.due.main, query.main, rows')
    BY <1>1, <2>1, <2>2, PartStays
  <2>4. PartIs(TotalTimes(TRUE), TotalTimes(FALSE), query.plan, query.scope, query.due.totals, query.totals, rows')
    BY <1>1, <2>1, <2>2, PartStays
  <2>5. PartIs(GridTimes(TRUE, query.shown, query.span), GridTimes(FALSE, query.shown, query.span),
               query.plan, query.scope, query.due.grid, query.grid, rows')
    BY <1>1, <2>1, <2>2, PartStays
  <2> QED BY <2>3, <2>4, <2>5 DEF PartsAre
<1> QED BY <1>5, <1>6 DEF QueryInv, Grows

\* The writers step between two statements.
LEMMA WriterKeeps == ASSUME QueryInv, Writer PROVE QueryInv'
<1>1. Recorded BY DEF QueryInv
<1>2. now \in Int /\ (Running => query.qnow \in Int /\ now <= query.qnow + QueryTime) /\ QueryTime \in Int
  BY <1>1, RecordedTyped, QueryAssumption DEF QueryInv, QueryIs, InTime
<1>3. UNCHANGED <<counted, query>> BY DEF Writer
<1>4. CASE Tick /\ (Running => now < query.qnow + QueryTime)
  <2>1. Grows /\ now' = now + 1 BY <1>1, <1>3, <1>4, TickGrows
  <2>2. Running => now' <= query.qnow + QueryTime BY <1>2, <1>4, <2>1
  <2> QED BY <1>3, <2>1, <2>2, QueryStays
<1>5. CASE CacheWork
  <2>1. Grows /\ now' = now BY <1>1, <1>3, <1>5, CacheGrows
  <2> QED BY <1>2, <1>3, <2>1, QueryStays
<1>6. CASE \E t \in EventTimes, c \in Credentials : Commit(t, c)
  <2>1. PICK t \in EventTimes, c \in Credentials : Commit(t, c) BY <1>6
  <2>2. Grows /\ now' = now BY <1>1, <1>3, <2>1, CommitGrows
  <2> QED BY <1>2, <1>3, <2>2, QueryStays
<1>7. CASE Close \/ WorkerExit
  <2>1. /\ UNCHANGED <<now, rows, offered, queue, held, cached, delivered>>
        /\ worker' \in {"took", "has"} => worker' = worker
    BY <1>7 DEF Close, WorkerExit
  <2>2. Recorded' BY <1>1, <1>3, <2>1 DEF Recorded
  <2>3. counted <= counted' /\ now <= now' BY <1>1, <1>3, <2>1, RecordedTyped
  <2>4. Grows BY <1>3, <2>1, <2>2, <2>3 DEF Grows
  <2> QED BY <1>2, <1>3, <2>1, <2>4, QueryStays
<1> QED BY <1>4, <1>5, <1>6, <1>7 DEF Writer

\* The statistics take in an event.
LEMMA CountingKeeps == ASSUME QueryInv, Aggregate PROVE QueryInv'
<1>1. /\ UNCHANGED <<now, rows, offered, queue, worker, held, cached, delivered, query>>
      /\ counted < Len(rows) /\ counted' = counted + 1
  BY DEF Aggregate, cacheVars
<1>2. Recorded BY DEF QueryInv
<1>3. counted \in Int /\ 0 <= counted /\ Len(rows) \in Nat /\ now \in Int BY <1>2, RecordedTyped
<1>4. counted' \in 0..Len(rows) /\ counted <= counted' BY <1>1, <1>3
<1>5. Recorded' BY <1>1, <1>2, <1>4 DEF Recorded
<1>6. Grows BY <1>1, <1>3, <1>4, <1>5 DEF Grows
<1>7. Running => now' <= query.qnow + QueryTime BY <1>1 DEF QueryInv, QueryIs, InTime
<1> QED BY <1>1, <1>6, <1>7, QueryStays

\* The next statement of the query.
LEMMA ReadKeeps == ASSUME QueryInv, Step PROVE QueryInv'
<1>1. Recorded /\ QueryIs /\ PartsAre BY DEF QueryInv
<1>2. PICK s, rest : s = Head(query.plan) /\ rest = Tail(query.plan) OBVIOUS
<1>3. /\ Running /\ query.plan # <<>>
      /\ query' = [query EXCEPT !.plan = rest, !.main = Tally(query.main, MainIds(s)),
                                !.totals = Tally(query.totals, TotalIds(s)), !.grid = Tally(query.grid, GridIds(s))]
      /\ UNCHANGED <<now, rows, offered, queue, worker, held, cached, delivered, counted>>
  BY <1>2 DEF Step, cacheVars
<1>4. /\ query'.kind = query.kind /\ query'.qnow = query.qnow /\ query'.plan = rest /\ query'.shown = query.shown
      /\ query'.span = query.span /\ query'.scope = query.scope /\ query'.due = query.due
      /\ query'.main = Tally(query.main, MainIds(s)) /\ query'.totals = Tally(query.totals, TotalIds(s))
      /\ query'.grid = Tally(query.grid, GridIds(s))
      /\ query' = [kind |-> query'.kind, qnow |-> query'.qnow, plan |-> query'.plan, shown |-> query'.shown,
                   span |-> query'.span, scope |-> query'.scope, due |-> query'.due,
                   main |-> query'.main, totals |-> query'.totals, grid |-> query'.grid]
  <2>1. query = [kind |-> query.kind, qnow |-> query.qnow, plan |-> query.plan, shown |-> query.shown,
                 span |-> query.span, scope |-> query.scope, due |-> query.due,
                 main |-> query.main, totals |-> query.totals, grid |-> query.grid]
    BY <1>1 DEF QueryIs
  <2> QED BY <1>3, <2>1
<1>5. Recorded' BY <1>1, <1>3 DEF Recorded
<1>6. query.plan \in Seq(ReadSet) BY <1>1 DEF PartsAre, PartIs
<1>7. InTime BY <1>1, <1>3 DEF QueryIs
<1>8. Taking(MainTimes(TRUE), query.plan, s, rest) BY <1>2, <1>3, <1>6, TakenIs
<1>9. /\ s \in ReadSet /\ rest \in Seq(ReadSet)
      /\ \A k \in 1..Len(rest) : k + 1 \in 1..Len(query.plan) /\ rest[k] = query.plan[k + 1]
  BY <1>8, Zenon DEF Taking
<1>10. RecentEnough(s, query.qnow)
  <2>1. 1 \in 1..Len(query.plan) /\ s = query.plan[1] BY <1>2, <1>3, <1>6
  <2> QED BY <1>1, <2>1 DEF QueryIs
<1>11. \A k \in 1..Len(rest) : RecentEnough(rest[k], query.qnow) BY <1>1, <1>9 DEF QueryIs
<1>12. QueryIs'
  <2>1. \A k \in 1..Len(query'.plan) : RecentEnough(query'.plan[k], query'.qnow) BY <1>4, <1>11 DEF RecentEnough
  <2>2. \A i : Owed(i, query.qnow) <=> Owed(i, query.qnow)' BY <1>3, <1>4 DEF Owed
  <2>3. \A i \in query'.due.main \cup query'.due.totals \cup query'.due.grid : Owed(i, query.qnow)'
    BY <1>1, <1>4, <2>2 DEF QueryIs
  <2>4. InTime' /\ Running' BY <1>3, <1>4, <1>7 DEF InTime, Running
  <2> QED BY <1>4, <2>1, <2>3, <2>4 DEF QueryIs
<1>13. \A i \in query.due.main \cup query.due.totals \cup query.due.grid : Owed(i, query.qnow) /\ i \in Committed
  BY <1>1, CommittedAre DEF QueryIs, Owed
<1>14. ASSUME NEW T, NEW F, NEW ids, FindsTimes(ids, T, F, s), NEW due, NEW tally,
              \A i \in due : Owed(i, query.qnow) /\ i \in Committed,
              PartIs(T, F, query.plan, query.scope, due, tally, rows)
       PROVE  PartIs(T, F, rest, query.scope, due, Tally(tally, ids), rows)
  <2>1. \A i \in ids : i \in DOMAIN rows /\ rows[i].ts \in T[s] BY <1>14, Zenon DEF FindsTimes, Committed
  <2>2. \A i \in due : rows[i].ts \in F[s] => i \in ids BY <1>14, Zenon DEF FindsTimes
  <2> QED BY <1>2, <1>3, <1>14, <2>1, <2>2, PartSteps
<1>15. PartIs(MainTimes(TRUE), MainTimes(FALSE), rest, query.scope, query.due.main,
              Tally(query.main, MainIds(s)), rows)
  <2>1. FindsTimes(MainIds(s), MainTimes(TRUE), MainTimes(FALSE), s) BY <1>1, <1>7, <1>9, <1>10, MainFinds
  <2>2. PartIs(MainTimes(TRUE), MainTimes(FALSE), query.plan, query.scope, query.due.main, query.main, rows)
    BY <1>1 DEF PartsAre
  <2>3. \A i \in query.due.main : Owed(i, query.qnow) /\ i \in Committed BY <1>13
  <2> QED BY <1>14, <2>1, <2>2, <2>3
<1>16. PartIs(TotalTimes(TRUE), TotalTimes(FALSE), rest, query.scope, query.due.totals,
              Tally(query.totals, TotalIds(s)), rows)
  <2>1. FindsTimes(TotalIds(s), TotalTimes(TRUE), TotalTimes(FALSE), s) BY <1>1, <1>7, <1>9, TotalFinds
  <2>2. PartIs(TotalTimes(TRUE), TotalTimes(FALSE), query.plan, query.scope, query.due.totals, query.totals, rows)
    BY <1>1 DEF PartsAre
  <2>3. \A i \in query.due.totals : Owed(i, query.qnow) /\ i \in Committed BY <1>13
  <2> QED BY <1>14, <2>1, <2>2, <2>3
<1>17. PartIs(GridTimes(TRUE, query.shown, query.span), GridTimes(FALSE, query.shown, query.span), rest,
              query.scope, query.due.grid, Tally(query.grid, GridIds(s)), rows)
  <2>1. FindsTimes(GridIds(s), GridTimes(TRUE, query.shown, query.span),
                   GridTimes(FALSE, query.shown, query.span), s)
    BY <1>1, <1>7, <1>9, <1>10, GridFinds
  <2>2. PartIs(GridTimes(TRUE, query.shown, query.span), GridTimes(FALSE, query.shown, query.span), query.plan,
               query.scope, query.due.grid, query.grid, rows)
    BY <1>1 DEF PartsAre
  <2>3. \A i \in query.due.grid : Owed(i, query.qnow) /\ i \in Committed BY <1>13
  <2> QED BY <1>14, <2>1, <2>2, <2>3
<1>18. PartsAre' BY <1>3, <1>4, <1>15, <1>16, <1>17, Zenon DEF PartsAre
<1> QED BY <1>5, <1>12, <1>18 DEF QueryInv

\* What an answer owes is in the ranges its plan finds.
LEMMA SettledIs ==
  ASSUME Recorded, NEW lo, NEW hi
  PROVE  \A i \in SettledIn(now, lo, hi) : /\ i \in Ids \cap DOMAIN rows /\ Owed(i, now)
                                           /\ rows[i].ts \in Span(lo, hi)
<1> SUFFICES ASSUME NEW i \in SettledIn(now, lo, hi)
             PROVE  i \in Ids \cap DOMAIN rows /\ Owed(i, now) /\ rows[i].ts \in Span(lo, hi)
  OBVIOUS
<1>1. /\ i \in Committed /\ i <= counted /\ i \in delivered /\ Inside(rows[i].ts, lo, hi)
      /\ ~Inside(rows[i].ts, now - Window, now - Window + QueryTime)
  BY Zenon DEF SettledIn, Settled, Aggregated
<1>2. i \in Ids /\ rows[i].ts \in Times BY <1>1, CommittedAre
<1> QED BY <1>1, <1>2 DEF Owed, Span, Committed

\* A query starts with a plan that finds what it owes.
LEMMA StartKeeps ==
  ASSUME QueryInv, NEW kind, kind # "none", NEW plan, NEW scope, NEW due, NEW shown, NEW span,
         Start(kind, plan, scope, due, shown, span),
         NEW main, NEW totals, NEW grid, Plans(plan, shown, span, scope, main, totals, grid),
         \A k \in 1..Len(plan) : plan[k].op = "recent" => plan[k].lo >= now - Window + QueryTime,
         \A i \in due.main : i \in Ids \cap DOMAIN rows /\ Owed(i, now) /\ rows[i].ts \in main,
         \A i \in due.totals : i \in Ids \cap DOMAIN rows /\ Owed(i, now) /\ rows[i].ts \in totals,
         \A i \in due.grid : i \in Ids \cap DOMAIN rows /\ Owed(i, now) /\ rows[i].ts \in grid
  PROVE  QueryInv'
<1>1. /\ query' = [NoQuery EXCEPT !.kind = kind, !.qnow = now, !.plan = plan,
                                  !.scope = scope, !.due = due, !.shown = shown, !.span = span]
      /\ UNCHANGED <<now, rows, offered, queue, worker, held, cached, delivered, counted>>
  BY DEF Start, cacheVars
<1>2. /\ query'.kind = kind /\ query'.qnow = now /\ query'.plan = plan /\ query'.shown = shown
      /\ query'.span = span /\ query'.scope = scope /\ query'.due = due
      /\ query'.main = NoTally /\ query'.totals = NoTally /\ query'.grid = NoTally
      /\ query' = [kind |-> query'.kind, qnow |-> query'.qnow, plan |-> query'.plan, shown |-> query'.shown,
                   span |-> query'.span, scope |-> query'.scope, due |-> query'.due,
                   main |-> query'.main, totals |-> query'.totals, grid |-> query'.grid]
  BY <1>1 DEF NoQuery
<1>3. Recorded' BY <1>1 DEF QueryInv, Recorded
<1>4. QueryIs'
  <2>1. \A k \in 1..Len(query'.plan) : RecentEnough(query'.plan[k], query'.qnow) BY <1>2 DEF RecentEnough
  <2>2. \A i : Owed(i, now) <=> Owed(i, now)' BY <1>1 DEF Owed
  <2>3. \A i \in query'.due.main \cup query'.due.totals \cup query'.due.grid : Owed(i, now)' BY <1>2, <2>2
  <2>4. InTime' /\ Running'
    <3>1. now \in Int /\ QueryTime \in Nat BY RecordedTyped, QueryAssumption DEF QueryInv
    <3> QED BY <1>1, <1>2, <3>1 DEF InTime, Running
  <2>5. query'.qnow = now' BY <1>1, <1>2
  <2> QED BY <1>1, <1>2, <2>1, <2>3, <2>4, <2>5 DEF QueryIs
<1>5. PartsAre'
  <2>1. /\ Planned(MainTimes(TRUE), MainTimes(FALSE), plan, scope, main)
        /\ Planned(TotalTimes(TRUE), TotalTimes(FALSE), plan, scope, totals)
        /\ Planned(GridTimes(TRUE, shown, span), GridTimes(FALSE, shown, span), plan, scope, grid)
    BY DEF Plans
  <2>2. PartIs(MainTimes(TRUE), MainTimes(FALSE), plan, scope, due.main, NoTally, rows)
    BY <2>1, PartStarts
  <2>3. PartIs(TotalTimes(TRUE), TotalTimes(FALSE), plan, scope, due.totals, NoTally, rows)
    BY <2>1, PartStarts
  <2>4. PartIs(GridTimes(TRUE, shown, span), GridTimes(FALSE, shown, span), plan, scope, due.grid, NoTally, rows)
    BY <2>1, PartStarts
  <2> QED BY <1>1, <1>2, <2>2, <2>3, <2>4, Zenon DEF PartsAre
<1> QED BY <1>3, <1>4, <1>5 DEF QueryInv

\* The clock while a query is asked.
LEMMA NowIs ==
  ASSUME QueryInv
  PROVE  Recorded /\ now \in FirstTime..MaxTime /\ now \in Int
BY RecordedTyped DEF QueryInv, Recorded

\* An overview is asked for.
LEMMA AskOverviewKeeps ==
  ASSUME MidnightsAtWholeHours, QueryInv, NEW asked \in AskedRanges(now), AskOverview(asked)
  PROVE  QueryInv'
<1>1. PICK r, shown, span, plan, scope :
        /\ r = Effective(asked, now) /\ shown = HealthGrid(r, now) /\ span = GridSpan(r)
        /\ plan = OverviewPlan(asked, now)
        /\ scope = r.start..(IF CurrentRight(asked, now) THEN MaxTime ELSE r.end)
  OBVIOUS
<1>2. PICK ids, seen : /\ ids = IF r.start < r.end THEN SettledIn(now, r.start, r.end + 1) ELSE {}
                       /\ seen = SettledIn(now, shown[1], shown[2])
  OBVIOUS
<1>3. PICK due : due = [main |-> ids, totals |-> ids, grid |-> seen] OBVIOUS
<1>4. Start("overview", plan, scope, due, shown, span) BY <1>1, <1>2, <1>3, Zenon DEF AskOverview
<1>5. PICK owed, g : /\ owed = IF r.start < r.end THEN Span(r.start, r.end + 1) ELSE {}
                     /\ g = Span(shown[1], shown[2])
  OBVIOUS
<1>6. Plans(plan, shown, span, scope, owed, owed, g) /\ NoRecent(plan)
  <2>1. now \in FirstTime..MaxTime BY NowIs
  <2>2. /\ Plans(OverviewPlan(asked, now), shown, GridSpan(r),
                 r.start..(IF CurrentRight(asked, now) THEN MaxTime ELSE r.end),
                 owed, owed, Span(shown[1], shown[2]))
        /\ NoRecent(OverviewPlan(asked, now))
    BY <1>1, <1>5, <2>1, OverviewPlans
  <2> QED BY <1>1, <1>5, <2>2, Zenon
<1>7. \A i \in ids : i \in Ids \cap DOMAIN rows /\ Owed(i, now) /\ rows[i].ts \in owed
  <2>1. CASE r.start < r.end
    <3>1. ids = SettledIn(now, r.start, r.end + 1) /\ owed = Span(r.start, r.end + 1) BY <1>2, <1>5, <2>1
    <3> QED BY <3>1, NowIs, SettledIs
  <2>2. CASE ~(r.start < r.end) BY <1>2, <2>2
  <2> QED BY <2>1, <2>2
<1>8. \A i \in seen : i \in Ids \cap DOMAIN rows /\ Owed(i, now) /\ rows[i].ts \in g
  BY <1>2, <1>5, NowIs, SettledIs
<1>9. due.main = ids /\ due.totals = ids /\ due.grid = seen BY <1>3
<1>10. \A k \in 1..Len(plan) : plan[k].op = "recent" => plan[k].lo >= now - Window + QueryTime
  BY <1>6 DEF NoRecent
<1>11. "overview" # "none" OBVIOUS
<1> QED BY <1>4, <1>6, <1>7, <1>8, <1>9, <1>10, <1>11, StartKeeps

\* An analysis is asked for.
LEMMA AskAnalysisKeeps ==
  ASSUME MidnightsAtWholeHours, QueryInv, NEW r \in AskedRanges(now), AskAnalysis(r)
  PROVE  QueryInv'
<1>1. PICK a, b : a = r.start /\ b = r.end OBVIOUS
<1>2. a \in Int /\ b \in Int /\ \E m \in Midnights : m <= a BY <1>1, NowIs, AskedRangeIs
<1>3. PICK fs, fe, plan, scope : /\ fs = FullHourStart(a) /\ fe = AnalysisEnd(r) /\ plan = AnalysisPlan(r)
                                 /\ scope = a..AtLeast(b, AnalysisEnd(r) - 1)
  OBVIOUS
<1>4. PICK hours, ids, due : /\ hours = SettledIn(now, fs, fe) /\ ids = SettledIn(now, a, b + 1)
                             /\ due = [NoIds EXCEPT !.main = hours, !.totals = ids]
  OBVIOUS
<1>5. Start("analysis", plan, scope, due, NoGrid, 1) BY <1>1, <1>3, <1>4, Zenon DEF AskAnalysis, NoGrid
<1>6. Plans(plan, NoGrid, 1, scope, Span(fs, fe), Span(a, b + 1), {}) /\ NoRecent(plan)
  <2>1. /\ Plans(AnalysisPlan(r), NoGrid, 1, a..AtLeast(b, AnalysisEnd(r) - 1),
                 Span(FullHourStart(a), AnalysisEnd(r)), Span(a, b + 1), {})
        /\ NoRecent(AnalysisPlan(r))
    BY <1>1, <1>2, AnalysisPlans
  <2> QED BY <1>3, <2>1, Zenon
<1>7. /\ \A i \in hours : i \in Ids \cap DOMAIN rows /\ Owed(i, now) /\ rows[i].ts \in Span(fs, fe)
      /\ \A i \in ids : i \in Ids \cap DOMAIN rows /\ Owed(i, now) /\ rows[i].ts \in Span(a, b + 1)
  BY <1>4, NowIs, SettledIs
<1>8. due.main = hours /\ due.totals = ids /\ due.grid = {} BY <1>4 DEF NoIds
<1>9. \A k \in 1..Len(plan) : plan[k].op = "recent" => plan[k].lo >= now - Window + QueryTime
  BY <1>6 DEF NoRecent
<1>10. \A i \in due.grid : i \in Ids \cap DOMAIN rows /\ Owed(i, now) /\ rows[i].ts \in {} BY <1>8
<1>11. PICK none : none = {} OBVIOUS
<1>12. "analysis" # "none" OBVIOUS
<1> QED BY <1>5, <1>6, <1>7, <1>8, <1>9, <1>10, <1>11, <1>12, StartKeeps

\* The use of a quota window is asked for.
LEMMA AskQuotaKeeps ==
  ASSUME QueryInv, NEW a \in Int, NEW b \in Int, AskQuota(a, b)
  PROVE  QueryInv'
<1>1. PICK plan, scope, ids, due : /\ plan = QuotaPlan(a, b) /\ scope = a..(b - 1) /\ ids = SettledIn(now, a, b)
                                   /\ due = [NoIds EXCEPT !.main = ids]
  OBVIOUS
<1>2. a < b /\ Start("quota", plan, scope, due, NoGrid, 1) BY <1>1, Zenon DEF AskQuota, NoGrid
<1>3. PICK none : none = {} OBVIOUS
<1>4. Plans(plan, NoGrid, 1, scope, Span(a, b), none, none) /\ NoRecent(plan)
  <2>1. Plans(QuotaPlan(a, b), NoGrid, 1, a..(b - 1), Span(a, b), {}, {}) /\ NoRecent(QuotaPlan(a, b))
    BY <1>2, QuotaPlans
  <2> QED BY <1>1, <1>3, <2>1, Zenon
<1>5. \A i \in ids : i \in Ids \cap DOMAIN rows /\ Owed(i, now) /\ rows[i].ts \in Span(a, b)
  BY <1>1, NowIs, SettledIs
<1>6. due.main = ids /\ due.totals = none /\ due.grid = none BY <1>1, <1>3 DEF NoIds
<1>7. \A k \in 1..Len(plan) : plan[k].op = "recent" => plan[k].lo >= now - Window + QueryTime
  BY <1>4 DEF NoRecent
<1>8. \A i \in none : i \in Ids \cap DOMAIN rows /\ Owed(i, now) /\ rows[i].ts \in none BY <1>3
<1>9. "quota" # "none" OBVIOUS
<1> QED BY <1>2, <1>4, <1>5, <1>6, <1>7, <1>8, <1>9, StartKeeps

\* The realtime chart is asked for.
LEMMA AskRealtimeKeeps ==
  ASSUME QueryInv, AskRealtime
  PROVE  QueryInv'
<1>1. PICK plan, lo, point, scope : /\ plan = RealtimePlan(now) /\ lo = RealtimePlan(now)[1].lo
                                    /\ point = now - RealtimeWindow + RealtimeSpan /\ scope = lo..(now - 1)
  OBVIOUS
<1>2. PICK ids, first, due : /\ ids = SettledIn(now, lo, now)
                             /\ first = SettledIn(now, point - RealtimeAggregation, point)
                             /\ due = [NoIds EXCEPT !.main = ids, !.grid = first]
  OBVIOUS
<1>3. Start("realtime", plan, scope, due, NoGrid, 1) BY <1>1, <1>2, Zenon DEF AskRealtime, NoGrid
<1>4. PICK none, chart : none = {} /\ chart = Span(point - RealtimeAggregation, point) OBVIOUS
<1>5. /\ Plans(plan, NoGrid, 1, scope, Span(lo, now), none, chart)
      /\ lo \in Int /\ lo >= now - Window + QueryTime /\ \A k \in 1..Len(plan) : plan[k].lo = lo
  <2>1. now \in Int BY NowIs
  <2>2. /\ Plans(RealtimePlan(now), NoGrid, 1, lo..(now - 1),
                 Span(lo, now), {}, Span(point - RealtimeAggregation, point))
        /\ lo \in Int /\ lo >= now - Window + QueryTime
        /\ \A k \in 1..Len(RealtimePlan(now)) : RealtimePlan(now)[k].lo = lo
    BY <1>1, <2>1, RealtimePlans
  <2> QED BY <1>1, <1>4, <2>2, Zenon
<1>6. /\ \A i \in ids : i \in Ids \cap DOMAIN rows /\ Owed(i, now) /\ rows[i].ts \in Span(lo, now)
      /\ \A i \in first : i \in Ids \cap DOMAIN rows /\ Owed(i, now) /\ rows[i].ts \in chart
  BY <1>2, <1>4, NowIs, SettledIs
<1>7. due.main = ids /\ due.totals = none /\ due.grid = first BY <1>2, <1>4 DEF NoIds
<1>8. \A k \in 1..Len(plan) : plan[k].op = "recent" => plan[k].lo >= now - Window + QueryTime BY <1>5
<1>9. \A i \in none : i \in Ids \cap DOMAIN rows /\ Owed(i, now) /\ rows[i].ts \in none BY <1>4
<1>10. "realtime" # "none" OBVIOUS
<1> QED BY <1>3, <1>5, <1>6, <1>7, <1>8, <1>9, <1>10, StartKeeps

\* A page or an export of events is asked for.
LEMMA AskPageKeeps ==
  ASSUME QueryInv, NEW r \in AskedRanges(now), AskPage(r) \/ AskExport(r)
  PROVE  QueryInv'
<1>1. PICK a, b : a = r.start /\ b = r.end OBVIOUS
<1>2. a \in Int /\ b \in Int BY <1>1, NowIs, AskedRangeIs
<1>3. PICK scope, ids, none, owed : /\ scope = a..b /\ ids = SettledIn(now, a, b + 1) /\ none = {}
                                    /\ owed = Span(a, b + 1)
  OBVIOUS
<1>4. /\ Plans(PagePlan(r), NoGrid, 1, scope, owed, owed, none) /\ NoRecent(PagePlan(r))
      /\ Plans(ExportPlan(r), NoGrid, 1, scope, owed, none, none) /\ NoRecent(ExportPlan(r))
  <2>1. /\ Plans(PagePlan(r), NoGrid, 1, a..b, Span(a, b + 1), Span(a, b + 1), {})
        /\ Plans(ExportPlan(r), NoGrid, 1, a..b, Span(a, b + 1), {}, {})
        /\ NoRecent(PagePlan(r)) /\ NoRecent(ExportPlan(r))
    BY <1>1, <1>2, PagePlans
  <2> QED BY <1>3, <2>1, Zenon
<1>5. \A i \in ids : i \in Ids \cap DOMAIN rows /\ Owed(i, now) /\ rows[i].ts \in owed
  BY <1>3, NowIs, SettledIs
<1>6. \A i \in none : i \in Ids \cap DOMAIN rows /\ Owed(i, now) /\ rows[i].ts \in none BY <1>3
<1>7. \A k \in 1..Len(PagePlan(r)) : PagePlan(r)[k].op = "recent" => PagePlan(r)[k].lo >= now - Window + QueryTime
  BY <1>4 DEF NoRecent
<1>8. \A k \in 1..Len(ExportPlan(r)) :
        ExportPlan(r)[k].op = "recent" => ExportPlan(r)[k].lo >= now - Window + QueryTime
  BY <1>4 DEF NoRecent
<1>9. CASE AskPage(r)
  <2>1. PICK due, plan : due = [NoIds EXCEPT !.main = ids, !.totals = ids] /\ plan = PagePlan(r) OBVIOUS
  <2>2. Start("page", plan, scope, due, NoGrid, 1) BY <1>1, <1>3, <1>9, <2>1, Zenon DEF AskPage, NoGrid
  <2>3. due.main = ids /\ due.totals = ids /\ due.grid = none BY <1>3, <2>1 DEF NoIds
  <2>4. "page" # "none" OBVIOUS
  <2> QED BY <1>4, <1>5, <1>6, <1>7, <2>1, <2>2, <2>3, <2>4, StartKeeps
<1>10. CASE AskExport(r)
  <2>1. PICK due, plan : due = [NoIds EXCEPT !.main = ids] /\ plan = ExportPlan(r) OBVIOUS
  <2>2. Start("export", plan, scope, due, NoGrid, 1) BY <1>1, <1>3, <1>10, <2>1, Zenon DEF AskExport, NoGrid
  <2>3. due.main = ids /\ due.totals = none /\ due.grid = none BY <1>3, <2>1 DEF NoIds
  <2>4. "export" # "none" OBVIOUS
  <2> QED BY <1>4, <1>5, <1>6, <1>8, <2>1, <2>2, <2>3, <2>4, StartKeeps
<1> QED BY <1>9, <1>10

\* At the start there is no query and nothing is recorded.
LEMMA QueryInvInit == Init => QueryInv
<1> SUFFICES ASSUME Init PROVE QueryInv OBVIOUS
<1>1. /\ now = FirstTime /\ rows = <<>> /\ offered = 0 /\ queue = <<>> /\ worker = "idle"
      /\ cached = {} /\ delivered = {} /\ counted = 0 /\ query = NoQuery
  BY DEF Init, CacheInit
<1>2. FirstTime \in Int /\ MaxRows \in Nat BY CacheAssumption DEF CacheConstants
<1>3. FirstTime <= MaxTime BY CalendarAssumption
<1>4. Len(rows) = 0 /\ rows \in Seq([ts : EventTimes, cred : Credentials]) /\ 1..0 = {} BY <1>1
<1>5. Len(queue) = 0 /\ queue \in Seq(Int) BY <1>1
<1>6. Recorded BY <1>1, <1>2, <1>3, <1>4, <1>5 DEF Recorded
<1>7. /\ query.kind = "none" /\ query.plan = <<>> /\ query.scope = {} /\ query.due.main = {}
      /\ query.due.totals = {} /\ query.due.grid = {}
      /\ query.main = NoTally /\ query.totals = NoTally /\ query.grid = NoTally
  BY <1>1 DEF NoQuery, NoIds
<1>8. Len(query.plan) = 0 BY <1>7
<1>9. query = [kind |-> query.kind, qnow |-> query.qnow, plan |-> query.plan, shown |-> query.shown,
               span |-> query.span, scope |-> query.scope, due |-> query.due,
               main |-> query.main, totals |-> query.totals, grid |-> query.grid]
  BY <1>1 DEF NoQuery
<1>10. QueryIs BY <1>4, <1>7, <1>8, <1>9 DEF QueryIs, Running
<1>11. PartsAre
  <2>1. /\ PartIs(MainTimes(TRUE), MainTimes(FALSE), <<>>, {}, {}, NoTally, rows)
        /\ PartIs(TotalTimes(TRUE), TotalTimes(FALSE), <<>>, {}, {}, NoTally, rows)
        /\ PartIs(GridTimes(TRUE, query.shown, query.span), GridTimes(FALSE, query.shown, query.span),
                  <<>>, {}, {}, NoTally, rows)
    BY PartNone
  <2> QED BY <1>7, <2>1, Zenon DEF PartsAre
<1> QED BY <1>6, <1>10, <1>11 DEF QueryInv

\* Every step.
LEMMA QueryStepKeeps == ASSUME MidnightsAtWholeHours, QueryInv, Next PROVE QueryInv'
<1>1. CASE Writer BY <1>1, WriterKeeps
<1>2. CASE Reopen BY <1>2, ReopenKeeps DEF QueryInv
<1>3. CASE Step BY <1>3, ReadKeeps
<1>4. CASE Deliver BY <1>4, DeliverKeeps DEF QueryInv
<1>5. CASE Aggregate BY <1>5, CountingKeeps
<1>6. CASE Ask
  <2>1. ASSUME NEW r \in AskedRanges(now), AskOverview(r) \/ AskAnalysis(r) \/ AskPage(r) \/ AskExport(r)
        PROVE  QueryInv'
    BY <2>1, AskOverviewKeeps, AskAnalysisKeeps, AskPageKeeps
  <2>2. ASSUME NEW w \in CustomRanges, AskQuota(w[1], w[2]) PROVE QueryInv'
    <3>1. w[1] \in Int /\ w[2] \in Int BY QueryAssumption
    <3> QED BY <2>2, <3>1, AskQuotaKeeps
  <2>3. CASE AskRealtime BY <2>3, AskRealtimeKeeps
  <2> QED BY <1>6, <2>1, <2>2, <2>3 DEF Ask
<1> QED BY <1>1, <1>2, <1>3, <1>4, <1>5, <1>6 DEF Next

\* No step.
LEMMA QueryStutters ==
  ASSUME QueryInv, UNCHANGED <<now, rows, offered, queue, worker, held, cached, delivered, counted, query>>
  PROVE  QueryInv'
<1>1. Recorded' BY DEF QueryInv, Recorded
<1>2. counted <= counted' /\ now <= now' BY RecordedTyped DEF QueryInv
<1>3. Grows BY <1>1, <1>2 DEF Grows
<1>4. Running => now' <= query.qnow + QueryTime BY DEF QueryInv, QueryIs, InTime
<1> QED BY <1>3, <1>4, QueryStays

\* What the invariant is for.
LEMMA QuerySafe == QueryInv => CountedOnce /\ OnlyInside /\ (DaysOf24Hours => SettledCounted)
<1> SUFFICES ASSUME QueryInv PROVE CountedOnce /\ OnlyInside /\ (DaysOf24Hours => SettledCounted) OBVIOUS
<1>1. /\ query.main \in [Ids -> 0..1] /\ query.totals \in [Ids -> 0..1] /\ query.grid \in [Ids -> 0..1]
  BY DEF QueryInv, PartsAre, PartIs
<1>2. ASSUME NEW i \in Ids
      PROVE  /\ query.main[i] = 1 => rows[i].ts \in query.scope
             /\ query.totals[i] = 1 => rows[i].ts \in query.scope
             /\ query.grid[i] = 1 => rows[i].ts \in query.scope
  BY DEF QueryInv, PartsAre, PartIs
<1>3. CountedOnce
  <2> SUFFICES ASSUME NEW tally \in {query.main, query.totals, query.grid}, NEW i \in Ids PROVE tally[i] <= 1
    BY DEF CountedOnce
  <2>1. tally \in [Ids -> 0..1] BY <1>1
  <2>2. tally[i] \in 0..1 BY <2>1
  <2> QED BY <2>2
<1>4. OnlyInside
  <2> SUFFICES ASSUME NEW i \in Committed, query.main[i] + query.totals[i] + query.grid[i] > 0
               PROVE  rows[i].ts \in query.scope
    BY DEF OnlyInside
  <2>1. i \in Ids BY CommittedAre DEF QueryInv
  <2>2. query.main[i] \in 0..1 /\ query.totals[i] \in 0..1 /\ query.grid[i] \in 0..1 BY <1>1, <2>1
  <2>3. query.main[i] = 1 \/ query.totals[i] = 1 \/ query.grid[i] = 1 BY <2>2
  <2> QED BY <1>2, <2>1, <2>3
<1>5. ASSUME DaysOf24Hours, Answered PROVE SettledCounted
  <2>1. \A T : TakenBy(T, <<>>) = {}
    <3>1. DOMAIN <<>> = {} OBVIOUS
    <3> QED BY <3>1 DEF TakenBy
  <2>2. query.plan = <<>> BY <1>5 DEF Answered
  <2>3. /\ \A i \in query.due.main : query.main[i] = 1 \/ rows[i].ts \in TakenBy(MainTimes(FALSE), <<>>)
        /\ \A i \in query.due.totals : query.totals[i] = 1 \/ rows[i].ts \in TakenBy(TotalTimes(FALSE), <<>>)
        /\ \A i \in query.due.grid :
             query.grid[i] = 1 \/ rows[i].ts \in TakenBy(GridTimes(FALSE, query.shown, query.span), <<>>)
    BY <1>5, <2>2 DEF QueryInv, PartsAre, PartIs
  <2> QED BY <2>1, <2>3 DEF SettledCounted
<1> QED BY <1>3, <1>4, <1>5 DEF SettledCounted

=============================================================================
