----------------------- MODULE UsageAggregationProofs -----------------------
(***************************************************************************)
(* For every set of identities, batch size and number of events, faults    *)
(* and crashes: the lifetime totals count no request twice and none of the *)
(* stored ones out, and the overview takes every event once, whatever the  *)
(* interleaving of the two aggregators, the cleanup and crashes.           *)
(***************************************************************************)
EXTENDS UsageAggregation, FiniteSetTheorems, WellFoundedInduction, TLAPS

(* A non-empty set of ids has a greatest one, and Max finds it. *)
LEMMA MaxOfIds ==
  ASSUME NEW n \in Nat, NEW S \in SUBSET (1 .. n), S # {}
  PROVE  Max(S) \in S /\ \A y \in S : Max(S) >= y
<1> DEFINE Above(e) == {x \in S : x > e}
<1> DEFINE Aboves == {Above(e) : e \in S}
<1>1. IsFiniteSet(S)
  <2>1. IsFiniteSet(1 .. n) BY FS_Interval
  <2> QED BY <2>1, FS_Subset
<1>2. IsWellFoundedOn(StrictSubsetOrdering(S), FiniteSubsetsOf(S))
  BY FS_StrictSubsetOrderingWellFounded
<1>3. Aboves \subseteq FiniteSubsetsOf(S) BY <1>1, FS_FiniteSubsetsOfFinite
<1>4. PICK A \in Aboves : \A B \in Aboves : <<B, A>> \notin StrictSubsetOrdering(S)
  <2> HIDE DEF Aboves
  <2>1. Aboves # {} BY DEF Aboves
  <2> QED BY <1>2, <1>3, <2>1, WFMin, Zenon
<1>5. PICK e \in S : A = Above(e) OBVIOUS
<1>6. \A y \in S : e >= y
  <2> SUFFICES ASSUME NEW y \in S, y > e PROVE FALSE OBVIOUS
  <2>5. y \in Int /\ e \in Int /\ \A x \in S : x \in Int /\ (x > y => x > e) OBVIOUS
  <2>1. Above(y) \subseteq Above(e) BY <2>5, Zenon
  <2>4. y \in Above(e) /\ y \notin Above(y) BY <2>5
  <2>2. Above(y) # Above(e) /\ Above(y) \in Aboves
    <3> HIDE DEF Above
    <3> QED BY <2>4
  <2>3. <<Above(y), A>> \in StrictSubsetOrdering(S)
    BY <1>5, <2>1, <2>2 DEF StrictSubsetOrdering
  <2> QED BY <1>4, <2>2, <2>3
<1> QED BY <1>6 DEF Max

-----------------------------------------------------------------------------
(* Types. *)

\* What an aggregation adds to a row is a finite set of events, with a number of them.
LEMMA DeltaType ==
  ASSUME TypeOK, NEW i \in Identities, NEW c \in Nat
  PROVE  /\ Delta(i, c) \in SUBSET (1 .. (next - 1))
         /\ IsFiniteSet(Delta(i, c)) /\ Cardinality(Delta(i, c)) \in Nat
<1>1. Delta(i, c) \in SUBSET (1 .. (next - 1)) BY DEF Delta, TypeOK
<1>2. IsFiniteSet(1 .. (next - 1)) BY FS_Interval DEF TypeOK
<1>3. IsFiniteSet(Delta(i, c)) BY <1>1, <1>2, FS_Subset
<1> QED BY <1>1, <1>3, FS_CardinalityType

\* The start has the types of the state.
LEMMA InitType == Init => TypeOK
BY AggregationConstants DEF Init, TypeOK, Nothing, Ids

(* A step of ApplyDeltas moves cursors and totals within their types. *)
LEMMA ApplyType ==
  ASSUME TypeOK, NEW a \in Aggregators, ApplyDeltas(a)
  PROVE  /\ total' \in [Identities -> Nat]
         /\ cursor' \in [Identities -> 0 .. (next - 1)]
<1> USE AggregationConstants
<1> DEFINE moved == {i \in seen[a].rows : Delta(i, seen[a].cursor[i]) # {}}
<1>1. \A i \in Identities : /\ seen[a].cursor[i] \in 0 .. (next - 1)
                            /\ seen[a].total[i] \in Nat /\ seen[a].cursor[i] \in Nat
  BY DEF TypeOK, Aggregators
<1>2. \A i \in Identities : NewTotal(a, i) \in Nat BY <1>1, DeltaType DEF NewTotal
<1>3. \A i \in Identities : Delta(i, seen[a].cursor[i]) # {} =>
                              NewCursor(i, seen[a].cursor[i]) \in 0 .. (next - 1)
  <2> SUFFICES ASSUME NEW i \in Identities, Delta(i, seen[a].cursor[i]) # {}
               PROVE  NewCursor(i, seen[a].cursor[i]) \in 0 .. (next - 1)
    OBVIOUS
  <2>1. Delta(i, seen[a].cursor[i]) \in SUBSET (1 .. (next - 1)) BY <1>1, DeltaType
  <2>2. next - 1 \in Nat BY DEF TypeOK
  <2>3. NewCursor(i, seen[a].cursor[i]) \in Delta(i, seen[a].cursor[i])
    BY <2>1, <2>2, MaxOfIds DEF NewCursor
  <2> QED BY <2>1, <2>3
<1>4. /\ total' = [i \in Identities |-> IF i \in moved THEN NewTotal(a, i) ELSE total[i]]
      /\ cursor' = [i \in Identities |-> IF i \in moved
                      THEN NewCursor(i, seen[a].cursor[i]) ELSE cursor[i]]
  BY DEF ApplyDeltas
<1>5. \A i \in moved : i \in Identities BY DEF TypeOK, Aggregators
<1>6. total \in [Identities -> Nat] /\ cursor \in [Identities -> 0 .. (next - 1)]
  BY DEF TypeOK
<1> QED BY <1>2, <1>3, <1>4, <1>6

\* A step keeps the types: totals are numbers, and a cursor is at an event there is.
LEMMA TypeStep == TypeOK /\ [Next]_vars => TypeOK'
<1> USE AggregationConstants
<1> SUFFICES ASSUME TypeOK, [Next]_vars PROVE TypeOK' OBVIOUS
<1>f. Fault => faults' \in 0 .. MaxFaults /\ crashes' \in 0 .. MaxCrashes
  BY DEF TypeOK, Fault
<1>n. Nothing \in [rows : SUBSET Identities, total : [Identities -> Nat],
                   cursor : [Identities -> 0 .. (next - 1)]]
  BY DEF Nothing, TypeOK
<1>g. \A a \in Aggregators : \A s : Goto(a, s) =>
        /\ s \in {"idle", "load", "apply", "overview", "down", "startup",
                  "providers", "providersOnly"} =>
             pc' \in [Aggregators -> {"idle", "load", "apply", "overview", "down",
                                      "startup", "providers", "providersOnly"}]
        /\ seen' \in [Aggregators -> [rows : SUBSET Identities,
                        total : [Identities -> Nat], cursor : [Identities -> 0 .. (next - 1)]]]
  BY <1>n DEF Goto, TypeOK
<1> USE DEF eventVars, identityVars, overviewVars, budgetVars
<1>1. CASE UNCHANGED vars BY <1>1 DEF vars, TypeOK
<1>2. ASSUME NEW n \in 1 .. MaxInsert, InsertEvents(n) PROVE TypeOK'
  <2>1. /\ next' = next + n /\ next' \in 1 .. (MaxEvents + 1) /\ n \in Nat
        /\ stored' \in SUBSET (1 .. (next' - 1))
    BY <1>2 DEF InsertEvents, InsertId, NextId, TypeOK
  <2>2. Goto("runner", "load") /\ "runner" \in Aggregators
    BY <1>2 DEF InsertEvents, Aggregators
  <2>3. \A c \in 0 .. (next - 1) : c \in 0 .. (next' - 1) BY <2>1 DEF TypeOK
  <2>4. \A f \in [Identities -> 0 .. (next - 1)] : f \in [Identities -> 0 .. (next' - 1)]
    BY <2>3
  <2>5. seen' \in [Aggregators -> [rows : SUBSET Identities, total : [Identities -> Nat],
                                   cursor : [Identities -> 0 .. (next' - 1)]]]
    BY <1>g, <2>2, <2>4
  <2> QED BY <1>2, <1>g, <2>1, <2>2, <2>3, <2>4, <2>5 DEF InsertEvents, TypeOK
<1>3. CASE EmptyRound BY <1>3, <1>g DEF EmptyRound, TypeOK, Aggregators
<1>4. ASSUME NEW a \in Aggregators, LoadRows(a) PROVE TypeOK'
  BY <1>4 DEF LoadRows, TypeOK
<1>5. ASSUME NEW a \in Aggregators, ApplyDeltas(a) PROVE TypeOK'
  BY <1>5, <1>g, ApplyType DEF ApplyDeltas, TypeOK
<1>6. ASSUME NEW a \in Aggregators, AggregationFails(a) PROVE TypeOK'
  BY <1>6, <1>f, <1>g DEF AggregationFails, TypeOK
<1>7. CASE OverviewBatch
  <2>1. checkpoint' \in 0 .. (next - 1)
    <3>1. Batch \in SUBSET (1 .. (next - 1)) BY DEF Batch, Unaggregated, TypeOK
    <3>3. next - 1 \in Nat BY DEF TypeOK
    <3>2. Batch # {} => Max(Batch) \in Batch BY <3>1, <3>3, MaxOfIds
    <3> QED BY <1>7, <3>1, <3>2 DEF OverviewBatch, TypeOK
  <2>2. overview' \in [Ids -> Nat] BY <1>7 DEF OverviewBatch, TypeOK
  <2> QED BY <1>7, <1>g, <2>1, <2>2 DEF OverviewBatch, TypeOK, Aggregators
<1>8. CASE OverviewFails BY <1>8, <1>f, <1>g DEF OverviewFails, TypeOK, Aggregators
<1>9. CASE SyncAuthFiles
  <2>1. rows' \in SUBSET Identities /\ active' \in SUBSET rows'
    BY <1>9 DEF SyncAuthFiles, TypeOK, Identities
  <2>2. faults' \in 0 .. MaxFaults /\ crashes' \in 0 .. MaxCrashes
    BY <1>9, <1>f DEF SyncAuthFiles, TypeOK
  <2>3. Goto("metadata", "providers") \/ Goto("metadata", "providersOnly")
    BY <1>9 DEF SyncAuthFiles
  <2> QED BY <1>9, <1>g, <2>1, <2>2, <2>3 DEF SyncAuthFiles, TypeOK, Aggregators
<1>10. CASE SyncProviders
  <2>1. rows' \in SUBSET Identities /\ active' \in SUBSET rows'
    BY <1>10 DEF SyncProviders, TypeOK, Identities
  <2>2. faults' \in 0 .. MaxFaults /\ crashes' \in 0 .. MaxCrashes
    BY <1>10, <1>f DEF SyncProviders, TypeOK
  <2>3. Goto("metadata", "load") \/ Goto("metadata", "idle")
    BY <1>10 DEF SyncProviders
  <2> QED BY <1>10, <1>g, <2>1, <2>2, <2>3 DEF SyncProviders, TypeOK, Aggregators
<1>11. CASE CleanupUsageEvents
  <2>1. stored' \in SUBSET stored /\ missed' \in SUBSET (missed \cup stored)
    BY <1>11 DEF CleanupUsageEvents
  <2>2. stored \subseteq Ids BY DEF TypeOK, Ids
  <2> QED BY <1>11, <2>1, <2>2 DEF CleanupUsageEvents, TypeOK
<1>12. CASE Crash BY <1>12, <1>n DEF Crash, TypeOK
<1>13. CASE Start BY <1>13, <1>g DEF Start, TypeOK, Aggregators
<1> QED
  BY <1>1, <1>2, <1>3, <1>4, <1>5, <1>6, <1>7, <1>8, <1>9, <1>10, <1>11, <1>12, <1>13
     DEF Next, Runner, Metadata, Aggregate, Aggregators

-----------------------------------------------------------------------------
(* The totals. A total t with cursor c counts right for identity i when it  *)
(* has all stored events up to c and no more than were ever stored; this is *)
(* so of the rows and of every copy an aggregator holds.                    *)

Past(i, c, n, ow) == {e \in 1 .. (n - 1) : ow[e] = i /\ e <= c}

Counts(t, c, i, n, ow, st) ==
  /\ t <= Cardinality(Past(i, c, n, ow))
  /\ t >= Cardinality(Past(i, c, n, ow) \cap st)

CountsOK ==
  \A i \in Identities :
    /\ Counts(total[i], cursor[i], i, next, owner, stored)
    /\ \A a \in Aggregators :
         Counts(seen[a].total[i], seen[a].cursor[i], i, next, owner, stored)

\* The events an identity had up to a cursor are finitely many.
LEMMA PastFinite ==
  ASSUME NEW i, NEW c, NEW n \in Nat, NEW ow, NEW st
  PROVE  /\ IsFiniteSet(Past(i, c, n, ow)) /\ Cardinality(Past(i, c, n, ow)) \in Nat
         /\ IsFiniteSet(Past(i, c, n, ow) \cap st)
         /\ Cardinality(Past(i, c, n, ow) \cap st) \in Nat
<1>1. IsFiniteSet(1 .. (n - 1)) BY FS_Interval
<1>2. Past(i, c, n, ow) \in SUBSET (1 .. (n - 1)) BY DEF Past
<1>3. Past(i, c, n, ow) \cap st \in SUBSET (1 .. (n - 1)) BY <1>2
<1>4. IsFiniteSet(Past(i, c, n, ow)) BY <1>1, <1>2, FS_Subset
<1>5. IsFiniteSet(Past(i, c, n, ow) \cap st) BY <1>1, <1>3, FS_Subset
<1> QED BY <1>4, <1>5, FS_CardinalityType

(* New events, which have ids past every cursor, and deletions leave a      *)
(* count right.                                                             *)
LEMMA CountsKept ==
  ASSUME NEW n \in Nat, NEW nn \in Nat, nn >= n, NEW ow, NEW st, NEW ss,
         ss \cap (1 .. (n - 1)) \subseteq st,
         NEW i, NEW c \in 0 .. (n - 1), NEW t \in Nat, Counts(t, c, i, n, ow, st)
  PROVE  Counts(t, c, i, nn, ow, ss)
<1>1. Past(i, c, nn, ow) = Past(i, c, n, ow) BY DEF Past
<1> DEFINE P == Past(i, c, n, ow)
<1>2. P \cap ss \in SUBSET (P \cap st) BY DEF Past
<1>3. IsFiniteSet(P \cap st) /\ Cardinality(P \cap st) \in Nat /\ Cardinality(P) \in Nat
  BY PastFinite
<1>4. Cardinality(P \cap ss) \in Nat BY PastFinite
<1> HIDE DEF P
<1>5. Cardinality(P \cap ss) <= Cardinality(P \cap st) BY <1>2, <1>3, FS_Subset
<1> QED BY <1>1, <1>3, <1>4, <1>5 DEF Counts, P

(* A count that is right stays right when the delta past its cursor is      *)
(* added and the cursor moves to the end of the delta.                      *)
LEMMA CountsAdvance ==
  ASSUME TypeOK, NEW i \in Identities, NEW c \in 0 .. (next - 1), NEW t \in Nat,
         Counts(t, c, i, next, owner, stored), Delta(i, c) # {}
  PROVE  Counts(t + Cardinality(Delta(i, c)), NewCursor(i, c), i, next, owner, stored)
<1> DEFINE D == Delta(i, c)
<1> DEFINE m == NewCursor(i, c)
<1> DEFINE P(k) == Past(i, k, next, owner)
<1>1. /\ D \in SUBSET (1 .. (next - 1)) /\ IsFiniteSet(D) /\ Cardinality(D) \in Nat
  BY DeltaType
<1>2. next \in Nat /\ next - 1 \in Nat /\ stored \subseteq 1 .. (next - 1) BY DEF TypeOK
<1>3. m \in D /\ \A y \in D : m >= y BY <1>1, <1>2, MaxOfIds DEF NewCursor
<1>4. \A e : e \in D <=> e \in stored /\ owner[e] = i /\ e > c BY DEF Delta
<1>5. \A k, e : e \in P(k) <=> e \in 1 .. (next - 1) /\ owner[e] = i /\ e <= k
  BY DEF Past
<1>6. \A k : /\ IsFiniteSet(P(k)) /\ Cardinality(P(k)) \in Nat
             /\ IsFiniteSet(P(k) \cap stored) /\ Cardinality(P(k) \cap stored) \in Nat
  BY <1>2, PastFinite
<1> HIDE DEF m, D, P
<1>7. m \in 1 .. (next - 1) /\ m > c BY <1>1, <1>3, <1>4
<1>8. \A e \in 1 .. (next - 1) : /\ e <= m <=> e <= c \/ (e > c /\ e <= m)
                                 /\ e \in D => e <= m
  BY <1>2, <1>3, <1>7
<1>9. P(m) \cap stored = (P(c) \cap stored) \cup D
  <2>1. \A e : e \in P(m) \cap stored <=> e \in (P(c) \cap stored) \cup D
    BY <1>2, <1>4, <1>5, <1>8
  <2> QED BY <2>1, Zenon
<1>10. P(c) \cup D \subseteq P(m)
  <2>1. \A e : e \in P(c) \cup D => e \in P(m) BY <1>2, <1>4, <1>5, <1>8
  <2> QED BY <2>1, Zenon
<1>11. P(c) \cap D = {} BY <1>2, <1>4, <1>5
<1>12. Cardinality({}) = 0 BY FS_EmptySet
<1>13. Cardinality(P(m) \cap stored) = Cardinality(P(c) \cap stored) + Cardinality(D)
  <2>1. (P(c) \cap stored) \cap D = {} BY <1>11
  <2>2. Cardinality((P(c) \cap stored) \cup D) =
          Cardinality(P(c) \cap stored) + Cardinality(D) - Cardinality({})
    BY <1>1, <1>6, <2>1, FS_Union
  <2>3. Cardinality(P(m) \cap stored) = Cardinality((P(c) \cap stored) \cup D)
    BY <1>9, Zenon
  <2> QED BY <1>1, <1>6, <1>12, <2>2, <2>3
<1>14. Cardinality(P(c)) + Cardinality(D) <= Cardinality(P(m))
  <2>1. Cardinality(P(c) \cup D) = Cardinality(P(c)) + Cardinality(D) - Cardinality({})
    BY <1>1, <1>6, <1>11, FS_Union
  <2>2. Cardinality(P(c) \cup D) <= Cardinality(P(m)) BY <1>6, <1>10, FS_Subset
  <2> QED BY <1>1, <1>6, <1>12, <2>1, <2>2
<1> QED BY <1>1, <1>6, <1>13, <1>14 DEF Counts, D, m, P

(* Nothing was counted of no events. *)
LEMMA CountsNothing == \A i, n, ow, st : Counts(0, 0, i, n, ow, st)
<1> TAKE i, n, ow, st
<1>1. Past(i, 0, n, ow) = {} BY DEF Past
<1>2. Cardinality(Past(i, 0, n, ow)) = 0 /\ Cardinality(Past(i, 0, n, ow) \cap st) = 0
  BY <1>1, FS_EmptySet
<1> QED BY <1>2 DEF Counts

\* The start counts nothing.
LEMMA CountsInit == Init => CountsOK
BY CountsNothing DEF Init, CountsOK, Nothing

\* A step keeps what rows and aggregators count right.
LEMMA CountsStep == TypeOK /\ CountsOK /\ [Next]_vars => CountsOK'
<1> USE AggregationConstants
<1> SUFFICES ASSUME TypeOK, CountsOK, [Next]_vars PROVE CountsOK' OBVIOUS
<1>y. /\ next \in Nat
      /\ \A i \in Identities : /\ total[i] \in Nat /\ cursor[i] \in 0 .. (next - 1)
                               /\ \A a \in Aggregators : /\ seen[a].total[i] \in Nat
                                                         /\ seen[a].cursor[i] \in 0 .. (next - 1)
  BY DEF TypeOK
<1>o. \A a \in Aggregators : \A s : Goto(a, s) => \A i \in Identities, b \in Aggregators :
        \/ seen'[b].total[i] = seen[b].total[i] /\ seen'[b].cursor[i] = seen[b].cursor[i]
        \/ seen'[b].total[i] = 0 /\ seen'[b].cursor[i] = 0
  BY DEF Goto, Nothing, TypeOK
<1> DEFINE Keeps == /\ owner' = owner /\ next' \in Nat /\ next' >= next
                    /\ stored' \cap (1 .. (next - 1)) \subseteq stored
           SeenKept == \A i \in Identities, b \in Aggregators :
             \/ seen'[b].total[i] = seen[b].total[i] /\ seen'[b].cursor[i] = seen[b].cursor[i]
             \/ seen'[b].total[i] = 0 /\ seen'[b].cursor[i] = 0
(* Steps that leave the rows' counters alone, and by which an aggregator at *)
(* most forgets what it read.                                               *)
<1>q. ASSUME Keeps, SeenKept, total' = total, cursor' = cursor PROVE CountsOK'
  <2> SUFFICES ASSUME NEW i \in Identities
               PROVE  /\ Counts(total'[i], cursor'[i], i, next', owner', stored')
                      /\ \A a \in Aggregators :
                           Counts(seen'[a].total[i], seen'[a].cursor[i], i, next', owner', stored')
    BY DEF CountsOK
  <2>1. Counts(total[i], cursor[i], i, next', owner', stored')
    BY <1>q, <1>y, CountsKept DEF CountsOK
  <2>2. ASSUME NEW a \in Aggregators
        PROVE  Counts(seen'[a].total[i], seen'[a].cursor[i], i, next', owner', stored')
    <3>1. Counts(seen[a].total[i], seen[a].cursor[i], i, next', owner', stored')
      BY <1>q, <1>y, CountsKept DEF CountsOK
    <3> QED BY <1>q, <3>1, CountsNothing
  <2> QED BY <1>q, <2>1, <2>2
<1>k. next' = next /\ owner' = owner /\ stored' \subseteq stored => Keeps BY <1>y
<1>s. seen' = seen => SeenKept OBVIOUS
<1>g. \A a \in Aggregators : \A s : Goto(a, s) => SeenKept BY <1>o
<1> HIDE DEF Keeps, SeenKept
<1> USE DEF eventVars, identityVars, overviewVars, budgetVars
<1>1. CASE UNCHANGED vars BY <1>1, <1>k, <1>q, <1>s DEF vars
<1>2. ASSUME NEW n \in 1 .. MaxInsert, InsertEvents(n) PROVE CountsOK'
  <2>1. Keeps BY <1>2, <1>y DEF InsertEvents, InsertId, NextId, Keeps
  <2> QED BY <1>2, <1>g, <1>q, <2>1 DEF InsertEvents, Aggregators
<1>3. CASE EmptyRound BY <1>3, <1>g, <1>k, <1>q DEF EmptyRound, Aggregators
<1>4. ASSUME NEW a \in Aggregators, LoadRows(a) PROVE CountsOK'
  BY <1>4 DEF LoadRows, CountsOK, TypeOK
<1>5. ASSUME NEW a \in Aggregators, ApplyDeltas(a) PROVE CountsOK'
  <2>1. Keeps BY <1>5, <1>k DEF ApplyDeltas
  <2>2. SeenKept
    <3>1. \E s : Goto(a, s) BY <1>5 DEF ApplyDeltas
    <3> QED BY <1>g, <3>1
  <2>3. UNCHANGED <<next, owner, stored>> BY <1>5 DEF ApplyDeltas
  <2> DEFINE c(i) == seen[a].cursor[i]
             moved == {i \in seen[a].rows : Delta(i, c(i)) # {}}
  <2>4. \A i \in Identities :
          /\ total'[i] = IF i \in moved THEN NewTotal(a, i) ELSE total[i]
          /\ cursor'[i] = IF i \in moved THEN NewCursor(i, c(i)) ELSE cursor[i]
    BY <1>5 DEF ApplyDeltas
  <2>5. ASSUME NEW i \in Identities
        PROVE  Counts(total'[i], cursor'[i], i, next, owner, stored)
    <3>1. CASE i \in moved
      <4>1. Counts(seen[a].total[i], c(i), i, next, owner, stored) BY DEF CountsOK
      <4>2. Counts(NewTotal(a, i), NewCursor(i, c(i)), i, next, owner, stored)
        BY <1>y, <3>1, <4>1, CountsAdvance DEF NewTotal
      <4> QED BY <2>4, <3>1, <4>2
    <3>2. CASE i \notin moved BY <2>4, <3>2 DEF CountsOK
    <3> QED BY <3>1, <3>2
  <2>6. ASSUME NEW i \in Identities, NEW b \in Aggregators
        PROVE  Counts(seen'[b].total[i], seen'[b].cursor[i], i, next, owner, stored)
    BY <2>2, CountsNothing DEF CountsOK, SeenKept
  <2> QED BY <2>3, <2>5, <2>6 DEF CountsOK
<1>6. ASSUME NEW a \in Aggregators, AggregationFails(a) PROVE CountsOK'
  BY <1>6, <1>g, <1>k, <1>q DEF AggregationFails
<1>7. CASE OverviewBatch BY <1>7, <1>g, <1>k, <1>q, <1>s DEF OverviewBatch, Aggregators
<1>8. CASE OverviewFails BY <1>8, <1>g, <1>k, <1>q DEF OverviewFails, Aggregators
<1>9. CASE SyncAuthFiles BY <1>9, <1>g, <1>k, <1>q DEF SyncAuthFiles, Aggregators
<1>10. CASE SyncProviders BY <1>10, <1>g, <1>k, <1>q DEF SyncProviders, Aggregators
<1>11. CASE CleanupUsageEvents
  <2>1. stored' \subseteq stored BY <1>11 DEF CleanupUsageEvents
  <2> QED BY <1>11, <1>k, <1>q, <1>s, <2>1 DEF CleanupUsageEvents
<1>12. CASE Crash
  <2>1. SeenKept BY <1>12 DEF Crash, SeenKept, Nothing
  <2> QED BY <1>12, <1>k, <1>q, <2>1 DEF Crash
<1>13. CASE Start BY <1>13, <1>g, <1>k, <1>q DEF Start, Aggregators
<1> QED
  BY <1>1, <1>2, <1>3, <1>4, <1>5, <1>6, <1>7, <1>8, <1>9, <1>10, <1>11, <1>12, <1>13
     DEF Next, Runner, Metadata, Aggregate, Aggregators

-----------------------------------------------------------------------------
(* The overview: what the checkpoint has not passed is not counted, and an  *)
(* event past the checkpoint that is gone was missed.                       *)

OverviewOK ==
  /\ missed \subseteq 1 .. (next - 1)
  /\ \A e \in Ids : e >= next => overview[e] = 0
  /\ \A e \in 1 .. (next - 1) : e > checkpoint /\ e \notin stored => e \in missed
  /\ \A e \in missed : e \notin stored
  /\ OverviewOnce

\* The overview starts empty.
LEMMA OverviewInit == Init => OverviewOK
BY DEF Init, OverviewOK, OverviewOnce, Ids

\* A step keeps every event counted once in the overview.
LEMMA OverviewStep == TypeOK /\ OverviewOK /\ [Next]_vars => OverviewOK'
<1> USE AggregationConstants
<1> SUFFICES ASSUME TypeOK, OverviewOK, [Next]_vars PROVE OverviewOK' OBVIOUS
<1>t. /\ next \in 1 .. (MaxEvents + 1) /\ next - 1 \in Nat /\ checkpoint \in 0 .. (next - 1)
      /\ stored \subseteq 1 .. (next - 1) /\ overview \in [Ids -> Nat]
      /\ 1 .. (next - 1) \subseteq Ids
  BY DEF TypeOK, Ids
<1>0. ASSUME UNCHANGED <<next, stored, checkpoint, overview, missed>> PROVE OverviewOK'
  BY <1>0 DEF OverviewOK, OverviewOnce
<1> USE DEF eventVars, identityVars, overviewVars, budgetVars
<1>1. CASE UNCHANGED vars BY <1>0, <1>1 DEF vars
<1>2. ASSUME NEW n \in 1 .. MaxInsert, InsertEvents(n) PROVE OverviewOK'
  <2>1. /\ next' = next + n /\ stored' = stored \cup next .. (next + n - 1)
        /\ UNCHANGED <<checkpoint, overview, missed>> /\ n \in Nat
        /\ next' \in 1 .. (MaxEvents + 1)
    BY <1>2 DEF InsertEvents, InsertId, NextId, TypeOK
  <2>2. \A e \in 1 .. (next' - 1) : e \in 1 .. (next - 1) \/ e \in next .. (next + n - 1)
    BY <1>t, <2>1
  <2>3. \A e \in next .. (next + n - 1) : e \in Ids /\ e >= next /\ e > checkpoint
    BY <1>t, <2>1 DEF Ids
  <2>5. OverviewOnce'
    <3> SUFFICES ASSUME NEW e \in 1 .. (next' - 1)
                 PROVE overview[e] = IF e <= checkpoint /\ e \notin missed THEN 1 ELSE 0
      BY <2>1 DEF OverviewOnce
    <3>1. CASE e \in 1 .. (next - 1) BY <3>1 DEF OverviewOK, OverviewOnce
    <3>2. CASE e \in next .. (next + n - 1)
      <4>1. e \in Ids /\ e >= next /\ ~ (e <= checkpoint) BY <1>t, <2>3, <3>2
      <4> QED BY <4>1 DEF OverviewOK
    <3> QED BY <2>2, <3>1, <3>2
  <2>6. missed' \subseteq 1 .. (next' - 1) BY <1>t, <2>1 DEF OverviewOK
  <2>7. \A e \in Ids : e >= next' => overview'[e] = 0 BY <1>t, <2>1 DEF OverviewOK, Ids
  <2>8. \A e \in 1 .. (next' - 1) : e > checkpoint' /\ e \notin stored' => e \in missed'
    BY <2>1, <2>2 DEF OverviewOK
  <2>9. \A e \in missed' : e \notin stored'
    <3>1. \A e \in missed : e \notin next .. (next + n - 1) BY <1>t, <2>1 DEF OverviewOK
    <3> QED BY <2>1, <3>1 DEF OverviewOK
  <2> QED BY <2>5, <2>6, <2>7, <2>8, <2>9 DEF OverviewOK
<1>3. CASE EmptyRound BY <1>0, <1>3 DEF EmptyRound
<1>4. ASSUME NEW a \in Aggregators, LoadRows(a) PROVE OverviewOK'
  BY <1>0, <1>4 DEF LoadRows
<1>5. ASSUME NEW a \in Aggregators, ApplyDeltas(a) PROVE OverviewOK'
  BY <1>0, <1>5 DEF ApplyDeltas
<1>6. ASSUME NEW a \in Aggregators, AggregationFails(a) PROVE OverviewOK'
  BY <1>0, <1>6 DEF AggregationFails
<1>7. CASE OverviewBatch
  <2>1. \A e \in Ids : overview'[e] = overview[e] + IF e \in Batch THEN 1 ELSE 0
    BY <1>7 DEF OverviewBatch
  <2>2. UNCHANGED <<next, stored, missed>> BY <1>7 DEF OverviewBatch
  <2>3. CASE Batch = {}
    <3>1. checkpoint' = checkpoint BY <1>7, <2>3 DEF OverviewBatch
    <3>2. overview' = overview
      <4>1. overview' \in [Ids -> Nat] BY <1>7, TypeStep DEF TypeOK
      <4>2. \A e \in Ids : overview'[e] = overview[e]
        <5>1. \A e \in Ids : overview[e] \in Nat BY <1>t
        <5> QED BY <2>1, <2>3, <5>1
      <4> QED BY <1>t, <4>1, <4>2
    <3> QED BY <1>0, <2>2, <3>1, <3>2
  <2>4. CASE Batch # {}
    <3> DEFINE m == Max(Batch)
    <3>1. checkpoint' = m BY <1>7, <2>4 DEF OverviewBatch
    <3>2. Batch \subseteq Unaggregated /\ Unaggregated \subseteq 1 .. (next - 1)
      BY <1>t DEF Batch, Unaggregated
    <3>3. m \in Batch /\ \A e \in Batch : m >= e BY <1>t, <2>4, <3>2, MaxOfIds
    <3> HIDE DEF m
    <3>4. \A e \in Unaggregated : e <= m => e \in Batch
      <4> SUFFICES ASSUME NEW e \in Unaggregated, e <= m PROVE e \in Batch OBVIOUS
      <4> DEFINE Before(x) == {d \in Unaggregated : d < x}
      <4>1. IsFiniteSet(Unaggregated)
        <5>1. IsFiniteSet(1 .. (next - 1)) BY <1>t, FS_Interval
        <5> QED BY <3>2, <5>1, FS_Subset
      <4>2. Before(e) \in SUBSET Before(m)
        <5>1. \A d \in Unaggregated : d < e => d < m BY <1>t, <3>2, <3>3
        <5> QED BY <5>1
      <4>3. IsFiniteSet(Before(m)) /\ IsFiniteSet(Before(e)) BY <4>1, FS_Subset
      <4>4. Cardinality(Before(e)) <= Cardinality(Before(m)) BY <4>2, <4>3, FS_Subset
      <4>5. Cardinality(Before(m)) < BatchSize BY <3>3 DEF Batch
      <4>6. Cardinality(Before(e)) \in Nat /\ Cardinality(Before(m)) \in Nat
        BY <4>3, FS_CardinalityType
      <4>7. Cardinality(Before(e)) < BatchSize BY <4>4, <4>5, <4>6
      <4> QED BY <4>7 DEF Batch
    <3>5. \A e \in 1 .. (next - 1) : e \in Batch <=> e \in stored /\ e > checkpoint /\ e <= m
      BY <3>2, <3>3, <3>4 DEF Unaggregated
    <3>6. m \in 1 .. (next - 1) /\ m > checkpoint BY <3>2, <3>3 DEF Unaggregated
    <3>7. \A e \in Ids : e >= next => e \notin Batch
      <4>1. \A e \in Batch : e < next BY <1>t, <3>2
      <4>2. \A e \in Batch : e \in Int BY <1>t, <3>2
      <4> QED BY <1>t, <4>1, <4>2 DEF Ids
    <3> HIDE DEF Batch
    <3> QED BY <1>t, <2>1, <2>2, <3>1, <3>5, <3>6, <3>7 DEF OverviewOK, OverviewOnce
  <2> QED BY <2>3, <2>4
<1>8. CASE OverviewFails BY <1>0, <1>8 DEF OverviewFails
<1>9. CASE SyncAuthFiles BY <1>0, <1>9 DEF SyncAuthFiles
<1>10. CASE SyncProviders BY <1>0, <1>10 DEF SyncProviders
<1>11. CASE CleanupUsageEvents
  <2>1. PICK gone \in SUBSET stored : CleanupUsageEvents!2!(gone)
    BY <1>11 DEF CleanupUsageEvents
  <2>2. UNCHANGED <<next, checkpoint, overview>> BY <1>11 DEF CleanupUsageEvents
  <2>3. stored' = stored \ gone /\ missed' = missed \cup {e \in gone : e > checkpoint}
    BY <2>1
  <2>4. \A e \in 1 .. (next - 1) : e \in missed' => e \in missed \/ e > checkpoint BY <2>3
  <2>5. OverviewOnce' BY <1>t, <2>2, <2>3, <2>4 DEF OverviewOK, OverviewOnce
  <2>6. /\ missed' \subseteq 1 .. (next' - 1)
        /\ \A e \in Ids : e >= next' => overview'[e] = 0
        /\ \A e \in 1 .. (next' - 1) : e > checkpoint' /\ e \notin stored' => e \in missed'
        /\ \A e \in missed' : e \notin stored'
    BY <1>t, <2>1, <2>2, <2>3 DEF OverviewOK
  <2> QED BY <2>5, <2>6 DEF OverviewOK
<1>12. CASE Crash BY <1>0, <1>12 DEF Crash
<1>13. CASE Start BY <1>0, <1>13 DEF Start
<1> QED
  BY <1>1, <1>2, <1>3, <1>4, <1>5, <1>6, <1>7, <1>8, <1>9, <1>10, <1>11, <1>12, <1>13
     DEF Next, Runner, Metadata, Aggregate, Aggregators

-----------------------------------------------------------------------------
(* The inductive invariant: types, right counts in the rows and in every    *)
(* copy of them, and the books of the overview.                             *)
Inv == TypeOK /\ CountsOK /\ OverviewOK

\* Every reachable state satisfies the inductive invariant.
THEOREM Invariance == Spec => []Inv
<1>1. Init => Inv BY InitType, CountsInit, OverviewInit DEF Inv
<1>2. Inv /\ [Next]_vars => Inv' BY TypeStep, CountsStep, OverviewStep DEF Inv
<1> QED BY <1>1, <1>2, PTL DEF Spec

(* Every variable keeps its type; no cursor runs ahead of the events.       *)
THEOREM TypeCorrect == Spec => []TypeOK
<1>1. Inv => TypeOK BY DEF Inv
<1> QED BY Invariance, <1>1, PTL

(* AggregateUsageIdentityStats by two callers at once, from stale rows,     *)
(* never counts a request twice.                                            *)
THEOREM NothingCountedTwice == Spec => []NoDoubleCount
<1>1. Inv => NoDoubleCount BY DEF Inv, CountsOK, Counts, Past, NoDoubleCount, Ever
<1> QED BY Invariance, <1>1, PTL

(* An event still stored that an identity's cursor has passed is in the     *)
(* identity's total.                                                        *)
THEOREM StoredEventsCounted == Spec => []SurvivorsCounted
<1>1. Inv => SurvivorsCounted BY DEF Inv, CountsOK, Counts, Past, SurvivorsCounted, Ever
<1> QED BY Invariance, <1>1, PTL

(* aggregateUsageOverviewStatsBatch moves the checkpoint and adds the batch *)
(* in one transaction: every event goes in once, for every batch size.      *)
THEOREM OverviewExact == Spec => []OverviewOnce
<1>1. Inv => OverviewOnce BY DEF Inv, OverviewOK
<1> QED BY Invariance, <1>1, PTL

(* Both together: the lifetime totals hold each stored event once.          *)
THEOREM TotalsAlwaysExact == Spec => []TotalsExact
BY NothingCountedTwice, StoredEventsCounted, PTL DEF TotalsExact

=============================================================================
