---------------------------- MODULE ContentProofs ----------------------------
(***************************************************************************)
(* What users keep and see, for every value of the constants: the          *)
(* identities, the API keys of CPA, the prices and the sessions, each by   *)
(* an inductive invariant of its own, and of MCContent by these and the    *)
(* one of the answers about usage (UsageOverviewProofs).                   *)
(***************************************************************************)
EXTENDS MCContent, UsageOverviewProofs, FiniteSetTheorems, FunctionTheorems, SequenceTheorems, WellFoundedInduction, TLAPS

-----------------------------------------------------------------------------
(* The identities.                                                          *)

\* A finite set as a sequence: each element at one place.
LEMMA IdentitySequence ==
  ASSUME NEW S, IsFiniteSet(S)
  PROVE  /\ Identities!SetToSeq(S) \in Seq(S)
         /\ \A i, j \in DOMAIN Identities!SetToSeq(S) :
              Identities!SetToSeq(S)[i] = Identities!SetToSeq(S)[j] => i = j
         /\ \A x \in S : \E i \in DOMAIN Identities!SetToSeq(S) : Identities!SetToSeq(S)[i] = x
<1>1. Cardinality(S) \in Nat /\ ExistsBijection(1..Cardinality(S), S) BY FS_CardinalityType
<1>2. PICK f \in [1..Cardinality(S) -> S] : \A a, b \in 1..Cardinality(S) : f[a] = f[b] => a = b
  BY <1>1 DEF ExistsBijection, Bijection, Injection, IsInjective
<1>3. Identities!Cardinality(S) = Cardinality(S) BY DEF Identities!Cardinality, Cardinality
<1>4. Identities!SetToSeq(S) = CHOOSE g \in [1..Cardinality(S) -> S] : Identities!IsInjective(g)
  BY <1>3 DEF Identities!SetToSeq
<1>5. Identities!IsInjective(f) BY <1>2 DEF Identities!IsInjective
<1>6. Identities!SetToSeq(S) \in [1..Cardinality(S) -> S] /\ Identities!IsInjective(Identities!SetToSeq(S))
  BY <1>4, <1>5
<1>7. PICK g : g = Identities!SetToSeq(S) OBVIOUS
<1>8. g \in Injection(1..Cardinality(S), S) BY <1>6, <1>7 DEF Identities!IsInjective, Injection, IsInjective
<1>9. g \in Surjection(1..Cardinality(S), S)
  <2>1. Cardinality(1..Cardinality(S)) = Cardinality(S) BY <1>1, FS_Interval
  <2> QED BY <1>8, <2>1, FS_Injection
<1> QED BY <1>1, <1>6, <1>7, <1>9 DEF Identities!IsInjective, Surjection

\* A set of numbers has a least one.
LEMMA LeastList ==
  ASSUME NEW S, S \subseteq Nat, S # {}
  PROVE  Identities!Min(S) \in S
BY LeastOf DEF Identities!Min

\* The types identities have, the rows, the state of a synchronisation, look-ups and events.
IdTypes == FileTypes \union Identities!Types
IdRow == [key : Identities!Keys, type : IdTypes, deleted : BOOLEAN,
          alias : Aliases \union {Identities!None}, total : Nat]
SyncPcs == {"idle", "files", "lists", "writeFiles", "writeKeys", "writeProviders", "aggregate", "done"}
SyncSet == [pc : SyncPcs, files : [AuthFiles -> FileTypes \union {Identities!None}], gotFiles : BOOLEAN,
            lists : [Identities!Types -> SUBSET ProviderKeys], fetched : SUBSET Identities!Types,
            asked : SUBSET Identities!Types, upserted : BOOLEAN]
Types0 == IdTypes \union {Identities!None}
LookupSet == [pc : {"idle", "deleted", "store"}, key : Identities!Keys \union {Identities!None},
              found : Types0, known : SUBSET IdTypes, steady : BOOLEAN]
EventSet == [key : Identities!Keys, type : Types0 \union {EventProvider, Fallback},
             known : SUBSET IdTypes, steady : BOOLEAN]

\* The lists keep to their types, and a synchronisation has a list left to fetch while it fetches.
SourcesSound ==
  /\ cpa \in [files : [AuthFiles -> FileTypes \union {Identities!None}],
              lists : [Identities!Types -> SUBSET ProviderKeys]]
  /\ sync \in SyncSet
  /\ sync.pc = "files" => sync.asked = {}
  /\ sync.pc = "lists" => Identities!ListsLeft # {}
\* An identity has one row.
OneRowEach == \A i, j \in DOMAIN rows : rows[i].key = rows[j].key => i = j
\* The rows; none counts more requests than there are events.
RowsSound ==
  /\ rows \in Seq(IdRow) /\ OneRowEach
  /\ \A i \in DOMAIN rows : rows[i].total <= Identities!EventsOf(rows[i].key)
\* A look-up that found nothing active still has a row to find; one that ends found the identity's type.
LookupSound ==
  /\ lookup \in LookupSet
  /\ lookup.pc # "idle" => lookup.key \in Identities!Keys
  /\ lookup.pc = "deleted" /\ lookup.known # {} => Identities!RowsOf(lookup.key) # {}
  /\ lookup.pc = "store" /\ lookup.known # {} /\ lookup.steady =>
       lookup.found \in lookup.known /\ lookup.found # Identities!None
\* Events whose identity stayed as it was are of its type.
EventsSound ==
  /\ events \in Seq(EventSet)
  /\ \A e \in DOMAIN events : events[e].known # {} /\ events[e].steady => events[e].type \in events[e].known

\* The inductive invariant of the identities, and what every step of theirs keeps to.
IdInv == SourcesSound /\ RowsSound /\ LookupSound /\ EventsSound
IdStep == Identities!KeepsIdentity /\ Identities!DeletesOnlyUnlisted

\* No identity is of the type that means none.
LEMMA NoneIsNoType == Identities!None \notin IdTypes
BY InstancesAllowed DEF Identities!IdentityConstants, IdTypes

\* The events of an identity can be counted.
LEMMA EventsCounted ==
  ASSUME NEW key, events \in Seq(EventSet)
  PROVE  /\ Identities!EventsOf(key) \in Nat
         /\ IsFiniteSet({e \in DOMAIN events : events[e].key = key})
         /\ Identities!EventsOf(key) = Cardinality({e \in DOMAIN events : events[e].key = key})
<1> DEFINE S == {e \in DOMAIN events : events[e].key = key}
<1>1. DOMAIN events = 1..Len(events) /\ Len(events) \in Nat BY LenProperties
<1>2. IsFiniteSet(1..Len(events)) BY <1>1, FS_Interval
<1>3. IsFiniteSet(S) /\ Cardinality(S) \in Nat BY <1>1, <1>2, FS_Subset, FS_CardinalityType
<1>4. Identities!EventsOf(key) = Cardinality(S)
  BY DEF Identities!EventsOf, Identities!Cardinality, Cardinality
<1> QED BY <1>3, <1>4

\* Where a synchronisation begins.
LEMMA IdleIs ==
  /\ Identities!Idle \in SyncSet /\ Identities!Idle.pc = "idle" /\ Identities!Idle.asked = {}
  /\ ProviderTypes \in Seq(Identities!Types) /\ DOMAIN ProviderTypes # {}
<1>1. ProviderTypes \in Seq(Identities!Types) /\ ProviderTypes # <<>>
  BY InstancesAllowed DEF Identities!IdentityConstants
<1>2. Identities!Idle \in SyncSet /\ Identities!Idle.pc = "idle" /\ Identities!Idle.asked = {}
  BY DEF SyncSet, SyncPcs, Identities!Idle, Identities!NoFiles, Identities!NoLists
<1>3. Len(ProviderTypes) \in Nat \ {0} BY <1>1, EmptySeq
<1>4. 1 \in DOMAIN ProviderTypes BY <1>1, <1>3, LenProperties
<1> QED BY <1>1, <1>2, <1>4

\* The invariant holds at the start, whatever table an earlier run left.
LEMMA IdInvInit == Identities!Init => IdInv
<1> SUFFICES ASSUME Identities!Init PROVE IdInv OBVIOUS
<1>1. /\ cpa \in FirstLists /\ rows \in FirstRows /\ sync = Identities!Idle
      /\ lookup = Identities!NoLookup /\ events = <<>>
  BY DEF Identities!Init
<1>2. SourcesSound
  BY <1>1, IdleIs, InstancesAllowed DEF SourcesSound, Identities!IdentityConstants
<1>3. RowsSound
  <2>0. rows \in Seq([key : Identities!Keys, type : FileTypes \union Identities!Types, deleted : BOOLEAN,
                         alias : Aliases \union {Identities!None}, total : {0}]) /\ OneRowEach
    BY <1>1, InstancesAllowed DEF Identities!IdentityConstants, OneRowEach
  <2> DEFINE First == [key : Identities!Keys, type : IdTypes, deleted : BOOLEAN,
                       alias : Aliases \union {Identities!None}, total : {0}]
  <2>5. rows \in Seq(First) BY <2>0 DEF IdTypes
  <2>6. \A r \in First : r \in IdRow /\ r.total = 0 BY DEF IdRow
  <2> HIDE DEF First
  <2>7. \A i \in DOMAIN rows : rows[i] \in First BY <2>5
  <2>1. \A i \in DOMAIN rows : rows[i] \in IdRow /\ rows[i].total = 0
    BY <2>6, <2>7
  <2>2. rows \in Seq(IdRow) BY <2>0, <2>1
  <2>3. events \in Seq(EventSet) BY <1>1
  <2>4. ASSUME NEW i \in DOMAIN rows PROVE rows[i].total <= Identities!EventsOf(rows[i].key)
    <3>1. Identities!EventsOf(rows[i].key) \in Nat BY <2>3, EventsCounted
    <3> QED BY <2>1, <3>1
  <2> QED BY <2>0, <2>2, <2>4 DEF RowsSound
<1>4. LookupSound BY <1>1 DEF LookupSound, LookupSet, Types0, Identities!NoLookup
<1>5. EventsSound BY <1>1 DEF EventsSound
<1> QED BY <1>2, <1>3, <1>4, <1>5 DEF IdInv

\* Rows stay at their places, with their keys.
RowsStay == \A i \in DOMAIN rows : i \in DOMAIN rows' /\ rows'[i].key = rows[i].key

\* A look-up is not disturbed by rows that stay.
LEMMA LookupStays == ASSUME LookupSound, RowsStay, lookup' = lookup PROVE LookupSound'
<1>1. Identities!RowsOf(lookup.key) # {} => Identities!RowsOf(lookup.key)' # {}
  BY DEF RowsStay, Identities!RowsOf
<1> QED BY <1>1 DEF LookupSound

\* A step that writes no row and no event.
LEMMA SameRows ==
  ASSUME IdInv, UNCHANGED <<rows, events>>
  PROVE  RowsSound' /\ EventsSound' /\ RowsStay /\ (sync' = sync \/ sync' # sync => IdStep)
<1>1. RowsSound' /\ EventsSound' BY DEF IdInv, RowsSound, OneRowEach, EventsSound, Identities!EventsOf
<1>2. \A i \in DOMAIN rows : rows[i].total \in Nat
  <2>1. \A i \in DOMAIN rows : rows[i] \in IdRow BY DEF IdInv, RowsSound
  <2> QED BY <2>1 DEF IdRow
<1>3. RowsStay BY DEF RowsStay
<1>4. IdStep BY <1>2 DEF IdInv, RowsSound, OneRowEach, IdStep, Identities!KeepsIdentity, Identities!DeletesOnlyUnlisted
<1> QED BY <1>1, <1>3, <1>4

\* What a synchronisation brings: identities of their own, without requests.
Incoming(S) ==
  /\ S \subseteq IdRow /\ IsFiniteSet(S)
  /\ \A r1, r2 \in S : r1.key = r2.key => r1 = r2
  /\ \A r \in S : r.total = 0 /\ ~r.deleted

\* The identities of auth files (authFileUsageIdentity), and the files that have none.
LEMMA FileRowsAre ==
  ASSUME SourcesSound
  PROVE  /\ Incoming(Identities!FileRows)
         /\ \A r \in Identities!FileRows :
              \E f \in AuthFiles : r.key = <<"oauth", f>> /\ r.type = sync.files[f] /\ r.type # Identities!None
         /\ \A f \in AuthFiles : <<"oauth", f>> \notin Identities!KeysOf(Identities!FileRows) =>
              sync.files[f] = Identities!None
<1> DEFINE F == {f \in AuthFiles : sync.files[f] # Identities!None}
           S == {Identities!Row(<<"oauth", f>>, sync.files[f]) : f \in F}
<1>1. Identities!FileRows = S BY DEF Identities!FileRows
<1>2. IsFiniteSet(F)
  <2>1. IsFiniteSet(AuthFiles)
    BY InstancesAllowed DEF Identities!IdentityConstants, Identities!IsFiniteSet, IsFiniteSet
  <2> QED BY <2>1, FS_Subset
<1>3. \A f \in F : sync.files[f] \in FileTypes
  <2>1. sync.files \in [AuthFiles -> FileTypes \union {Identities!None}] BY DEF SourcesSound, SyncSet, SyncPcs
  <2> QED BY <2>1
<1>4. \A r \in S : \E f \in F : r = [key |-> <<"oauth", f>>, type |-> sync.files[f], deleted |-> FALSE,
                                     alias |-> Identities!None, total |-> 0]
  BY DEF Identities!Row
<1>5. IsFiniteSet(S)
  <2> DEFINE g == [f \in F |-> Identities!Row(<<"oauth", f>>, sync.files[f])]
  <2>1. g \in Bijection(F, S)
    BY DEF Bijection, Injection, Surjection, IsInjective, Identities!Row
  <2> QED BY <1>2, <2>1, FS_Bijection DEF ExistsBijection
<1>6. \A f \in F : Identities!Row(<<"oauth", f>>, sync.files[f]).key = <<"oauth", f>>
  BY DEF Identities!Row
<1>7. \A f \in F : <<"oauth", f>> \in Identities!KeysOf(S) BY <1>6 DEF Identities!KeysOf
<1> HIDE DEF S, F
<1>8. S \subseteq IdRow /\ \A r \in S : r.total = 0 /\ ~r.deleted
  <2> SUFFICES ASSUME NEW r \in S PROVE r \in IdRow /\ r.total = 0 /\ ~r.deleted OBVIOUS
  <2>1. PICK f \in F : r = [key |-> <<"oauth", f>>, type |-> sync.files[f], deleted |-> FALSE,
                            alias |-> Identities!None, total |-> 0]
    BY <1>4
  <2>2. f \in AuthFiles /\ sync.files[f] \in IdTypes BY <1>3 DEF F, IdTypes
  <2>3. <<"oauth", f>> \in Identities!Keys BY <2>2 DEF Identities!Keys
  <2> QED BY <2>1, <2>2, <2>3 DEF IdRow
<1>9. \A r1, r2 \in S : r1.key = r2.key => r1 = r2
  <2> TAKE r1, r2 \in S
  <2>1. PICK f1 \in F : r1 = [key |-> <<"oauth", f1>>, type |-> sync.files[f1], deleted |-> FALSE,
                              alias |-> Identities!None, total |-> 0]
    BY <1>4
  <2>2. PICK f2 \in F : r2 = [key |-> <<"oauth", f2>>, type |-> sync.files[f2], deleted |-> FALSE,
                              alias |-> Identities!None, total |-> 0]
    BY <1>4
  <2> QED BY <2>1, <2>2
<1>10. \A r \in S : \E f \in AuthFiles : r.key = <<"oauth", f>> /\ r.type = sync.files[f] /\ r.type # Identities!None
  BY <1>4 DEF F
<1> QED BY <1>1, <1>5, <1>7, <1>8, <1>9, <1>10 DEF Incoming, F

\* The type of a provider's key is one of the lists' (flattenProviderMetadata).
LEMMA FlatTypeIs == \A p : Identities!FlatType(p) = Identities!None \/ Identities!FlatType(p) \in Identities!Types
<1> SUFFICES ASSUME NEW p, Identities!FlatType(p) # Identities!None PROVE Identities!FlatType(p) \in Identities!Types
  OBVIOUS
<1> DEFINE listing == {i \in DOMAIN ProviderTypes : p \in sync.lists[ProviderTypes[i]]}
<1>1. listing # {} /\ Identities!FlatType(p) = ProviderTypes[Identities!Min(listing)]
  BY DEF Identities!FlatType
<1>2. DOMAIN ProviderTypes \subseteq Nat
  <2>1. ProviderTypes \in Seq(Identities!Types) BY InstancesAllowed DEF Identities!IdentityConstants
  <2> QED BY <2>1
<1>3. Identities!Min(listing) \in listing BY <1>1, <1>2, LeastList
<1> QED BY <1>1, <1>3 DEF Identities!Types, Identities!Range

\* The identities of provider keys (providerMetadataUsageIdentities), and the keys that have none.
LEMMA ProviderRowsAre ==
  /\ Incoming(Identities!ProviderRows)
  /\ \A r \in Identities!ProviderRows :
       \E p \in ProviderKeys : r.key = <<"apikey", p>> /\ r.type = Identities!FlatType(p) /\ r.type # Identities!None
  /\ \A p \in ProviderKeys : <<"apikey", p>> \notin Identities!KeysOf(Identities!ProviderRows) =>
       Identities!FlatType(p) = Identities!None
<1> DEFINE F == {p \in ProviderKeys : Identities!FlatType(p) # Identities!None}
           S == {Identities!Row(<<"apikey", p>>, Identities!FlatType(p)) : p \in F}
<1>1. Identities!ProviderRows = S BY DEF Identities!ProviderRows
<1>2. IsFiniteSet(F)
  <2>1. IsFiniteSet(ProviderKeys)
    BY InstancesAllowed DEF Identities!IdentityConstants, Identities!IsFiniteSet, IsFiniteSet
  <2> QED BY <2>1, FS_Subset
<1>3. \A p \in F : Identities!FlatType(p) \in Identities!Types BY FlatTypeIs
<1>4. \A r \in S : \E p \in F : r = [key |-> <<"apikey", p>>, type |-> Identities!FlatType(p), deleted |-> FALSE,
                                     alias |-> Identities!None, total |-> 0]
  BY DEF Identities!Row
<1>5. IsFiniteSet(S)
  <2> DEFINE g == [p \in F |-> Identities!Row(<<"apikey", p>>, Identities!FlatType(p))]
  <2>1. g \in Bijection(F, S)
    BY DEF Bijection, Injection, Surjection, IsInjective, Identities!Row
  <2> QED BY <1>2, <2>1, FS_Bijection DEF ExistsBijection
<1>6. \A p \in F : Identities!Row(<<"apikey", p>>, Identities!FlatType(p)).key = <<"apikey", p>>
  BY DEF Identities!Row
<1>7. \A p \in F : <<"apikey", p>> \in Identities!KeysOf(S) BY <1>6 DEF Identities!KeysOf
<1> HIDE DEF S, F
<1>8. S \subseteq IdRow /\ \A r \in S : r.total = 0 /\ ~r.deleted
  <2> SUFFICES ASSUME NEW r \in S PROVE r \in IdRow /\ r.total = 0 /\ ~r.deleted OBVIOUS
  <2>1. PICK p \in F : r = [key |-> <<"apikey", p>>, type |-> Identities!FlatType(p), deleted |-> FALSE,
                            alias |-> Identities!None, total |-> 0]
    BY <1>4
  <2>2. p \in ProviderKeys /\ Identities!FlatType(p) \in IdTypes BY <1>3 DEF F, IdTypes
  <2>3. <<"apikey", p>> \in Identities!Keys BY <2>2 DEF Identities!Keys
  <2> QED BY <2>1, <2>2, <2>3 DEF IdRow
<1>9. \A r1, r2 \in S : r1.key = r2.key => r1 = r2
  <2> TAKE r1, r2 \in S
  <2>1. PICK p1 \in F : r1 = [key |-> <<"apikey", p1>>, type |-> Identities!FlatType(p1), deleted |-> FALSE,
                              alias |-> Identities!None, total |-> 0]
    BY <1>4
  <2>2. PICK p2 \in F : r2 = [key |-> <<"apikey", p2>>, type |-> Identities!FlatType(p2), deleted |-> FALSE,
                              alias |-> Identities!None, total |-> 0]
    BY <1>4
  <2> QED BY <2>1, <2>2
<1>10. \A r \in S : \E p \in ProviderKeys : /\ r.key = <<"apikey", p>> /\ r.type = Identities!FlatType(p)
                                           /\ r.type # Identities!None
  BY <1>4 DEF F
<1> QED BY <1>1, <1>5, <1>7, <1>8, <1>9, <1>10 DEF Incoming, F

\* What syncUsageIdentities makes of the rows: each row at its place, new ones behind.
LEMMA UpsertedIs ==
  ASSUME IdInv, NEW S, Incoming(S)
  PROVE  LET after == Identities!Upserted(S)
         IN  /\ after \in Seq(IdRow) /\ DOMAIN rows \subseteq DOMAIN after
             /\ \A i, j \in DOMAIN after : after[i].key = after[j].key => i = j
             /\ \A i \in DOMAIN rows :
                  /\ after[i].key = rows[i].key /\ after[i].alias = rows[i].alias /\ after[i].total = rows[i].total
                  /\ ~rows[i].deleted => ~after[i].deleted
                  /\ after[i].key \notin Identities!KeysOf(S) => after[i] = rows[i]
             /\ \A i \in DOMAIN after \ DOMAIN rows : after[i].total = 0 /\ after[i].key \in Identities!KeysOf(S)
             /\ \A i \in DOMAIN after : \A r \in S :
                  after[i].key = r.key => after[i].type = r.type /\ ~after[i].deleted
             /\ \A r \in S : \E i \in DOMAIN after : after[i].key = r.key
<1> DEFINE Updated(row) ==
             IF row.key \in Identities!KeysOf(S)
             THEN LET new == CHOOSE r \in S : r.key = row.key
                  IN  [row EXCEPT !.type = new.type, !.deleted = FALSE]
             ELSE row
           created == {r \in S : Identities!RowsOf(r.key) = {}}
           old == [i \in DOMAIN rows |-> Updated(rows[i])]
           added == Identities!SetToSeq(created)
<1>1. Identities!Upserted(S) = old \o added BY DEF Identities!Upserted
<1>2. rows \in Seq(IdRow) /\ OneRowEach BY DEF IdInv, RowsSound
<1>3. ASSUME NEW i \in DOMAIN rows
      PROVE  /\ Updated(rows[i]) \in IdRow /\ Updated(rows[i]).key = rows[i].key
             /\ Updated(rows[i]).alias = rows[i].alias /\ Updated(rows[i]).total = rows[i].total
             /\ ~rows[i].deleted => ~Updated(rows[i]).deleted
             /\ rows[i].key \notin Identities!KeysOf(S) => Updated(rows[i]) = rows[i]
             /\ \A r \in S : rows[i].key = r.key => Updated(rows[i]).type = r.type /\ ~Updated(rows[i]).deleted
  <2>0. rows[i] \in IdRow BY <1>2
  <2>1. CASE rows[i].key \in Identities!KeysOf(S)
    <3>1. PICK new : new = CHOOSE r \in S : r.key = rows[i].key OBVIOUS
    <3>2. new \in S /\ new.key = rows[i].key BY <2>1, <3>1 DEF Identities!KeysOf
    <3>5. \A r \in S : rows[i].key = r.key => r = new BY <3>2 DEF Incoming
    <3>3. new.type \in IdTypes BY <3>2 DEF Incoming, IdRow
    <3>4. Updated(rows[i]) = [rows[i] EXCEPT !.type = new.type, !.deleted = FALSE] BY <2>1, <3>1
    <3> HIDE DEF Updated
    <3> QED BY <2>0, <2>1, <3>3, <3>4, <3>5 DEF IdRow
  <2>2. CASE rows[i].key \notin Identities!KeysOf(S)
    <3>1. Updated(rows[i]) = rows[i] BY <2>2
    <3> HIDE DEF Updated
    <3>2. \A r \in S : rows[i].key # r.key BY <2>2 DEF Identities!KeysOf
    <3> QED BY <2>0, <2>2, <3>1, <3>2
  <2> QED BY <2>1, <2>2
<1>4. /\ added \in Seq(IdRow) /\ \A j \in DOMAIN added : added[j] \in created
      /\ \A j, k \in DOMAIN added : added[j].key = added[k].key => j = k
      /\ \A r \in created : \E j \in DOMAIN added : added[j] = r
  <2>0. IsFiniteSet(created) BY FS_Subset DEF Incoming
  <2> HIDE DEF created
  <2>1. /\ added \in Seq(created) /\ \A j, k \in DOMAIN added : added[j] = added[k] => j = k
        /\ \A r \in created : \E j \in DOMAIN added : added[j] = r
    BY <2>0, IdentitySequence
  <2>2. created \subseteq IdRow /\ \A r1, r2 \in created : r1.key = r2.key => r1 = r2 BY DEF created, Incoming
  <2> HIDE DEF added
  <2>3. \A j \in DOMAIN added : added[j] \in created BY <2>1
  <2>4. added \in Seq(IdRow) BY <2>1, <2>2, <2>3
  <2> QED BY <2>1, <2>2, <2>3, <2>4
<1>5. old \in Seq(IdRow) /\ DOMAIN old = DOMAIN rows /\ Len(old) = Len(rows)
  <2> HIDE DEF Updated
  <2> QED BY <1>2, <1>3
<1>6. \A i \in DOMAIN rows : old[i] = Updated(rows[i]) BY <1>5
<1>7. \A r \in created : /\ r \in S /\ r.total = 0 /\ ~r.deleted /\ r.key \in Identities!KeysOf(S)
                          /\ \A i \in DOMAIN rows : rows[i].key # r.key
  BY DEF Incoming, Identities!KeysOf, Identities!RowsOf
<1>7a. \A r \in S : r \in created \/ \E i \in DOMAIN rows : rows[i].key = r.key
  BY DEF Identities!RowsOf
<1> HIDE DEF Updated, created, old, added
<1>8. PICK after : after = Identities!Upserted(S) OBVIOUS
<1>9. /\ after \in Seq(IdRow) /\ Len(after) = Len(old) + Len(added)
      /\ \A i \in 1..(Len(old) + Len(added)) :
             after[i] = IF i <= Len(old) THEN old[i] ELSE added[i - Len(old)]
  <2>1. after = old \o added BY <1>1, <1>8
  <2>2. old \in Seq(IdRow) /\ added \in Seq(IdRow) BY <1>4, <1>5
  <2> QED BY <2>1, <2>2, ConcatProperties
<1>10. /\ DOMAIN old = 1..Len(old) /\ DOMAIN added = 1..Len(added) /\ DOMAIN after = 1..Len(after)
       /\ Len(old) \in Nat /\ Len(added) \in Nat
  <2>1. added \in Seq(IdRow) BY <1>4
  <2>2. old \in Seq(IdRow) /\ after \in Seq(IdRow) BY <1>5, <1>9
  <2> QED BY <2>1, <2>2, LenProperties
<1>11. ASSUME NEW i \in DOMAIN after, i \notin DOMAIN rows
       PROVE  i - Len(old) \in DOMAIN added /\ after[i] = added[i - Len(old)]
  BY <1>5, <1>9, <1>10, <1>11
<1>12. \A i \in DOMAIN rows : i \in DOMAIN after /\ after[i] = Updated(rows[i]) BY <1>5, <1>6, <1>9, <1>10
<1>13. \A i \in DOMAIN after \ DOMAIN rows : after[i].total = 0 /\ after[i].key \in Identities!KeysOf(S)
  BY <1>4, <1>7, <1>11
<1>14. ASSUME NEW i \in DOMAIN after, NEW j \in DOMAIN after, after[i].key = after[j].key PROVE i = j
  <2>1. CASE i \in DOMAIN rows /\ j \in DOMAIN rows
    <3>1. rows[i].key = rows[j].key BY <1>3, <1>12, <1>14, <2>1
    <3> QED BY <1>2, <2>1, <3>1 DEF OneRowEach
  <2>2. CASE i \in DOMAIN rows /\ j \notin DOMAIN rows BY <1>3, <1>4, <1>7, <1>11, <1>12, <1>14, <2>2
  <2>3. CASE i \notin DOMAIN rows /\ j \in DOMAIN rows BY <1>3, <1>4, <1>7, <1>11, <1>12, <1>14, <2>3
  <2>4. CASE i \notin DOMAIN rows /\ j \notin DOMAIN rows
    <3>1. i - Len(old) = j - Len(old) BY <1>4, <1>11, <1>14, <2>4
    <3> QED BY <1>10, <3>1
  <2> QED BY <2>1, <2>2, <2>3, <2>4
<1>15. \A i \in DOMAIN rows :
         /\ after[i].key = rows[i].key /\ after[i].alias = rows[i].alias /\ after[i].total = rows[i].total
         /\ ~rows[i].deleted => ~after[i].deleted
         /\ after[i].key \notin Identities!KeysOf(S) => after[i] = rows[i]
  BY <1>3, <1>12
<1>16. ASSUME NEW i \in DOMAIN after, NEW r \in S, after[i].key = r.key
       PROVE  after[i].type = r.type /\ ~after[i].deleted
  <2>1. CASE i \in DOMAIN rows BY <1>3, <1>12, <1>16, <2>1
  <2>2. CASE i \notin DOMAIN rows
    <3>1. PICK q \in created : after[i] = q BY <1>4, <1>11, <2>2
    <3>2. q = r BY <1>7, <1>16, <3>1 DEF Incoming
    <3> QED BY <1>7, <3>1, <3>2
  <2> QED BY <2>1, <2>2
<1>17. ASSUME NEW r \in S PROVE \E i \in DOMAIN after : after[i].key = r.key
  <2>1. CASE \E i \in DOMAIN rows : rows[i].key = r.key BY <1>3, <1>12, <2>1
  <2>2. CASE r \in created
    <3>1. PICK j \in DOMAIN added : added[j] = r BY <1>4, <2>2
    <3>2. /\ j + Len(old) \in DOMAIN after /\ ~(j + Len(old) <= Len(old)) /\ j + Len(old) - Len(old) = j
          /\ j + Len(old) \in 1..(Len(old) + Len(added))
      BY <1>9, <1>10
    <3>3. after[j + Len(old)] = added[j] BY <1>9, <3>2
    <3> QED BY <3>1, <3>2, <3>3
  <2> QED BY <1>7a, <2>1, <2>2
<1> QED BY <1>8, <1>9, <1>12, <1>13, <1>14, <1>15, <1>16, <1>17

\* What DeletesOnlyUnlisted asks of a row that is deleted.
Unlisted(i) ==
  IF rows[i].key[1] = "oauth"
  THEN sync.gotFiles /\ sync.files[rows[i].key[2]] = Identities!None
  ELSE rows[i].type \in sync.fetched /\ Identities!FlatType(rows[i].key[2]) = Identities!None

\* Rows that keep their places, keys and requests.
LEMMA RowsWritten ==
  ASSUME IdInv, rows' \in Seq(IdRow), OneRowEach', UNCHANGED <<lookup, events>>,
         \A i \in DOMAIN rows : /\ i \in DOMAIN rows' /\ rows'[i].key = rows[i].key
                                /\ rows'[i].total >= rows[i].total
                                /\ rows'[i].alias = rows[i].alias \/ sync' = sync
                                /\ ~rows[i].deleted /\ rows'[i].deleted => Unlisted(i),
         \A i \in DOMAIN rows' : \/ rows'[i].total \in {0, Identities!EventsOf(rows'[i].key)}
                                 \/ i \in DOMAIN rows /\ rows'[i].total = rows[i].total
  PROVE  RowsSound' /\ LookupSound' /\ EventsSound' /\ IdStep
<1>1. RowsStay BY DEF RowsStay
<1>2. LookupSound' BY <1>1, LookupStays DEF IdInv
<1>3. EventsSound' BY DEF IdInv, EventsSound
<1>4. ASSUME NEW i \in DOMAIN rows' PROVE rows'[i].total <= Identities!EventsOf(rows'[i].key)
  <2>2. Identities!EventsOf(rows'[i].key) \in Nat BY EventsCounted DEF IdInv, EventsSound
  <2>3. i \in DOMAIN rows => rows[i].total <= Identities!EventsOf(rows[i].key) BY DEF IdInv, RowsSound
  <2> QED BY <2>2, <2>3
<1>5. RowsSound' BY <1>4 DEF RowsSound, Identities!EventsOf
<1>6. Identities!KeepsIdentity BY DEF Identities!KeepsIdentity, OneRowEach
<1>7. Identities!DeletesOnlyUnlisted BY DEF Identities!DeletesOnlyUnlisted, Unlisted
<1> QED BY <1>2, <1>3, <1>5, <1>6, <1>7 DEF IdStep

\* A write that brings identities and deletes those of its scope it does not bring.
LEMMA Replaced ==
  ASSUME IdInv, NEW S, Incoming(S), NEW scope, UNCHANGED <<lookup, events>>,
         rows' = Identities!StaleDeleted(Identities!Upserted(S), scope, S),
         \A i \in DOMAIN rows : i \in scope /\ rows[i].key \notin Identities!KeysOf(S) => Unlisted(i)
  PROVE  RowsSound' /\ LookupSound' /\ EventsSound' /\ IdStep
<1>1. PICK after : after = Identities!Upserted(S) OBVIOUS
<1>2. /\ after \in Seq(IdRow) /\ DOMAIN rows \subseteq DOMAIN after
      /\ \A i, j \in DOMAIN after : after[i].key = after[j].key => i = j
      /\ \A i \in DOMAIN rows :
           /\ after[i].key = rows[i].key /\ after[i].alias = rows[i].alias /\ after[i].total = rows[i].total
           /\ ~rows[i].deleted => ~after[i].deleted
           /\ after[i].key \notin Identities!KeysOf(S) => after[i] = rows[i]
      /\ \A i \in DOMAIN after \ DOMAIN rows : after[i].total = 0 /\ after[i].key \in Identities!KeysOf(S)
  BY <1>1, UpsertedIs
<1>3. rows' = [i \in DOMAIN after |-> IF i \in scope /\ after[i].key \notin Identities!KeysOf(S)
                                     THEN [after[i] EXCEPT !.deleted = TRUE] ELSE after[i]]
  BY <1>1 DEF Identities!StaleDeleted
<1>4. ASSUME NEW i \in DOMAIN after
      PROVE  /\ rows'[i] \in IdRow /\ rows'[i].key = after[i].key /\ rows'[i].total = after[i].total
             /\ rows'[i].alias = after[i].alias
             /\ rows'[i].deleted => after[i].deleted \/ (i \in scope /\ after[i].key \notin Identities!KeysOf(S))
  <2>1. after[i] \in IdRow BY <1>2
  <2>2. CASE i \in scope /\ after[i].key \notin Identities!KeysOf(S)
    <3>1. rows'[i] = [after[i] EXCEPT !.deleted = TRUE] BY <1>3, <2>2
    <3> QED BY <2>1, <2>2, <3>1 DEF IdRow
  <2>3. CASE ~(i \in scope /\ after[i].key \notin Identities!KeysOf(S))
    BY <1>3, <2>1, <2>3
  <2> QED BY <2>2, <2>3
<1>5. DOMAIN rows' = DOMAIN after /\ rows' \in Seq(IdRow) BY <1>2, <1>3, <1>4
<1>6. OneRowEach' BY <1>2, <1>4, <1>5 DEF OneRowEach
<1>7. \A i \in DOMAIN rows : rows[i].total \in Nat
  <2>1. \A i \in DOMAIN rows : rows[i] \in IdRow BY DEF IdInv, RowsSound
  <2> QED BY <2>1 DEF IdRow
<1>8. ASSUME NEW i \in DOMAIN rows
      PROVE  /\ i \in DOMAIN rows' /\ rows'[i].key = rows[i].key
             /\ rows'[i].total >= rows[i].total
             /\ rows'[i].alias = rows[i].alias \/ sync' = sync
             /\ ~rows[i].deleted /\ rows'[i].deleted => Unlisted(i)
  BY <1>2, <1>4, <1>5, <1>7
<1>9. \A i \in DOMAIN rows' : \/ rows'[i].total \in {0, Identities!EventsOf(rows'[i].key)}
                              \/ i \in DOMAIN rows /\ rows'[i].total = rows[i].total
  BY <1>2, <1>4, <1>5
<1> QED BY <1>5, <1>6, <1>8, <1>9, RowsWritten

\* A row is of an auth file or of a provider key.
LEMMA KeysAre ==
  ASSUME IdInv, NEW i \in DOMAIN rows
  PROVE  \/ rows[i].key[1] = "oauth" /\ rows[i].key[2] \in AuthFiles /\ rows[i].key = <<"oauth", rows[i].key[2]>>
         \/ rows[i].key[1] = "apikey" /\ rows[i].key[2] \in ProviderKeys /\ rows[i].key = <<"apikey", rows[i].key[2]>>
<1>1. rows[i] \in IdRow BY DEF IdInv, RowsSound
<1>2. rows[i].key \in Identities!Keys BY <1>1 DEF IdRow
<1> QED BY <1>2 DEF Identities!Keys

\* A step of a synchronisation that writes no row.
LEMMA SyncGoes ==
  ASSUME IdInv, UNCHANGED <<cpa, rows, lookup, events>>, SourcesSound'
  PROVE  IdInv' /\ IdStep
<1>1. RowsSound' /\ EventsSound' /\ RowsStay BY SameRows
<1>2. LookupSound' BY <1>1, LookupStays DEF IdInv
<1>3. \A i \in DOMAIN rows : rows[i].total \in Nat
  <2>1. \A i \in DOMAIN rows : rows[i] \in IdRow BY DEF IdInv, RowsSound
  <2> QED BY <2>1 DEF IdRow
<1>4. IdStep BY <1>3 DEF IdInv, RowsSound, OneRowEach, IdStep, Identities!KeepsIdentity, Identities!DeletesOnlyUnlisted
<1> QED BY <1>1, <1>2, <1>4 DEF IdInv

\* The steps that fetch, and the write of the API keys.
LEMMA FetchKeeps ==
  ASSUME IdInv, \/ Identities!SyncStarts \/ Identities!FetchAuthFiles
                \/ Identities!FetchProviderList \/ Identities!WriteApiKeys
  PROVE  IdInv' /\ IdStep
<1>1. UNCHANGED <<cpa, rows, lookup, events>>
  BY DEF Identities!SyncStarts, Identities!FetchAuthFiles, Identities!FetchProviderList, Identities!WriteApiKeys
<1>2. SourcesSound /\ sync \in SyncSet BY DEF IdInv, SourcesSound
<1>3. ASSUME Identities!SyncStarts PROVE SourcesSound'
  <2>1. sync' = [Identities!Idle EXCEPT !.pc = "files"] BY <1>3 DEF Identities!SyncStarts
  <2>2. sync' \in SyncSet /\ sync'.pc = "files" /\ sync'.asked = {} BY <2>1, IdleIs DEF SyncSet, SyncPcs
  <2> QED BY <1>1, <1>2, <2>2 DEF SourcesSound
<1>4. ASSUME Identities!FetchAuthFiles PROVE SourcesSound'
  <2>1. cpa.files \in [AuthFiles -> FileTypes \union {Identities!None}] BY <1>2 DEF SourcesSound
  <2>2. \/ sync' = [sync EXCEPT !.pc = "lists", !.files = cpa.files, !.gotFiles = TRUE]
        \/ sync' = [sync EXCEPT !.pc = "lists"]
    BY <1>4 DEF Identities!FetchAuthFiles
  <2>3. sync.asked = {} BY <1>2, <1>4 DEF SourcesSound, Identities!FetchAuthFiles
  <2>4. sync' \in SyncSet /\ sync'.pc = "lists" /\ sync'.asked = {} BY <1>2, <2>1, <2>2, <2>3 DEF SyncSet, SyncPcs
  <2>5. Identities!ListsLeft' # {} BY <2>4, IdleIs DEF Identities!ListsLeft
  <2> QED BY <1>1, <1>2, <2>4, <2>5 DEF SourcesSound
<1>5. ASSUME Identities!FetchProviderList PROVE SourcesSound'
  <2>1. PICK first : first = Identities!Min(Identities!ListsLeft) OBVIOUS
  <2>2. first \in Identities!ListsLeft
    <3>1. Identities!ListsLeft # {} BY <1>2, <1>5 DEF SourcesSound, Identities!FetchProviderList
    <3>2. Identities!ListsLeft \subseteq Nat BY IdleIs DEF Identities!ListsLeft
    <3> QED BY <2>1, <3>1, <3>2, LeastList
  <2>3. PICK t : t = ProviderTypes[first] OBVIOUS
  <2>4. t \in Identities!Types /\ first \in DOMAIN ProviderTypes
    BY <2>2, <2>3 DEF Identities!ListsLeft, Identities!Types, Identities!Range
  <2>5. PICK pc : pc = IF Identities!ListsLeft = {first} THEN "writeFiles" ELSE "lists" OBVIOUS
  <2>6. PICK begun : begun = [sync EXCEPT !.asked = @ \union {t}, !.pc = pc] OBVIOUS
  <2>7. \/ sync' = [begun EXCEPT !.fetched = @ \union {t}, !.lists[t] = cpa.lists[t]]
        \/ sync' = begun
    BY <1>5, <2>1, <2>3, <2>5, <2>6 DEF Identities!FetchProviderList
  <2>8. begun \in SyncSet /\ begun.asked = sync.asked \union {t} /\ begun.pc = pc
    BY <1>2, <2>4, <2>5, <2>6 DEF SyncSet, SyncPcs
  <2>9. cpa.lists[t] \in SUBSET ProviderKeys BY <1>2, <2>4 DEF SourcesSound
  <2>10. sync' \in SyncSet /\ sync'.asked = sync.asked \union {t} /\ sync'.pc = pc
    <3>1. CASE sync' = begun BY <2>8, <3>1
    <3>2. CASE sync' = [begun EXCEPT !.fetched = @ \union {t}, !.lists[t] = cpa.lists[t]]
      <4>1. PICK lists : lists = [begun.lists EXCEPT ![t] = cpa.lists[t]] OBVIOUS
      <4>2. lists \in [Identities!Types -> SUBSET ProviderKeys] BY <2>8, <2>9, <4>1 DEF SyncSet
      <4>3. begun.fetched \union {t} \in SUBSET Identities!Types BY <2>4, <2>8 DEF SyncSet
      <4>4. sync' = [begun EXCEPT !.fetched = begun.fetched \union {t}, !.lists = lists] BY <3>2, <4>1
      <4> QED BY <2>8, <4>2, <4>3, <4>4 DEF SyncSet
    <3> QED BY <2>7, <3>1, <3>2
  <2>11. ASSUME pc = "lists" PROVE Identities!ListsLeft' # {}
    <3>1. PICK other \in Identities!ListsLeft : other # first BY <2>2, <2>5, <2>11
    <3>2. other \in DOMAIN ProviderTypes /\ ProviderTypes[other] \notin sync.asked BY DEF Identities!ListsLeft
    <3>3. ProviderTypes[other] # t
      BY <2>3, <2>4, <3>1, <3>2, InstancesAllowed DEF Identities!IdentityConstants, Identities!IsInjective
    <3>4. ProviderTypes[other] \notin sync'.asked BY <2>10, <3>2, <3>3
    <3> QED BY <3>2, <3>4 DEF Identities!ListsLeft
  <2>12. pc # "files" BY <2>5
  <2> QED BY <1>1, <1>2, <2>10, <2>11, <2>12 DEF SourcesSound
<1>6. ASSUME Identities!WriteApiKeys PROVE SourcesSound'
  <2>1. PICK ok \in BOOLEAN : sync' = [sync EXCEPT !.pc = "writeProviders", !.upserted = @ /\ ok]
    BY <1>6 DEF Identities!WriteApiKeys
  <2>2. PICK upserted \in BOOLEAN : upserted = (sync.upserted /\ ok)
    <3>1. (sync.upserted /\ ok) \in BOOLEAN OBVIOUS
    <3> QED BY <3>1, Zenon
  <2>3. sync' = [sync EXCEPT !.pc = "writeProviders", !.upserted = upserted] BY <2>1, <2>2
  <2>4. sync' \in SyncSet /\ sync'.pc = "writeProviders" BY <1>2, <2>3 DEF SyncSet, SyncPcs
  <2> QED BY <1>1, <1>2, <2>4 DEF SourcesSound
<1>7. SourcesSound'
  BY <1>3, <1>4, <1>5, <1>6
<1> QED BY <1>1, <1>7, SyncGoes

\* CPA changes its lists.
LEMMA CpaKeeps == ASSUME IdInv, Identities!CpaChanges PROVE IdInv' /\ IdStep
<1>1. UNCHANGED <<rows, sync, lookup, events>> BY DEF Identities!CpaChanges
<1>2. cpa' \in [files : [AuthFiles -> FileTypes \union {Identities!None}],
               lists : [Identities!Types -> SUBSET ProviderKeys]]
  <2>1. \/ \E f \in AuthFiles, t \in FileTypes \union {Identities!None} : cpa' = [cpa EXCEPT !.files[f] = t]
        \/ \E t \in Identities!Types, some \in SUBSET ProviderKeys : cpa' = [cpa EXCEPT !.lists[t] = some]
    BY DEF Identities!CpaChanges
  <2>2. cpa \in [files : [AuthFiles -> FileTypes \union {Identities!None}],
               lists : [Identities!Types -> SUBSET ProviderKeys]]
    BY DEF IdInv, SourcesSound
  <2> QED BY <2>1, <2>2
<1>3. SourcesSound' BY <1>1, <1>2 DEF IdInv, SourcesSound, Identities!ListsLeft
<1>4. RowsSound' /\ EventsSound' /\ RowsStay BY <1>1, SameRows
<1>5. LookupSound' BY <1>1, <1>4, LookupStays DEF IdInv
<1>6. \A i \in DOMAIN rows : rows[i].total \in Nat
  <2>1. \A i \in DOMAIN rows : rows[i] \in IdRow BY DEF IdInv, RowsSound
  <2> QED BY <2>1 DEF IdRow
<1>7. IdStep BY <1>1, <1>6 DEF IdInv, RowsSound, OneRowEach, IdStep, Identities!KeepsIdentity, Identities!DeletesOnlyUnlisted
<1> QED BY <1>3, <1>4, <1>5, <1>7 DEF IdInv

\* ReplaceUsageIdentitiesForAuthType.
LEMMA WriteFilesKeeps == ASSUME IdInv, Identities!WriteAuthFiles PROVE IdInv' /\ IdStep
<1>1. UNCHANGED <<cpa, lookup, events>> BY DEF Identities!WriteAuthFiles
<1>2. SourcesSound'
  <2>1. \/ sync' = [sync EXCEPT !.pc = "writeKeys", !.upserted = FALSE]
        \/ sync' = [sync EXCEPT !.pc = "writeKeys"]
    BY DEF Identities!WriteAuthFiles
  <2>2. sync' \in SyncSet /\ sync'.pc \notin {"files", "lists"} BY <2>1 DEF IdInv, SourcesSound, SyncSet, SyncPcs
  <2> QED BY <1>1, <2>2 DEF IdInv, SourcesSound
<1>3. CASE UNCHANGED rows BY <1>1, <1>2, <1>3, SyncGoes
<1>4. CASE /\ sync.gotFiles
           /\ rows' = Identities!StaleDeleted(Identities!Upserted(Identities!FileRows),
                                {i \in DOMAIN rows : rows[i].key[1] = "oauth"}, Identities!FileRows)
  <2>1. /\ Incoming(Identities!FileRows)
        /\ \A f \in AuthFiles : <<"oauth", f>> \notin Identities!KeysOf(Identities!FileRows) =>
              sync.files[f] = Identities!None
    BY FileRowsAre DEF IdInv
  <2> DEFINE scope == {i \in DOMAIN rows : rows[i].key[1] = "oauth"}
  <2>2. \A i \in DOMAIN rows : i \in scope /\ rows[i].key \notin Identities!KeysOf(Identities!FileRows) => Unlisted(i)
    BY <1>4, <2>1, KeysAre DEF Unlisted
  <2>3. RowsSound' /\ LookupSound' /\ EventsSound' /\ IdStep BY <1>1, <1>4, <2>1, <2>2, Replaced
  <2> QED BY <1>2, <2>3 DEF IdInv
<1> QED BY <1>3, <1>4 DEF Identities!WriteAuthFiles

\* ReplaceUsageIdentitiesForProviderTypes.
LEMMA WriteProvidersKeeps == ASSUME IdInv, Identities!WriteProviders PROVE IdInv' /\ IdStep
<1>1. UNCHANGED <<cpa, lookup, events>> BY DEF Identities!WriteProviders
<1>2. SourcesSound'
  <2>1. \/ sync' = [sync EXCEPT !.pc = "aggregate", !.upserted = FALSE]
        \/ sync' = [sync EXCEPT !.pc = "aggregate"]
    BY DEF Identities!WriteProviders
  <2>2. sync' \in SyncSet /\ sync'.pc \notin {"files", "lists"} BY <2>1 DEF IdInv, SourcesSound, SyncSet, SyncPcs
  <2> QED BY <1>1, <2>2 DEF IdInv, SourcesSound
<1>3. CASE UNCHANGED rows BY <1>1, <1>2, <1>3, SyncGoes
<1>4. CASE rows' = Identities!StaleDeleted(Identities!Upserted(Identities!ProviderRows),
                     Identities!StaleScope(Identities!Upserted(Identities!ProviderRows)), Identities!ProviderRows)
  <2>1. /\ Incoming(Identities!ProviderRows)
        /\ \A p \in ProviderKeys : <<"apikey", p>> \notin Identities!KeysOf(Identities!ProviderRows) =>
              Identities!FlatType(p) = Identities!None
    BY ProviderRowsAre
  <2>2. PICK after : after = Identities!Upserted(Identities!ProviderRows) OBVIOUS
  <2>3. \A i \in DOMAIN rows : /\ after[i].key = rows[i].key
                               /\ after[i].key \notin Identities!KeysOf(Identities!ProviderRows) => after[i] = rows[i]
    BY <2>1, <2>2, UpsertedIs
  <2>4. PICK scope : scope = Identities!StaleScope(after) OBVIOUS
  <2>5. ASSUME NEW i \in DOMAIN rows, i \in scope, rows[i].key \notin Identities!KeysOf(Identities!ProviderRows)
        PROVE  Unlisted(i)
    <3>1. after[i] = rows[i]
      <4>1. after[i].key = rows[i].key BY <2>3
      <4>2. after[i].key \notin Identities!KeysOf(Identities!ProviderRows) BY <2>5, <4>1
      <4> QED BY <2>3, <4>2
    <3>2. rows[i].key[1] = "apikey" /\ rows[i].type \in sync.fetched BY <2>4, <2>5, <3>1 DEF Identities!StaleScope
    <3>3. Identities!FlatType(rows[i].key[2]) = Identities!None BY <2>1, <2>5, <3>2, KeysAre
    <3> QED BY <3>2, <3>3 DEF Unlisted
  <2>6. RowsSound' /\ LookupSound' /\ EventsSound' /\ IdStep
    BY <1>1, <1>4, <2>1, <2>2, <2>4, <2>5, Replaced
  <2> QED BY <1>2, <2>6 DEF IdInv
<1> QED BY <1>3, <1>4 DEF Identities!WriteProviders

\* The statistics are brought up to date.
LEMMA AggregatedKeeps ==
  ASSUME IdInv, UNCHANGED <<lookup, events>>, rows' = Identities!Aggregated
  PROVE  RowsSound' /\ LookupSound' /\ EventsSound' /\ IdStep
<1>1. rows \in Seq(IdRow) /\ OneRowEach /\ events \in Seq(EventSet) BY DEF IdInv, RowsSound, EventsSound
<1>2. ASSUME NEW i \in DOMAIN rows
      PROVE  /\ rows'[i] \in IdRow /\ rows'[i].key = rows[i].key /\ rows'[i].alias = rows[i].alias
             /\ rows'[i].deleted = rows[i].deleted /\ rows'[i].total = Identities!EventsOf(rows[i].key)
             /\ rows'[i].total >= rows[i].total
  <2>1. rows[i] \in IdRow BY <1>1
  <2>2. PICK n : n = Identities!EventsOf(rows[i].key) OBVIOUS
  <2>3. n \in Nat BY <1>1, <2>2, EventsCounted
  <2>4. rows'[i] = [rows[i] EXCEPT !.total = n] BY <2>2 DEF Identities!Aggregated
  <2>5. rows[i].total <= n BY <2>2 DEF IdInv, RowsSound
  <2>6. rows[i].total \in Nat BY <2>1 DEF IdRow
  <2> QED BY <2>1, <2>2, <2>3, <2>4, <2>5, <2>6 DEF IdRow
<1>3. DOMAIN rows' = DOMAIN rows /\ rows' \in Seq(IdRow)
  <2>1. DOMAIN rows' = DOMAIN rows BY DEF Identities!Aggregated
  <2>2. DOMAIN rows = 1..Len(rows) /\ Len(rows) \in Nat BY <1>1, LenProperties
  <2>3. rows' \in [1..Len(rows) -> IdRow] BY <1>2, <2>1, <2>2 DEF Identities!Aggregated
  <2> QED BY <2>1, <2>2, <2>3
<1>4. OneRowEach' BY <1>1, <1>2, <1>3 DEF OneRowEach
<1>5. \A i \in DOMAIN rows : /\ i \in DOMAIN rows' /\ rows'[i].key = rows[i].key
                             /\ rows'[i].total >= rows[i].total
                             /\ rows'[i].alias = rows[i].alias \/ sync' = sync
                             /\ ~rows[i].deleted /\ rows'[i].deleted => Unlisted(i)
  BY <1>2, <1>3
<1>6. \A i \in DOMAIN rows' : \/ rows'[i].total \in {0, Identities!EventsOf(rows'[i].key)}
                              \/ i \in DOMAIN rows /\ rows'[i].total = rows[i].total
  BY <1>2, <1>3
<1> QED BY <1>3, <1>4, <1>5, <1>6, RowsWritten

\* Either aggregation.
LEMMA AggregateKeeps ==
  ASSUME IdInv, Identities!AggregateIdentities \/ Identities!IngestAggregates PROVE IdInv' /\ IdStep
<1>1. UNCHANGED <<cpa, lookup, events>> /\ rows' \in {rows, Identities!Aggregated}
      /\ (sync' = sync \/ sync' = [sync EXCEPT !.pc = "done"])
  BY DEF Identities!AggregateIdentities, Identities!IngestAggregates
<1>2. SourcesSound'
  <2>1. sync' \in SyncSet /\ (sync' = sync \/ sync'.pc = "done") BY <1>1 DEF IdInv, SourcesSound, SyncSet, SyncPcs
  <2> QED BY <1>1, <2>1 DEF IdInv, SourcesSound, Identities!ListsLeft
<1>3. CASE rows' = rows BY <1>1, <1>2, <1>3, SyncGoes
<1>4. CASE rows' = Identities!Aggregated BY <1>1, <1>2, <1>4, AggregatedKeeps DEF IdInv
<1> QED BY <1>1, <1>3, <1>4

\* UpdateUsageIdentityAlias.
LEMMA UpdateAliasKeeps == ASSUME IdInv, Identities!UpdateAlias PROVE IdInv' /\ IdStep
<1>1. PICK i \in DOMAIN rows, alias \in Aliases : rows' = [rows EXCEPT ![i].alias = alias]
  BY DEF Identities!UpdateAlias
<1>2. UNCHANGED <<cpa, sync, lookup, events>> BY DEF Identities!UpdateAlias
<1>3. SourcesSound' BY <1>2 DEF IdInv, SourcesSound, Identities!ListsLeft
<1>4. rows \in Seq(IdRow) /\ OneRowEach /\ rows[i] \in IdRow BY DEF IdInv, RowsSound
<1>5. PICK row : row = [rows[i] EXCEPT !.alias = alias] OBVIOUS
<1>6. /\ row \in IdRow /\ row.key = rows[i].key /\ row.total = rows[i].total /\ row.deleted = rows[i].deleted
  BY <1>4, <1>5 DEF IdRow
<1>7. rows' = [rows EXCEPT ![i] = row] BY <1>1, <1>4, <1>5
<1>8. /\ DOMAIN rows' = DOMAIN rows /\ rows' \in Seq(IdRow) /\ rows'[i] = row
      /\ \A j \in DOMAIN rows \ {i} : rows'[j] = rows[j]
  BY <1>4, <1>6, <1>7
<1>9. OneRowEach' BY <1>4, <1>6, <1>8 DEF OneRowEach
<1>10. \A j \in DOMAIN rows : rows[j].total \in Nat
  <2>1. \A j \in DOMAIN rows : rows[j] \in IdRow BY DEF IdInv, RowsSound
  <2> QED BY <2>1 DEF IdRow
<1>11. \A j \in DOMAIN rows : /\ j \in DOMAIN rows' /\ rows'[j].key = rows[j].key
                              /\ rows'[j].total >= rows[j].total
                              /\ rows'[j].alias = rows[j].alias \/ sync' = sync
                              /\ ~rows[j].deleted /\ rows'[j].deleted => Unlisted(j)
  BY <1>2, <1>6, <1>8, <1>10
<1>12. \A j \in DOMAIN rows' : \/ rows'[j].total \in {0, Identities!EventsOf(rows'[j].key)}
                               \/ j \in DOMAIN rows /\ rows'[j].total = rows[j].total
  BY <1>6, <1>8
<1> QED BY <1>2, <1>3, <1>8, <1>9, <1>11, <1>12, RowsWritten DEF IdInv

\* The type of an identity's row, if it has one.
LEMMA TypeOfIs ==
  ASSUME IdInv, NEW key
  PROVE  /\ Identities!RowsOf(key) = {} => Identities!TypeOf(key) = Identities!None
         /\ Identities!RowsOf(key) # {} => Identities!TypeOf(key) \in IdTypes /\ Identities!TypeOf(key) # Identities!None
<1>1. ASSUME Identities!RowsOf(key) # {} PROVE Identities!TypeOf(key) \in IdTypes /\ Identities!TypeOf(key) # Identities!None
  <2>1. PICK i : i = CHOOSE j \in Identities!RowsOf(key) : TRUE OBVIOUS
  <2>2. i \in Identities!RowsOf(key) BY <1>1, <2>1
  <2>3. i \in DOMAIN rows BY <2>2 DEF Identities!RowsOf
  <2>4. rows[i] \in IdRow BY <2>3 DEF IdInv, RowsSound
  <2>5. Identities!TypeOf(key) = rows[i].type BY <1>1, <2>1 DEF Identities!TypeOf
  <2>6. rows[i].type \in IdTypes BY <2>4 DEF IdRow
  <2> QED BY <2>5, <2>6, NoneIsNoType
<1> QED BY <1>1 DEF Identities!TypeOf

\* A step of the ingest that only looks.
LEMMA LookupWritten ==
  ASSUME IdInv, UNCHANGED <<cpa, rows, sync, events>>, LookupSound'
  PROVE  IdInv' /\ IdStep
<1>1. RowsSound' /\ EventsSound' /\ RowsStay BY SameRows
<1>2. SourcesSound' BY DEF IdInv, SourcesSound, Identities!ListsLeft
<1>3. \A i \in DOMAIN rows : rows[i].total \in Nat
  <2>1. \A i \in DOMAIN rows : rows[i] \in IdRow BY DEF IdInv, RowsSound
  <2> QED BY <2>1 DEF IdRow
<1>4. IdStep BY <1>3 DEF IdInv, RowsSound, OneRowEach, IdStep, Identities!KeepsIdentity, Identities!DeletesOnlyUnlisted
<1> QED BY <1>1, <1>2, <1>4 DEF IdInv

\* The active rows are read.
LEMMA ActiveKeeps == ASSUME IdInv, Identities!LookUpActive PROVE IdInv' /\ IdStep
<1>1. PICK key \in Identities!Keys :
        lookup' = [pc |-> IF Identities!FoundType(key, FALSE) = Identities!None THEN "deleted" ELSE "store",
                   key |-> key, found |-> Identities!FoundType(key, FALSE),
                   known |-> {Identities!TypeOf(key)} \ {Identities!None}, steady |-> TRUE]
  BY DEF Identities!LookUpActive
<1>2. UNCHANGED <<cpa, rows, sync, events>> BY DEF Identities!LookUpActive
<1>3. PICK found : found = Identities!FoundType(key, FALSE) OBVIOUS
<1>4. PICK type : type = Identities!TypeOf(key) OBVIOUS
<1>5. found = Identities!None \/ found = type BY <1>3, <1>4 DEF Identities!FoundType
<1>6. type \in Types0 /\ (type # Identities!None => Identities!RowsOf(key) # {} /\ type \in IdTypes)
  BY <1>4, TypeOfIs DEF Types0
<1>7. lookup' = [pc |-> IF found = Identities!None THEN "deleted" ELSE "store", key |-> key, found |-> found,
                 known |-> {type} \ {Identities!None}, steady |-> TRUE]
  BY <1>1, <1>3, <1>4
<1>8. Identities!RowsOf(key)' = Identities!RowsOf(key) BY <1>2 DEF Identities!RowsOf
<1>9. lookup' \in LookupSet BY <1>5, <1>6, <1>7 DEF LookupSet, Types0
<1>10. lookup'.key = key BY <1>7
<1>11. LookupSound' BY <1>5, <1>6, <1>7, <1>8, <1>9, <1>10 DEF LookupSound
<1> QED BY <1>2, <1>11, LookupWritten

\* The deleted rows are read: the row is there, deleted, or no claim is made.
LEMMA DeletedKeeps == ASSUME IdInv, Identities!LookUpDeleted PROVE IdInv' /\ IdStep
<1>1. PICK key : key = lookup.key OBVIOUS
<1>2. UNCHANGED <<cpa, rows, sync, events>> /\ lookup.pc = "deleted" BY DEF Identities!LookUpDeleted
<1>3. /\ lookup \in LookupSet /\ key \in Identities!Keys
      /\ lookup.known # {} => Identities!RowsOf(key) # {}
  BY <1>1, <1>2 DEF IdInv, LookupSound
<1>4. PICK found : found = Identities!FoundType(key, TRUE) OBVIOUS
<1>5. PICK type : type = Identities!TypeOf(key) OBVIOUS
<1>6. PICK known : known = IF lookup.known = {} THEN {} ELSE lookup.known \union {type} OBVIOUS
<1>7. PICK steady \in BOOLEAN : steady = (Identities!RowsOfLookup(key, FALSE) = {})
  <2>1. (Identities!RowsOfLookup(key, FALSE) = {}) \in BOOLEAN OBVIOUS
  <2> QED BY <2>1, Zenon
<1>8. lookup' = [lookup EXCEPT !.pc = "store", !.found = found, !.known = known, !.steady = steady]
  BY <1>1, <1>4, <1>5, <1>6, <1>7 DEF Identities!LookUpDeleted
<1>9. found \in {Identities!None, type} BY <1>4, <1>5 DEF Identities!FoundType
<1>10. type \in Types0 /\ (Identities!RowsOf(key) # {} => type \in IdTypes /\ type # Identities!None)
  BY <1>5, TypeOfIs DEF Types0
<1>11. known \subseteq IdTypes BY <1>3, <1>6, <1>10 DEF LookupSet
<1>12. lookup' \in LookupSet /\ lookup'.pc = "store" /\ lookup'.key = key /\ lookup'.known = known
       /\ lookup'.found = found /\ lookup'.steady = steady
  BY <1>1, <1>3, <1>8, <1>9, <1>10, <1>11 DEF LookupSet, Types0
<1>13. ASSUME known # {}, steady PROVE found \in known /\ found # Identities!None
  <2>1. Identities!RowsOf(key) # {} /\ type \in known /\ type # Identities!None BY <1>3, <1>6, <1>10, <1>13
  <2>2. PICK i : i \in Identities!RowsOf(key) BY <2>1
  <2>3. i \in DOMAIN rows BY <2>2 DEF Identities!RowsOf
  <2>4. rows[i] \in IdRow BY <2>3 DEF IdInv, RowsSound
  <2>5. rows[i].deleted \in BOOLEAN BY <2>4 DEF IdRow
  <2>6. rows[i].deleted = TRUE BY <1>7, <1>13, <2>2, <2>5 DEF Identities!RowsOfLookup
  <2>7. Identities!RowsOfLookup(key, TRUE) # {} BY <2>2, <2>6 DEF Identities!RowsOfLookup
  <2>8. found = type BY <1>4, <1>5, <2>7 DEF Identities!FoundType
  <2> QED BY <2>1, <2>8
<1>14. LookupSound' BY <1>3, <1>12, <1>13 DEF LookupSound
<1> QED BY <1>2, <1>14, LookupWritten

\* The event is stored.
LEMMA StoreKeeps == ASSUME IdInv, Identities!StoreEvent PROVE IdInv' /\ IdStep
<1>1. PICK e : e = [key |-> lookup.key, type |-> Identities!ResolvedType,
                    known |-> lookup.known, steady |-> lookup.steady]
  OBVIOUS
<1>2. /\ lookup.pc = "store" /\ UNCHANGED <<cpa, rows, sync>>
      /\ events' = Append(events, e) /\ lookup' = Identities!NoLookup
  BY <1>1 DEF Identities!StoreEvent
<1>3. /\ lookup \in LookupSet /\ lookup.key \in Identities!Keys
      /\ lookup.known # {} /\ lookup.steady => lookup.found \in lookup.known /\ lookup.found # Identities!None
  BY <1>2 DEF IdInv, LookupSound
<1>4. PICK type : type = Identities!ResolvedType OBVIOUS
<1>5. /\ type \in Types0 \union {EventProvider, Fallback}
      /\ lookup.found # Identities!None => type = lookup.found
  BY <1>3, <1>4 DEF Identities!ResolvedType, LookupSet
<1>6. /\ e \in EventSet /\ e.key = lookup.key
      /\ e.known # {} /\ e.steady => e.type \in e.known
  BY <1>1, <1>3, <1>4, <1>5 DEF EventSet, LookupSet
<1>7. events \in Seq(EventSet)
      /\ \A n \in DOMAIN events : events[n].known # {} /\ events[n].steady => events[n].type \in events[n].known
  BY DEF IdInv, EventsSound
<1>8. /\ events' \in Seq(EventSet) /\ DOMAIN events \subseteq DOMAIN events'
      /\ \A n \in DOMAIN events : events'[n] = events[n]
      /\ \A n \in DOMAIN events' : n \in DOMAIN events \/ events'[n] = e
  <2>1. DOMAIN events = 1..Len(events) /\ Len(events) \in Nat BY <1>7, LenProperties
  <2>0. events \in Seq(EventSet) /\ e \in EventSet /\ events' = Append(events, e) BY <1>2, <1>6, <1>7
  <2>2. events' \in Seq(EventSet) /\ Len(events') = Len(events) + 1
        /\ events'[Len(events) + 1] = e /\ \A n \in 1..Len(events) : events'[n] = events[n]
    BY <2>0, AppendProperties
  <2>3. DOMAIN events' = 1..(Len(events) + 1) BY <2>2, LenProperties
  <2>4. \A n \in 1..(Len(events) + 1) : events'[n] = IF n = Len(events) + 1 THEN e ELSE events[n]
    BY <2>1, <2>2
  <2> QED BY <2>1, <2>2, <2>3, <2>4
<1>9. EventsSound' BY <1>6, <1>7, <1>8 DEF EventsSound
<1>10. LookupSound' BY <1>2 DEF LookupSound, LookupSet, Types0, Identities!NoLookup
<1>11. \A i \in DOMAIN rows : rows[i].total \in Nat
  <2>1. \A i \in DOMAIN rows : rows[i] \in IdRow BY DEF IdInv, RowsSound
  <2> QED BY <2>1 DEF IdRow
<1>12. RowsSound'
  <2>1. ASSUME NEW i \in DOMAIN rows PROVE (rows[i].total <= Identities!EventsOf(rows[i].key))'
    <3>1. PICK key : key = rows[i].key OBVIOUS
    <3> DEFINE S == {n \in DOMAIN events : events[n].key = key}
               T == {n \in DOMAIN events' : events'[n].key = key}
    <3>2. S \subseteq T BY <1>8
    <3>3. Identities!EventsOf(key) = Cardinality(S) /\ IsFiniteSet(S) BY <1>7, EventsCounted
    <3>4. Identities!EventsOf(key)' = Cardinality(T) BY DEF Identities!EventsOf, Identities!Cardinality, Cardinality
    <3>5. IsFiniteSet(T)
      <4>1. DOMAIN events' = 1..Len(events') /\ Len(events') \in Nat BY <1>8, LenProperties
      <4>2. IsFiniteSet(1..Len(events')) BY <4>1, FS_Interval
      <4> QED BY <4>1, <4>2, FS_Subset
    <3>6. Cardinality(S) \in Nat /\ Cardinality(T) \in Nat /\ Cardinality(S) <= Cardinality(T)
      BY <3>2, <3>3, <3>5, FS_Subset, FS_CardinalityType
    <3>7. rows[i].total <= Cardinality(S) BY <1>2, <3>1, <3>3 DEF IdInv, RowsSound
    <3> HIDE DEF S, T
    <3>8. rows'[i].total = rows[i].total /\ rows'[i].key = key /\ rows[i].total \in Nat BY <1>2, <1>11, <3>1
    <3> QED BY <3>4, <3>6, <3>7, <3>8
  <2> QED BY <1>2, <2>1 DEF IdInv, RowsSound, OneRowEach
<1>13. IdStep BY <1>2, <1>11 DEF IdInv, RowsSound, OneRowEach, IdStep, Identities!KeepsIdentity, Identities!DeletesOnlyUnlisted
<1>14. SourcesSound' BY <1>2 DEF IdInv, SourcesSound, Identities!ListsLeft
<1> QED BY <1>9, <1>10, <1>12, <1>13, <1>14 DEF IdInv

\* Every step.
LEMMA IdStepKeeps == ASSUME IdInv, Identities!Next PROVE IdInv' /\ IdStep
BY FetchKeeps, CpaKeeps, WriteFilesKeeps, WriteProvidersKeeps, AggregateKeeps, UpdateAliasKeeps,
   ActiveKeeps, DeletedKeeps, StoreKeeps
   DEF Identities!Next, Identities!Sync, Identities!Ingest

\* No step.
LEMMA IdStutters == ASSUME IdInv, UNCHANGED identityVars, UNCHANGED rows PROVE IdInv' /\ IdStep
<1>1. UNCHANGED <<cpa, rows, sync, lookup, events>> BY DEF identityVars
<1>2. SourcesSound' BY <1>1 DEF IdInv, SourcesSound, Identities!ListsLeft
<1> QED BY <1>1, <1>2, SyncGoes

\* What the invariant is for.
LEMMA IdSafe == IdInv => Identities!TypedBySteadyIdentity
<1> SUFFICES ASSUME IdInv, NEW e \in Identities!Range(events), e.known # {}, e.steady
             PROVE  e.type \in e.known
  BY DEF Identities!TypedBySteadyIdentity
<1>1. PICK n \in DOMAIN events : e = events[n] BY DEF Identities!Range
<1> QED BY <1>1 DEF IdInv, EventsSound

-----------------------------------------------------------------------------
(* What is shown of the identities.                                         *)

\* The identity is shown with the type, or not at all if the type is None.
Shows(key, type) ==
  /\ type # Identities!None => \E i \in DOMAIN rows : rows[i].key = key
  /\ \A i \in DOMAIN rows : rows[i].key = key =>
       IF type = Identities!None THEN rows[i].deleted ELSE ~rows[i].deleted /\ rows[i].type = type
\* A provider's key is, or belongs to a list that was not fetched.
ProviderShown(p) ==
  \/ Shows(<<"apikey", p>>, Identities!FlatType(p))
  \/ /\ Identities!FlatType(p) = Identities!None
     /\ \E i \in DOMAIN rows : rows[i].key = <<"apikey", p>>
     /\ \A i \in DOMAIN rows : rows[i].key = <<"apikey", p>> => rows[i].type \in Identities!Types \ sync.fetched

\* What a synchronisation has written without an error.
FilesWritten == sync.upserted /\ sync.pc \in {"writeKeys", "writeProviders", "aggregate", "done"}
AllWritten == sync.upserted /\ sync.pc \in {"aggregate", "done"}
KeysTyped == \A i \in DOMAIN rows : rows[i].key[1] = "apikey" => rows[i].type \in Identities!Types
FilesMirrored == FilesWritten => \A f \in AuthFiles : Shows(<<"oauth", f>>, sync.files[f])
ProvidersMirrored == AllWritten => \A p \in ProviderKeys : ProviderShown(p)

\* What is written stays: files when they are, providers' keys when all is; keys keep to the lists' types.
MirrorInv == KeysTyped /\ FilesMirrored /\ ProvidersMirrored

\* It holds before any synchronisation.
LEMMA MirrorInit == Identities!Init => MirrorInv
<1> SUFFICES ASSUME Identities!Init PROVE MirrorInv OBVIOUS
<1>1. rows \in FirstRows /\ sync = Identities!Idle BY DEF Identities!Init
<1>2. KeysTyped BY <1>1, InstancesAllowed DEF KeysTyped, Identities!IdentityConstants
<1>3. ~FilesWritten /\ ~AllWritten BY <1>1, IdleIs DEF FilesWritten, AllWritten
<1> QED BY <1>2, <1>3 DEF MirrorInv, FilesMirrored, ProvidersMirrored

\* A step that changes no key, no type and deletes nothing, and writes nothing of a synchronisation.
LEMMA MirrorFrame ==
  ASSUME MirrorInv, DOMAIN rows' = DOMAIN rows,
         \A i \in DOMAIN rows : /\ rows'[i].key = rows[i].key /\ rows'[i].type = rows[i].type
                                /\ rows'[i].deleted <=> rows[i].deleted,
         AllWritten' => AllWritten,
         FilesWritten' => FilesWritten /\ sync'.files = sync.files /\ sync'.lists = sync.lists
                                       /\ sync'.fetched = sync.fetched
  PROVE  MirrorInv'
<1>1. KeysTyped' BY DEF MirrorInv, KeysTyped
<1>2. \A key, type : Shows(key, type) => Shows(key, type)' BY DEF Shows
<1>3. ASSUME FilesWritten', NEW f \in AuthFiles PROVE Shows(<<"oauth", f>>, sync.files[f])'
  <2>1. Shows(<<"oauth", f>>, sync.files[f]) BY <1>3 DEF MirrorInv, FilesMirrored
  <2>2. sync'.files[f] = sync.files[f] BY <1>3
  <2> QED BY <2>1, <2>2 DEF Shows
<1>4. ASSUME AllWritten', NEW p \in ProviderKeys PROVE ProviderShown(p)'
  <2>0. FilesWritten' BY <1>4 DEF FilesWritten, AllWritten
  <2>1. Identities!FlatType(p)' = Identities!FlatType(p) /\ sync'.fetched = sync.fetched
    BY <2>0 DEF Identities!FlatType
  <2>2. ProviderShown(p) BY <1>4 DEF MirrorInv, ProvidersMirrored
  <2>3. CASE Shows(<<"apikey", p>>, Identities!FlatType(p))
    <3>1. Shows(<<"apikey", p>>, Identities!FlatType(p))' BY <2>1, <2>3 DEF Shows
    <3> QED BY <3>1 DEF ProviderShown
  <2>4. CASE /\ Identities!FlatType(p) = Identities!None
             /\ \E i \in DOMAIN rows : rows[i].key = <<"apikey", p>>
             /\ \A i \in DOMAIN rows : rows[i].key = <<"apikey", p>> => rows[i].type \in Identities!Types \ sync.fetched
    BY <2>1, <2>4 DEF ProviderShown
  <2> QED BY <2>2, <2>3, <2>4 DEF ProviderShown
<1> QED BY <1>1, <1>3, <1>4 DEF MirrorInv, FilesMirrored, ProvidersMirrored

\* The rows after a write of a synchronisation: those it brings are active with their types, of the
\* others those in its scope are deleted.
LEMMA WrittenRows ==
  ASSUME IdInv, NEW S, Incoming(S), NEW scope, rows' = Identities!StaleDeleted(Identities!Upserted(S), scope, S)
  PROVE  /\ \A r \in S : \E i \in DOMAIN rows' : rows'[i].key = r.key
         /\ \A i \in DOMAIN rows' : \A r \in S : rows'[i].key = r.key => rows'[i].type = r.type /\ ~rows'[i].deleted
         /\ \A i \in DOMAIN rows : i \in DOMAIN rows' /\ rows'[i].key = rows[i].key
         /\ \A i \in DOMAIN rows' : rows'[i].key \notin Identities!KeysOf(S) =>
              /\ i \in DOMAIN rows /\ rows'[i].key = rows[i].key /\ rows'[i].type = rows[i].type
              /\ rows[i] = Identities!Upserted(S)[i]
              /\ rows'[i].deleted <=> rows[i].deleted \/ i \in scope
<1>1. PICK after : after = Identities!Upserted(S) OBVIOUS
<1>2. /\ after \in Seq(IdRow) /\ DOMAIN rows \subseteq DOMAIN after
      /\ \A i \in DOMAIN rows : /\ after[i].key = rows[i].key
                                /\ after[i].key \notin Identities!KeysOf(S) => after[i] = rows[i]
      /\ \A i \in DOMAIN after \ DOMAIN rows : after[i].key \in Identities!KeysOf(S)
      /\ \A i \in DOMAIN after : \A r \in S : after[i].key = r.key => after[i].type = r.type /\ ~after[i].deleted
      /\ \A r \in S : \E i \in DOMAIN after : after[i].key = r.key
  BY <1>1, UpsertedIs
<1>3. rows' = [i \in DOMAIN after |-> IF i \in scope /\ after[i].key \notin Identities!KeysOf(S)
                                     THEN [after[i] EXCEPT !.deleted = TRUE] ELSE after[i]]
  BY <1>1 DEF Identities!StaleDeleted
<1>4. ASSUME NEW i \in DOMAIN after
      PROVE  /\ rows'[i].key = after[i].key /\ rows'[i].type = after[i].type
             /\ after[i].key \in Identities!KeysOf(S) => rows'[i] = after[i]
             /\ after[i].key \notin Identities!KeysOf(S) => (rows'[i].deleted <=> after[i].deleted \/ i \in scope)
  <2>1. after[i] \in IdRow BY <1>2
  <2>2. CASE i \in scope /\ after[i].key \notin Identities!KeysOf(S)
    <3>1. rows'[i] = [after[i] EXCEPT !.deleted = TRUE] BY <1>3, <2>2
    <3> QED BY <2>1, <2>2, <3>1 DEF IdRow
  <2>3. CASE ~(i \in scope /\ after[i].key \notin Identities!KeysOf(S)) BY <1>3, <2>1, <2>3
  <2> QED BY <2>2, <2>3
<1>5. DOMAIN rows' = DOMAIN after BY <1>3
<1>6. \A r \in S : r.key \in Identities!KeysOf(S) BY DEF Identities!KeysOf
<1>7. \A r \in S : \E i \in DOMAIN rows' : rows'[i].key = r.key BY <1>2, <1>4, <1>5
<1>8. ASSUME NEW i \in DOMAIN rows', NEW r \in S, rows'[i].key = r.key
      PROVE  rows'[i].type = r.type /\ ~rows'[i].deleted
  <2>1. i \in DOMAIN after /\ after[i].key = r.key /\ rows'[i] = after[i] BY <1>4, <1>5, <1>6, <1>8
  <2> QED BY <1>2, <2>1
<1>9. \A i \in DOMAIN rows : i \in DOMAIN rows' /\ rows'[i].key = rows[i].key BY <1>2, <1>4, <1>5
<1>10. ASSUME NEW i \in DOMAIN rows', rows'[i].key \notin Identities!KeysOf(S)
       PROVE  /\ i \in DOMAIN rows /\ rows'[i].key = rows[i].key /\ rows'[i].type = rows[i].type
              /\ rows[i] = after[i]
              /\ rows'[i].deleted <=> rows[i].deleted \/ i \in scope
  <2>1. i \in DOMAIN after /\ after[i].key \notin Identities!KeysOf(S) BY <1>4, <1>5, <1>10
  <2>2. i \in DOMAIN rows BY <1>2, <2>1
  <2>3. after[i] = rows[i] BY <1>2, <2>1, <2>2
  <2> QED BY <1>4, <2>1, <2>2, <2>3
<1> QED BY <1>1, <1>7, <1>8, <1>9, <1>10

\* After the write of the files, each is shown as CPA listed it.
LEMMA FilesMirror == ASSUME IdInv, MirrorInv, Identities!WriteAuthFiles PROVE MirrorInv'
<1>1. sync.pc = "writeFiles" /\ sync \in SyncSet BY DEF Identities!WriteAuthFiles, IdInv, SourcesSound
<1>2. CASE sync' = [sync EXCEPT !.pc = "writeKeys", !.upserted = FALSE] /\ UNCHANGED rows
  <2>1. ~FilesWritten' /\ ~AllWritten' BY <1>1, <1>2 DEF FilesWritten, AllWritten, SyncSet
  <2> QED BY <1>2, <2>1, MirrorFrame
<1>3. CASE /\ rows' = Identities!StaleDeleted(Identities!Upserted(Identities!FileRows),
                                {i \in DOMAIN rows : rows[i].key[1] = "oauth"}, Identities!FileRows)
           /\ sync' = [sync EXCEPT !.pc = "writeKeys"]
  <2>1. /\ Incoming(Identities!FileRows)
        /\ \A r \in Identities!FileRows :
             \E f \in AuthFiles : r.key = <<"oauth", f>> /\ r.type = sync.files[f] /\ r.type # Identities!None
        /\ \A f \in AuthFiles : <<"oauth", f>> \notin Identities!KeysOf(Identities!FileRows) =>
             sync.files[f] = Identities!None
    BY FileRowsAre DEF IdInv
  <2>2. PICK S : S = Identities!FileRows OBVIOUS
  <2>3. PICK scope : scope = {i \in DOMAIN rows : rows[i].key[1] = "oauth"} OBVIOUS
  <2>4. /\ \A r \in S : \E i \in DOMAIN rows' : rows'[i].key = r.key
        /\ \A i \in DOMAIN rows' : \A r \in S : rows'[i].key = r.key => rows'[i].type = r.type /\ ~rows'[i].deleted
        /\ \A i \in DOMAIN rows' : rows'[i].key \notin Identities!KeysOf(S) =>
              /\ i \in DOMAIN rows /\ rows'[i].key = rows[i].key /\ rows'[i].type = rows[i].type
              /\ rows'[i].deleted <=> rows[i].deleted \/ i \in scope
    <3>1. rows' = Identities!StaleDeleted(Identities!Upserted(S), scope, S) BY <1>3, <2>2, <2>3
    <3>2. Incoming(S) BY <2>1, <2>2
    <3> HIDE DEF Incoming
    <3> QED BY <3>1, <3>2, WrittenRows
  <2>5. sync'.files = sync.files /\ ~AllWritten' BY <1>1, <1>3 DEF AllWritten, SyncSet
  <2>6. \A key : key \in Identities!KeysOf(S) <=> \E r \in S : r.key = key BY DEF Identities!KeysOf
  <2>7. ASSUME NEW f \in AuthFiles PROVE Shows(<<"oauth", f>>, sync.files[f])'
    <3>1. CASE \E r \in S : r.key = <<"oauth", f>>
      <4>1. PICK r \in S : r.key = <<"oauth", f>> BY <3>1
      <4>2. r.type = sync.files[f] /\ r.type # Identities!None BY <2>1, <2>2, <4>1
      <4> QED BY <2>4, <2>5, <4>1, <4>2 DEF Shows
    <3>2. CASE ~\E r \in S : r.key = <<"oauth", f>>
      <4>1. sync.files[f] = Identities!None BY <2>1, <2>2, <2>6, <3>2
      <4>2. ASSUME NEW i \in DOMAIN rows', rows'[i].key = <<"oauth", f>> PROVE rows'[i].deleted
        <5>1. rows'[i].key \notin Identities!KeysOf(S) BY <2>6, <3>2, <4>2
        <5>2. i \in DOMAIN rows /\ rows[i].key = <<"oauth", f>> BY <2>4, <4>2, <5>1
        <5>3. i \in scope BY <2>3, <5>2
        <5> QED BY <2>4, <5>1, <5>3
      <4> QED BY <2>5, <4>1, <4>2 DEF Shows
    <3> QED BY <3>1, <3>2
  <2>8. KeysTyped'
    <3> SUFFICES ASSUME NEW i \in DOMAIN rows', rows'[i].key[1] = "apikey" PROVE rows'[i].type \in Identities!Types
      BY DEF KeysTyped
    <3>1. rows'[i].key \notin Identities!KeysOf(S) BY <2>1, <2>2, <2>6
    <3>2. i \in DOMAIN rows /\ rows'[i].key = rows[i].key /\ rows'[i].type = rows[i].type BY <2>4, <3>1
    <3> QED BY <3>2 DEF MirrorInv, KeysTyped
  <2> QED BY <2>5, <2>7, <2>8 DEF MirrorInv, FilesMirrored, ProvidersMirrored
<1> QED BY <1>2, <1>3 DEF Identities!WriteAuthFiles

\* After the write of the providers' keys, those are too, and the files still.
LEMMA ProvidersMirror == ASSUME IdInv, MirrorInv, Identities!WriteProviders PROVE MirrorInv'
<1>1. sync.pc = "writeProviders" /\ sync \in SyncSet BY DEF Identities!WriteProviders, IdInv, SourcesSound
<1>2. CASE sync' = [sync EXCEPT !.pc = "aggregate", !.upserted = FALSE] /\ UNCHANGED rows
  <2>1. ~FilesWritten' /\ ~AllWritten' BY <1>1, <1>2 DEF FilesWritten, AllWritten, SyncSet
  <2> QED BY <1>2, <2>1, MirrorFrame
<1>3. CASE /\ rows' = Identities!StaleDeleted(Identities!Upserted(Identities!ProviderRows),
                     Identities!StaleScope(Identities!Upserted(Identities!ProviderRows)), Identities!ProviderRows)
           /\ sync' = [sync EXCEPT !.pc = "aggregate"]
  <2>1. /\ Incoming(Identities!ProviderRows)
        /\ \A r \in Identities!ProviderRows :
             \E p \in ProviderKeys : r.key = <<"apikey", p>> /\ r.type = Identities!FlatType(p) /\ r.type # Identities!None
        /\ \A p \in ProviderKeys : <<"apikey", p>> \notin Identities!KeysOf(Identities!ProviderRows) =>
             Identities!FlatType(p) = Identities!None
    BY ProviderRowsAre
  <2>2. PICK S : S = Identities!ProviderRows OBVIOUS
  <2>3. PICK scope : scope = Identities!StaleScope(Identities!Upserted(S)) OBVIOUS
  <2>4. /\ \A r \in S : \E i \in DOMAIN rows' : rows'[i].key = r.key
        /\ \A i \in DOMAIN rows' : \A r \in S : rows'[i].key = r.key => rows'[i].type = r.type /\ ~rows'[i].deleted
        /\ \A i \in DOMAIN rows : i \in DOMAIN rows' /\ rows'[i].key = rows[i].key
        /\ \A i \in DOMAIN rows' : rows'[i].key \notin Identities!KeysOf(S) =>
              /\ i \in DOMAIN rows /\ rows'[i].key = rows[i].key /\ rows'[i].type = rows[i].type
              /\ rows[i] = Identities!Upserted(S)[i]
              /\ rows'[i].deleted <=> rows[i].deleted \/ i \in scope
    <3>1. rows' = Identities!StaleDeleted(Identities!Upserted(S), scope, S) BY <1>3, <2>2, <2>3
    <3>2. Incoming(S) BY <2>1, <2>2
    <3> HIDE DEF Incoming
    <3> QED BY <3>1, <3>2, WrittenRows
  <2>5. /\ sync'.files = sync.files /\ sync'.lists = sync.lists /\ sync'.fetched = sync.fetched
        /\ sync'.upserted = sync.upserted
    BY <1>1, <1>3 DEF SyncSet
  <2>6. \A key : key \in Identities!KeysOf(S) <=> \E r \in S : r.key = key BY DEF Identities!KeysOf
  <2>7. \A p : Identities!FlatType(p)' = Identities!FlatType(p) BY <2>5 DEF Identities!FlatType
  <2>8. ASSUME NEW i \in DOMAIN rows', rows'[i].key \notin Identities!KeysOf(S)
        PROVE  i \in scope <=> i \in DOMAIN Identities!Upserted(S) /\ rows[i].key[1] = "apikey" /\ rows[i].type \in sync.fetched
    <3>1. rows[i] = Identities!Upserted(S)[i] BY <2>4, <2>8
    <3> QED BY <2>3, <3>1 DEF Identities!StaleScope
  <2>9. KeysTyped'
    <3> SUFFICES ASSUME NEW i \in DOMAIN rows', rows'[i].key[1] = "apikey" PROVE rows'[i].type \in Identities!Types
      BY DEF KeysTyped
    <3>1. CASE rows'[i].key \in Identities!KeysOf(S)
      <4>1. PICK r \in S : r.key = rows'[i].key BY <2>6, <3>1
      <4>2. rows'[i].type = r.type BY <2>4, <4>1
      <4>3. r.type \in Identities!Types BY <2>1, <2>2, <4>1, FlatTypeIs
      <4> QED BY <4>2, <4>3
    <3>2. CASE rows'[i].key \notin Identities!KeysOf(S)
      <4>1. i \in DOMAIN rows /\ rows'[i].key = rows[i].key /\ rows'[i].type = rows[i].type BY <2>4, <3>2
      <4> QED BY <4>1 DEF MirrorInv, KeysTyped
    <3> QED BY <3>1, <3>2
  <2>10. ASSUME sync.upserted, NEW f \in AuthFiles PROVE Shows(<<"oauth", f>>, sync.files[f])'
    <3>1. Shows(<<"oauth", f>>, sync.files[f]) BY <1>1, <2>10 DEF MirrorInv, FilesMirrored, FilesWritten
    <3>2. <<"oauth", f>> \notin Identities!KeysOf(S) BY <2>1, <2>2, <2>6
    <3>3. ASSUME NEW i \in DOMAIN rows', rows'[i].key = <<"oauth", f>>
          PROVE  /\ i \in DOMAIN rows /\ rows[i].key = <<"oauth", f>> /\ rows'[i].type = rows[i].type
                 /\ rows'[i].deleted <=> rows[i].deleted
      <4>1. rows'[i].key \notin Identities!KeysOf(S) BY <3>2, <3>3
      <4>2. i \in DOMAIN rows /\ rows[i].key = <<"oauth", f>> BY <2>4, <3>3, <4>1
      <4>3. i \notin scope BY <2>8, <4>1, <4>2
      <4> QED BY <2>4, <4>1, <4>2, <4>3
    <3>4. sync.files[f] # Identities!None => \E i \in DOMAIN rows' : rows'[i].key = <<"oauth", f>>
      BY <2>4, <3>1 DEF Shows
    <3> QED BY <2>5, <3>1, <3>3, <3>4 DEF Shows
  <2>11. ASSUME NEW p \in ProviderKeys PROVE ProviderShown(p)'
    <3>1. CASE \E r \in S : r.key = <<"apikey", p>>
      <4>1. PICK r \in S : r.key = <<"apikey", p>> BY <3>1
      <4>2. r.type = Identities!FlatType(p) /\ r.type # Identities!None BY <2>1, <2>2, <4>1
      <4>3. Shows(<<"apikey", p>>, Identities!FlatType(p))' BY <2>4, <2>7, <4>1, <4>2 DEF Shows
      <4> QED BY <4>3 DEF ProviderShown
    <3>2. CASE ~\E r \in S : r.key = <<"apikey", p>>
      <4>1. Identities!FlatType(p) = Identities!None BY <2>1, <2>2, <2>6, <3>2
      <4>2. ASSUME NEW i \in DOMAIN rows', rows'[i].key = <<"apikey", p>>
            PROVE  /\ rows'[i].type \in Identities!Types
                   /\ rows'[i].type \in sync.fetched => rows'[i].deleted
        <5>1. rows'[i].key \notin Identities!KeysOf(S) BY <2>6, <3>2, <4>2
        <5>2. i \in DOMAIN rows /\ rows[i].key[1] = "apikey" /\ rows'[i].type = rows[i].type BY <2>4, <4>2, <5>1
        <5>3. rows[i].type \in sync.fetched => i \in scope
          <6>1. i \in DOMAIN Identities!Upserted(S) BY <2>1, <2>2, <5>2, UpsertedIs
          <6> QED BY <2>8, <5>1, <5>2, <6>1
        <5>4. rows'[i].type \in Identities!Types BY <2>9, <4>2 DEF KeysTyped
        <5> QED BY <2>4, <5>1, <5>2, <5>3, <5>4
      <4>3. OneRowEach' BY WriteProvidersKeeps DEF IdInv, RowsSound
      <4>4. CASE \E i \in DOMAIN rows' : rows'[i].key = <<"apikey", p>> /\ ~rows'[i].deleted
        <5>1. PICK i \in DOMAIN rows' : rows'[i].key = <<"apikey", p>> /\ ~rows'[i].deleted BY <4>4
        <5>2. rows'[i].type \in Identities!Types \ sync'.fetched BY <2>5, <4>2, <5>1
        <5>3. \A j \in DOMAIN rows' : rows'[j].key = <<"apikey", p>> => j = i BY <4>3, <5>1 DEF OneRowEach
        <5> QED BY <2>7, <4>1, <5>1, <5>2, <5>3 DEF ProviderShown
      <4>5. CASE \A i \in DOMAIN rows' : rows'[i].key = <<"apikey", p>> => rows'[i].deleted
        <5>1. Shows(<<"apikey", p>>, Identities!FlatType(p))' BY <2>7, <4>1, <4>5 DEF Shows
        <5> QED BY <5>1 DEF ProviderShown
      <4> QED BY <4>4, <4>5
    <3> QED BY <3>1, <3>2
  <2> QED BY <2>5, <2>9, <2>10, <2>11 DEF MirrorInv, FilesMirrored, ProvidersMirrored, FilesWritten, AllWritten
<1> QED BY <1>2, <1>3 DEF Identities!WriteProviders

\* Every other step leaves what is shown as it is, or begins a new synchronisation.
LEMMA MirrorStepKeeps == ASSUME IdInv, MirrorInv, Identities!Next PROVE MirrorInv'
<1>0. sync \in SyncSet /\ rows \in Seq(IdRow) BY DEF IdInv, SourcesSound, RowsSound
<1>1. CASE Identities!CpaChanges \/ Identities!LookUpActive \/ Identities!LookUpDeleted \/ Identities!StoreEvent
  <2>1. UNCHANGED <<rows, sync>>
    BY <1>1 DEF Identities!CpaChanges, Identities!LookUpActive, Identities!LookUpDeleted, Identities!StoreEvent
  <2> QED BY <2>1, MirrorFrame DEF FilesWritten, AllWritten
<1>2. CASE Identities!SyncStarts \/ Identities!FetchAuthFiles \/ Identities!FetchProviderList
  <2>1. UNCHANGED rows BY <1>2 DEF Identities!SyncStarts, Identities!FetchAuthFiles, Identities!FetchProviderList
  <2>2. sync'.pc \in {"files", "lists", "writeFiles"}
    <3>1. CASE Identities!SyncStarts BY <3>1, IdleIs DEF Identities!SyncStarts, SyncSet
    <3>2. CASE Identities!FetchAuthFiles BY <1>0, <3>2 DEF Identities!FetchAuthFiles, SyncSet
    <3>3. CASE Identities!FetchProviderList
      <4>1. PICK t, pc : /\ pc \in {"writeFiles", "lists"}
                         /\ LET asked == [sync EXCEPT !.asked = @ \union {t}, !.pc = pc]
                            IN  \/ sync' = [asked EXCEPT !.fetched = @ \union {t}, !.lists[t] = cpa.lists[t]]
                                \/ sync' = asked
        BY <3>3 DEF Identities!FetchProviderList
      <4> QED BY <1>0, <4>1 DEF SyncSet
    <3> QED BY <1>2, <3>1, <3>2, <3>3
  <2> QED BY <2>1, <2>2, MirrorFrame DEF FilesWritten, AllWritten
<1>3. CASE Identities!WriteApiKeys
  <2>1. UNCHANGED rows /\ sync.pc = "writeKeys" BY <1>3 DEF Identities!WriteApiKeys
  <2>2. PICK ok \in BOOLEAN : sync' = [sync EXCEPT !.pc = "writeProviders", !.upserted = @ /\ ok]
    BY <1>3 DEF Identities!WriteApiKeys
  <2>3. /\ sync'.pc = "writeProviders" /\ (sync'.upserted => sync.upserted)
        /\ sync'.files = sync.files /\ sync'.lists = sync.lists /\ sync'.fetched = sync.fetched
    BY <1>0, <2>2 DEF SyncSet
  <2> QED BY <2>1, <2>3, MirrorFrame DEF FilesWritten, AllWritten
<1>4. CASE Identities!WriteAuthFiles BY <1>4, FilesMirror
<1>5. CASE Identities!WriteProviders BY <1>5, ProvidersMirror
<1>6. CASE Identities!AggregateIdentities \/ Identities!IngestAggregates
  <2>1. rows' \in {rows, Identities!Aggregated} /\ (sync' = sync \/ (sync.pc = "aggregate" /\ sync' = [sync EXCEPT !.pc = "done"]))
    BY <1>6 DEF Identities!AggregateIdentities, Identities!IngestAggregates
  <2>2. /\ DOMAIN rows' = DOMAIN rows
        /\ \A i \in DOMAIN rows : /\ rows'[i].key = rows[i].key /\ rows'[i].type = rows[i].type
                                  /\ rows'[i].deleted <=> rows[i].deleted
    <3>1. CASE rows' = rows BY <3>1
    <3>2. CASE rows' = Identities!Aggregated
      <4>1. \A i \in DOMAIN rows : rows[i] \in IdRow BY <1>0
      <4>2. DOMAIN rows' = DOMAIN rows BY <3>2 DEF Identities!Aggregated
      <4>3. ASSUME NEW i \in DOMAIN rows
            PROVE  rows'[i].key = rows[i].key /\ rows'[i].type = rows[i].type /\ rows'[i].deleted = rows[i].deleted
        <5>1. PICK n : n = Identities!EventsOf(rows[i].key) OBVIOUS
        <5>2. rows'[i] = [rows[i] EXCEPT !.total = n] BY <3>2, <5>1 DEF Identities!Aggregated
        <5> QED BY <4>1, <5>2 DEF IdRow
      <4> QED BY <4>2, <4>3
    <3> QED BY <2>1, <3>1, <3>2
  <2>3. /\ AllWritten' => AllWritten
        /\ FilesWritten' => FilesWritten /\ sync'.files = sync.files /\ sync'.lists = sync.lists
                                         /\ sync'.fetched = sync.fetched
    BY <1>0, <2>1 DEF FilesWritten, AllWritten, SyncSet
  <2> QED BY <2>2, <2>3, MirrorFrame
<1>7. CASE Identities!UpdateAlias
  <2>1. PICK i \in DOMAIN rows, alias \in Aliases : rows' = [rows EXCEPT ![i].alias = alias]
    BY <1>7 DEF Identities!UpdateAlias
  <2>2. sync' = sync BY <1>7 DEF Identities!UpdateAlias
  <2>3. \A j \in DOMAIN rows : rows[j] \in IdRow BY <1>0
  <2>4. /\ DOMAIN rows' = DOMAIN rows
        /\ \A j \in DOMAIN rows : /\ rows'[j].key = rows[j].key /\ rows'[j].type = rows[j].type
                                  /\ rows'[j].deleted <=> rows[j].deleted
    <3>1. rows' = [rows EXCEPT ![i] = [rows[i] EXCEPT !.alias = alias]] BY <2>1
    <3> QED BY <2>3, <3>1 DEF IdRow
  <2> QED BY <2>2, <2>4, MirrorFrame DEF FilesWritten, AllWritten
<1> QED BY <1>1, <1>2, <1>3, <1>4, <1>5, <1>6, <1>7 DEF Identities!Next, Identities!Sync, Identities!Ingest

\* No step.
LEMMA MirrorStutters == ASSUME MirrorInv, UNCHANGED identityVars, UNCHANGED rows PROVE MirrorInv'
<1>1. UNCHANGED <<rows, sync>> BY DEF identityVars
<1> QED BY <1>1, MirrorFrame DEF FilesWritten, AllWritten

\* What a row tells a look-up of the active ones.
LEMMA FoundIs ==
  ASSUME IdInv, NEW key
  PROVE  /\ \A type : Shows(key, type) => Identities!FoundType(key, FALSE) = type
         /\ \A i \in DOMAIN rows : rows[i].key = key => Identities!TypeOf(key) = rows[i].type
<1>1. rows \in Seq(IdRow) /\ OneRowEach BY DEF IdInv, RowsSound
<1>2. \A i \in DOMAIN rows : rows[i] \in IdRow BY <1>1
<1>3. \A i \in DOMAIN rows : rows[i].deleted \in BOOLEAN BY <1>2 DEF IdRow
<1>4. ASSUME NEW i \in DOMAIN rows, rows[i].key = key PROVE Identities!TypeOf(key) = rows[i].type
  <2>1. Identities!RowsOf(key) = {i} BY <1>1, <1>4 DEF Identities!RowsOf, OneRowEach
  <2> QED BY <2>1 DEF Identities!TypeOf
<1>5. ASSUME NEW type, Shows(key, type) PROVE Identities!FoundType(key, FALSE) = type
  <2>1. CASE type = Identities!None
    <3>1. Identities!RowsOfLookup(key, FALSE) = {}
      BY <1>3, <1>5, <2>1 DEF Shows, Identities!RowsOfLookup, Identities!RowsOf
    <3> QED BY <2>1, <3>1 DEF Identities!FoundType
  <2>2. CASE type # Identities!None
    <3>1. PICK i \in DOMAIN rows : rows[i].key = key BY <1>5, <2>2 DEF Shows
    <3>2. rows[i].deleted = FALSE /\ rows[i].type = type BY <1>3, <1>5, <2>2, <3>1 DEF Shows
    <3>3. i \in Identities!RowsOfLookup(key, FALSE) BY <3>1, <3>2 DEF Identities!RowsOfLookup, Identities!RowsOf
    <3>4. Identities!TypeOf(key) = type BY <1>4, <3>1, <3>2
    <3> QED BY <3>3, <3>4 DEF Identities!FoundType
  <2> QED BY <2>1, <2>2
<1> QED BY <1>4, <1>5

\* What the invariant is for.
LEMMA MirrorSafe == IdInv /\ MirrorInv => Identities!MirrorsCpa
<1> SUFFICES ASSUME IdInv, MirrorInv, sync.pc = "done", sync.upserted
             PROVE  /\ \A f \in AuthFiles : Identities!FoundType(<<"oauth", f>>, FALSE) = sync.files[f]
                    /\ \A p \in ProviderKeys :
                         \/ Identities!FoundType(<<"apikey", p>>, FALSE) = Identities!FlatType(p)
                         \/ /\ Identities!FlatType(p) = Identities!None
                            /\ Identities!TypeOf(<<"apikey", p>>) \in Identities!Types \ sync.fetched
  BY DEF Identities!MirrorsCpa
<1>1. FilesWritten /\ AllWritten BY DEF FilesWritten, AllWritten
<1>2. ASSUME NEW f \in AuthFiles PROVE Identities!FoundType(<<"oauth", f>>, FALSE) = sync.files[f]
  <2>1. Shows(<<"oauth", f>>, sync.files[f]) BY <1>1 DEF MirrorInv, FilesMirrored
  <2> QED BY <2>1, FoundIs
<1>3. ASSUME NEW p \in ProviderKeys
      PROVE  \/ Identities!FoundType(<<"apikey", p>>, FALSE) = Identities!FlatType(p)
             \/ /\ Identities!FlatType(p) = Identities!None
                /\ Identities!TypeOf(<<"apikey", p>>) \in Identities!Types \ sync.fetched
  <2>1. ProviderShown(p) BY <1>1 DEF MirrorInv, ProvidersMirrored
  <2>2. CASE Shows(<<"apikey", p>>, Identities!FlatType(p)) BY <2>2, FoundIs
  <2>3. CASE /\ Identities!FlatType(p) = Identities!None
             /\ \E i \in DOMAIN rows : rows[i].key = <<"apikey", p>>
             /\ \A i \in DOMAIN rows : rows[i].key = <<"apikey", p>> => rows[i].type \in Identities!Types \ sync.fetched
    BY <2>3, FoundIs
  <2> QED BY <2>1, <2>2, <2>3 DEF ProviderShown
<1> QED BY <1>2, <1>3

\* The sorted list: every row at its place.
LEMMA SortedIs ==
  ASSUME rows \in Seq(IdRow), NEW S, S \subseteq DOMAIN rows
  PROVE  LET all == Identities!Sorted(S)
         IN  /\ all \in Seq(S) /\ Len(all) = Cardinality(S)
             /\ \A i \in S : \E k \in 1 .. Len(all) : all[k] = i
             /\ \A j, k \in 1 .. Len(all) : j < k => Identities!ListedBefore(all[j], all[k])
<1>1. DOMAIN rows = 1 .. Len(rows) /\ Len(rows) \in Nat BY LenProperties
<1>2. IsFiniteSet(S) /\ Cardinality(S) \in Nat
  <2>1. IsFiniteSet(DOMAIN rows) BY <1>1, FS_Interval
  <2> QED BY <2>1, FS_Subset, FS_CardinalityType
<1>3. \A i \in S : i \in Nat /\ rows[i].total \in Nat
  <2>1. \A i \in S : i \in Nat /\ rows[i] \in IdRow BY <1>1
  <2> QED BY <2>1 DEF IdRow
<1>4. PICK R : R = {p \in S \X S : Identities!ListedBefore(p[1], p[2])} OBVIOUS
<1>5. \A i, j \in S : <<i, j>> \in R <=> Identities!ListedBefore(i, j) BY <1>4
<1>6. Ordered(S, R) BY <1>3, <1>5 DEF Ordered, Identities!ListedBefore
<1>7. PICK n : n = Cardinality(S) OBVIOUS
<1>8. PICK rank : rank = [i \in S |-> Cardinality(Before(S, R, i))] OBVIOUS
<1>9. /\ \A i \in S : rank[i] \in 0 .. n - 1
      /\ \A i, j \in S : Identities!ListedBefore(j, i) => rank[j] < rank[i]
  BY <1>2, <1>5, <1>6, <1>7, <1>8, FewerBefore
<1>10. \A i, j \in S : rank[i] = rank[j] => i = j
  <2> SUFFICES ASSUME NEW i \in S, NEW j \in S, rank[i] = rank[j], i # j PROVE FALSE OBVIOUS
  <2>1. Identities!ListedBefore(i, j) \/ Identities!ListedBefore(j, i) BY <1>3 DEF Identities!ListedBefore
  <2>2. rank[i] < rank[j] \/ rank[j] < rank[i] BY <1>9, <2>1
  <2>3. rank[i] \in Int BY <1>9
  <2> QED BY <2>2, <2>3
<1>11. rank \in Surjection(S, 0 .. n - 1)
  <2>1. rank \in Injection(S, 0 .. n - 1) BY <1>8, <1>9, <1>10 DEF Injection, IsInjective
  <2>2. IsFiniteSet(0 .. n - 1) /\ Cardinality(0 .. n - 1) = n
    <3>1. n \in Nat /\ 0 \in Int /\ n - 1 \in Int BY <1>2, <1>7
    <3>2. IsFiniteSet(0 .. n - 1) /\ Cardinality(0 .. n - 1) = IF 0 > n - 1 THEN 0 ELSE (n - 1) - 0 + 1
      BY <3>1, FS_Interval
    <3> QED BY <3>1, <3>2
  <2> QED BY <1>7, <2>1, <2>2, FS_Injection
<1>12. PICK all : all = Identities!Sorted(S) OBVIOUS
<1>13. all = [k \in 1 .. n |-> all[k]] /\ \A k \in 1 .. n : all[k] = CHOOSE i \in S : rank[i] = k - 1
  <2>1. \A i \in S : Identities!Cardinality({j \in S : Identities!ListedBefore(j, i)}) = rank[i]
    <3> SUFFICES ASSUME NEW i \in S PROVE Identities!Cardinality({j \in S : Identities!ListedBefore(j, i)}) = rank[i]
      OBVIOUS
    <3>1. PICK T : T = {j \in S : Identities!ListedBefore(j, i)} OBVIOUS
    <3>2. T = Before(S, R, i) BY <1>5, <3>1 DEF Before
    <3>3. Identities!Cardinality(T) = Cardinality(T) BY DEF Identities!Cardinality, Cardinality
    <3> QED BY <1>8, <3>1, <3>2, <3>3
  <2>2. Identities!Cardinality(S) = n BY <1>7 DEF Identities!Cardinality, Cardinality
  <2>3. \A k \in 1 .. n : (CHOOSE i \in S : Identities!Cardinality({j \in S : Identities!ListedBefore(j, i)}) = k - 1)
                          = CHOOSE i \in S : rank[i] = k - 1
    BY <2>1
  <2> DEFINE Ranked(k) == CHOOSE i \in S : Identities!Cardinality({j \in S : Identities!ListedBefore(j, i)}) = k - 1
  <2>4. all = [k \in 1 .. n |-> Ranked(k)] BY <1>12, <2>2, Zenon DEF Identities!Sorted
  <2>5. \A k \in 1 .. n : Ranked(k) = CHOOSE i \in S : rank[i] = k - 1 BY <2>3
  <2> HIDE DEF Ranked
  <2> QED BY <2>4, <2>5
<1>14. \A k \in 1 .. n : all[k] \in S /\ rank[all[k]] = k - 1
  <2> SUFFICES ASSUME NEW k \in 1 .. n PROVE all[k] \in S /\ rank[all[k]] = k - 1 OBVIOUS
  <2>1. k - 1 \in 0 .. n - 1 BY <1>2, <1>7
  <2>2. \E i \in S : rank[i] = k - 1 BY <1>11, <2>1 DEF Surjection
  <2>3. all[k] = CHOOSE i \in S : rank[i] = k - 1 BY <1>13
  <2> QED BY <2>2, <2>3
<1>15. all \in Seq(S) /\ Len(all) = n
  <2>1. all \in [1 .. n -> S] BY <1>13, <1>14
  <2> QED BY <1>2, <1>7, <2>1
<1>16. ASSUME NEW i \in S PROVE \E k \in 1 .. n : all[k] = i
  <2>1. rank[i] \in 0 .. n - 1 BY <1>9
  <2>2. PICK k \in 1 .. n : k - 1 = rank[i]
    <3>1. PICK r : r = rank[i] OBVIOUS
    <3>2. n \in Nat /\ r \in 0 .. n - 1 BY <1>2, <1>7, <2>1, <3>1
    <3>3. r + 1 \in 1 .. n /\ (r + 1) - 1 = r BY <3>2
    <3> QED BY <3>1, <3>3
  <2> QED BY <1>10, <1>14, <2>2
<1>17. ASSUME NEW j \in 1 .. n, NEW k \in 1 .. n, j < k PROVE Identities!ListedBefore(all[j], all[k])
  <2>1. all[j] \in S /\ all[k] \in S /\ rank[all[j]] = j - 1 /\ rank[all[k]] = k - 1 BY <1>14
  <2>2. ~Identities!ListedBefore(all[k], all[j]) BY <1>9, <1>17, <2>1
  <2>3. all[j] # all[k] BY <1>17, <2>1
  <2> QED BY <1>3, <2>1, <2>2, <2>3 DEF Identities!ListedBefore
<1> QED BY <1>7, <1>12, <1>15, <1>16, <1>17

\* Where a row is: on which page, and at which of its places.
LEMMA PlacesOf ==
  ASSUME NEW P \in Nat \ {0}, NEW L \in Nat, NEW j \in 1 .. L
  PROVE  \E n \in 1 .. (L + P - 1) \div P, k \in 1 .. P : j = (n - 1) * P + k
<1>1. PICK q, r : q = (j - 1) \div P /\ r = (j - 1) % P OBVIOUS
<1>2. q \in Nat /\ r \in 0 .. P - 1 /\ j - 1 = q * P + r BY <1>1
<1>3. PICK T : T = (L + P - 1) \div P OBVIOUS
<1>4. T \in Nat /\ L + P - 1 < T * P + P BY <1>3
<1>5. q + 1 <= T
  <2> SUFFICES ASSUME T <= q PROVE FALSE BY <1>2, <1>4
  <2>1. T * P <= q * P BY <1>2, <1>4
  <2> QED BY <1>2, <1>4, <2>1
<1>6. q + 1 \in 1 .. T /\ r + 1 \in 1 .. P /\ j = ((q + 1) - 1) * P + (r + 1) BY <1>2, <1>4, <1>5
<1> QED BY <1>3, <1>6

\* One page after another.
LEMMA PageAt ==
  ASSUME NEW P \in Nat \ {0}, NEW S, NEW all \in Seq(S), NEW n \in Nat \ {0}, NEW page,
         page = SubSeq(all, (n - 1) * P + 1, IF n * P < Len(all) THEN n * P ELSE Len(all))
  PROVE  /\ Len(page) \in Nat
         /\ \A k \in 1 .. P : k <= Len(page) <=> (n - 1) * P + k <= Len(all)
         /\ \A k \in 1 .. P : k <= Len(page) => page[k] = all[(n - 1) * P + k]
<1>1. PICK a, b, L : a = (n - 1) * P /\ b = n * P /\ L = Len(all) OBVIOUS
<1>2. a \in Nat /\ b = a + P /\ L \in Nat /\ DOMAIN all = 1 .. L /\ \A i \in 1 .. L : all[i] \in S
  <2>1. L \in Nat /\ DOMAIN all = 1 .. L /\ \A i \in 1 .. L : all[i] \in S BY <1>1, LenProperties
  <2>2. a \in Nat /\ b = a + P BY <1>1
  <2> QED BY <2>1, <2>2
<1>3. PICK m : m = IF b < L THEN b ELSE L OBVIOUS
<1>4. m \in Nat /\ m <= L /\ \A i \in a + 1 .. m : all[i] \in S BY <1>2, <1>3
<1>5. PICK lo : lo = a + 1 OBVIOUS
<1>6. page = SubSeq(all, lo, m) BY <1>1, <1>3, <1>5
<1>7. /\ Len(page) = IF lo <= m THEN m - lo + 1 ELSE 0
      /\ \A k \in 1 .. m - lo + 1 : page[k] = all[lo + k - 1]
  <2>1. lo \in Int /\ m \in Int /\ \A i \in lo .. m : all[i] \in S BY <1>2, <1>4, <1>5
  <2>2. Len(SubSeq(all, lo, m)) = IF lo <= m THEN m - lo + 1 ELSE 0 BY <2>1, SubSeqProperties
  <2>3. \A k \in 1 .. m - lo + 1 : SubSeq(all, lo, m)[k] = all[lo + k - 1] BY <2>1, SubSeqProperties
  <2> QED BY <1>6, <2>2, <2>3
<1>8. PICK len : len = Len(page) OBVIOUS
<1>9. len = IF lo <= m THEN m - lo + 1 ELSE 0 BY <1>7, <1>8
<1>10. ASSUME NEW k \in 1 .. P
       PROVE  /\ k <= len <=> a + k <= L
              /\ k <= len => page[k] = all[a + k]
  <2>1. k <= len <=> a + k <= L BY <1>2, <1>3, <1>4, <1>5, <1>9
  <2>2. ASSUME k <= len PROVE page[k] = all[a + k]
    <3>1. k \in 1 .. m - lo + 1 /\ lo + k - 1 = a + k BY <1>2, <1>4, <1>5, <1>9, <2>2
    <3> QED BY <1>7, <3>1
  <2> QED BY <2>1, <2>2
<1>11. len \in Nat BY <1>2, <1>4, <1>5, <1>9
<1> QED BY <1>1, <1>8, <1>10, <1>11

\* A page begins where those before it end.
LEMMA Later == ASSUME NEW P \in Nat, NEW n \in Nat, NEW m \in Nat, n < m PROVE n * P <= (m - 1) * P
OBVIOUS

\* The pages show what is to be shown.
LEMMA PagesSafe == ASSUME rows \in Seq(IdRow) PROVE Identities!PagesCover
<1> DEFINE Covers(types, pages) ==
             LET places == {p \in (DOMAIN pages) \X (1 .. PageSize) : p[2] <= Len(pages[p[1]])}
                 At(p) == pages[p[1]][p[2]]
             IN  /\ {At(p) : p \in places} = Identities!Shown(types)
                 /\ \A p, q \in places :
                      p[1] < q[1] \/ (p[1] = q[1] /\ p[2] < q[2]) => Identities!ListedBefore(At(p), At(q))
<1> SUFFICES \A types : Covers(types, [n \in 1 .. Identities!TotalPages(types) |-> Identities!Page(types, n)])
  BY Zenon DEF Identities!PagesCover
<1> HIDE DEF Covers
<1> SUFFICES ASSUME NEW types, NEW pages,
                    pages = [n \in 1 .. Identities!TotalPages(types) |-> Identities!Page(types, n)]
             PROVE  Covers(types, pages)
  OBVIOUS
<1>1. PICK S, all : S = Identities!Shown(types) /\ all = Identities!Sorted(S) OBVIOUS
<1>2. /\ all \in Seq(S) /\ Len(all) \in Nat /\ Len(all) = Cardinality(S)
      /\ \A j \in 1 .. Len(all) : all[j] \in S
      /\ \A i \in S : \E k \in 1 .. Len(all) : all[k] = i
      /\ \A j, k \in 1 .. Len(all) : j < k => Identities!ListedBefore(all[j], all[k])
  <2>1. S \subseteq DOMAIN rows BY <1>1 DEF Identities!Shown
  <2>2. /\ all \in Seq(S) /\ Len(all) = Cardinality(S)
        /\ \A i \in S : \E k \in 1 .. Len(all) : all[k] = i
        /\ \A j, k \in 1 .. Len(all) : j < k => Identities!ListedBefore(all[j], all[k])
    BY <1>1, <2>1, SortedIs
  <2>3. Len(all) \in Nat /\ \A j \in 1 .. Len(all) : all[j] \in S BY <2>2, LenProperties
  <2> QED BY <2>2, <2>3
<1>3. PageSize \in Nat \ {0} BY InstancesAllowed DEF Identities!IdentityConstants
<1>4. PICK L, T : L = Len(all) /\ T = Identities!TotalPages(types) OBVIOUS
<1>5. L \in Nat /\ T = (L + PageSize - 1) \div PageSize
  <2>1. Identities!Cardinality(S) = L BY <1>2, <1>4 DEF Identities!Cardinality, Cardinality
  <2> QED BY <1>1, <1>2, <1>4, <2>1 DEF Identities!TotalPages
<1>6. T \in Nat BY <1>3, <1>5
<1>7. DOMAIN pages = 1 .. T /\ \A n \in 1 .. T : pages[n] = Identities!Page(types, n) BY <1>4
<1> DEFINE places == {p \in (1 .. T) \X (1 .. PageSize) : p[2] <= Len(pages[p[1]])}
           At(p) == pages[p[1]][p[2]]
           Place(n, k) == (n - 1) * PageSize + k
<1>8. ASSUME NEW n \in 1 .. T, NEW k \in 1 .. PageSize
      PROVE  /\ <<n, k>> \in places <=> Place(n, k) <= L
             /\ <<n, k>> \in places => At(<<n, k>>) = all[Place(n, k)]
  <2>1. PICK page : page = Identities!Page(types, n) OBVIOUS
  <2>2. page = SubSeq(all, (n - 1) * PageSize + 1, IF n * PageSize < Len(all) THEN n * PageSize ELSE Len(all))
    BY <1>1, <2>1, Zenon DEF Identities!Page
  <2>3. n \in Nat \ {0} BY <1>6
  <2>4. /\ k <= Len(page) <=> Place(n, k) <= L
        /\ k <= Len(page) => page[k] = all[Place(n, k)]
    BY <1>2, <1>3, <1>4, <2>2, <2>3, PageAt
  <2>5. pages[n] = page BY <1>7, <2>1
  <2> HIDE DEF Place
  <2> QED BY <2>4, <2>5
<1>9. \A n \in 1 .. T, k \in 1 .. PageSize : Place(n, k) \in Nat /\ Place(n, k) >= 1
  <2> SUFFICES ASSUME NEW n \in 1 .. T, NEW k \in 1 .. PageSize PROVE Place(n, k) \in Nat /\ Place(n, k) >= 1 OBVIOUS
  <2>1. n - 1 \in Nat /\ k \in Nat /\ k >= 1 BY <1>3, <1>6
  <2>2. (n - 1) * PageSize \in Nat BY <1>3, <2>1
  <2> QED BY <2>1, <2>2
<1>10. \A j \in 1 .. L : \E n \in 1 .. T, k \in 1 .. PageSize : j = Place(n, k) BY <1>3, <1>5, PlacesOf
<1>11. ASSUME NEW n \in 1 .. T, NEW k \in 1 .. PageSize, NEW m \in 1 .. T, NEW j \in 1 .. PageSize,
              n < m \/ (n = m /\ k < j)
       PROVE  Place(n, k) < Place(m, j)
  <2>1. n \in Nat /\ m \in Nat /\ k \in Nat /\ j \in Nat /\ j >= 1 /\ k <= PageSize BY <1>3, <1>6
  <2>2. CASE n < m
    <3>1. PICK x, y : x = (n - 1) * PageSize /\ y = (m - 1) * PageSize OBVIOUS
    <3>2. n * PageSize <= y BY <1>3, <2>1, <2>2, <3>1, Later
    <3>3. n * PageSize = x + PageSize /\ x \in Int /\ y \in Int BY <1>3, <2>1, <3>1
    <3> QED BY <1>3, <2>1, <3>1, <3>2, <3>3
  <2>3. CASE n = m /\ k < j
    <3>1. PICK x : x = (n - 1) * PageSize OBVIOUS
    <3>2. x \in Int BY <1>3, <2>1, <3>1
    <3> QED BY <2>1, <2>3, <3>1, <3>2
  <2> QED BY <1>11, <2>2, <2>3
<1> HIDE DEF Place
<1>12. \A p \in places : \E n \in 1 .. T, k \in 1 .. PageSize : p = <<n, k>> OBVIOUS
<1> HIDE DEF places, At
<1>13. \A n \in 1 .. T, k \in 1 .. PageSize : <<n, k>> \in places => At(<<n, k>>) \in S
  <2> SUFFICES ASSUME NEW n \in 1 .. T, NEW k \in 1 .. PageSize, <<n, k>> \in places
               PROVE  At(<<n, k>>) \in S
    OBVIOUS
  <2>1. At(<<n, k>>) = all[Place(n, k)] /\ Place(n, k) \in 1 .. L BY <1>5, <1>8, <1>9
  <2> QED BY <1>2, <1>4, <2>1
<1>14. {At(p) : p \in places} = S
  <2>1. \A p \in places : At(p) \in S BY <1>12, <1>13
  <2>2. ASSUME NEW i \in S PROVE \E p \in places : At(p) = i
    <3>1. PICK j \in 1 .. L : all[j] = i BY <1>2, <1>4
    <3>2. PICK n \in 1 .. T, k \in 1 .. PageSize : j = Place(n, k) BY <1>10
    <3>3. Place(n, k) <= L BY <1>5, <3>2
    <3> QED BY <1>8, <3>1, <3>2, <3>3
  <2> QED BY <2>1, <2>2
<1>15. ASSUME NEW p \in places, NEW q \in places, p[1] < q[1] \/ (p[1] = q[1] /\ p[2] < q[2])
       PROVE  Identities!ListedBefore(At(p), At(q))
  <2>1. PICK n \in 1 .. T, k \in 1 .. PageSize : p = <<n, k>> BY <1>12
  <2>2. PICK m \in 1 .. T, j \in 1 .. PageSize : q = <<m, j>> BY <1>12
  <2>3. Place(n, k) < Place(m, j) BY <1>11, <1>15, <2>1, <2>2
  <2>4. /\ At(p) = all[Place(n, k)] /\ Place(n, k) \in 1 .. L
        /\ At(q) = all[Place(m, j)] /\ Place(m, j) \in 1 .. L
    BY <1>5, <1>8, <1>9, <2>1, <2>2
  <2> QED BY <1>2, <1>4, <2>3, <2>4
<1> USE DEF places
<1>16. places = {p \in (DOMAIN pages) \X (1 .. PageSize) : p[2] <= Len(pages[p[1]])} BY <1>7, Zenon
<1> HIDE DEF places
<1> QED BY <1>1, <1>14, <1>15, <1>16, Zenon DEF At, Covers

-----------------------------------------------------------------------------
(* The API keys of CPA.                                                     *)

\* A finite set as a sequence: each element at one place.
LEMMA KeySequence ==
  ASSUME NEW S, IsFiniteSet(S)
  PROVE  /\ ApiKeys!SetToSeq(S) \in Seq(S)
         /\ \A i, j \in DOMAIN ApiKeys!SetToSeq(S) :
              ApiKeys!SetToSeq(S)[i] = ApiKeys!SetToSeq(S)[j] => i = j
<1>1. Cardinality(S) \in Nat /\ ExistsBijection(1..Cardinality(S), S) BY FS_CardinalityType
<1>2. PICK f \in [1..Cardinality(S) -> S] : \A a, b \in 1..Cardinality(S) : f[a] = f[b] => a = b
  BY <1>1 DEF ExistsBijection, Bijection, Injection, IsInjective
<1>3. ApiKeys!Cardinality(S) = Cardinality(S) BY DEF ApiKeys!Cardinality, Cardinality
<1>4. ApiKeys!SetToSeq(S) = CHOOSE g \in [1..Cardinality(S) -> S] : ApiKeys!IsInjective(g)
  BY <1>3 DEF ApiKeys!SetToSeq
<1>5. ApiKeys!IsInjective(f) BY <1>2 DEF ApiKeys!IsInjective
<1>6. ApiKeys!SetToSeq(S) \in [1..Cardinality(S) -> S] /\ ApiKeys!IsInjective(ApiKeys!SetToSeq(S))
  BY <1>4, <1>5
<1> QED BY <1>1, <1>6 DEF ApiKeys!IsInjective

\* A row of cpa_api_keys.
RowSet == [key : KeyValues, name : Names \union {ApiKeys!NoName}, deleted : BOOLEAN, synced : BOOLEAN]
\* The inductive invariant of the API keys: a row that is the user's own was never synchronised,
\* and a create that found a row will write to a row that exists.
KeyInv ==
  /\ listed \subseteq KeyValues /\ (fetched # ApiKeys!Nothing => fetched \subseteq KeyValues)
  /\ table \in Seq(RowSet)
  /\ create # ApiKeys!NoCreate => /\ create.key \in KeyValues /\ create.name \in Names
                                  /\ create.found = 0 \/ create.found \in DOMAIN table
  /\ ApiKeys!OneRowPerKey
  /\ \A i \in mine : i \in DOMAIN table /\ ~table[i].deleted /\ ~table[i].synced

\* The invariant holds at the start.
LEMMA KeyInvInit == ApiKeys!Init => KeyInv
<1> SUFFICES ASSUME ApiKeys!Init PROVE KeyInv OBVIOUS
<1> QED BY DEF ApiKeys!Init, KeyInv, ApiKeys!OneRowPerKey

\* A write that keeps every row at its place, with its key, and touches no row of "mine".
LEMMA SameKeys ==
  ASSUME KeyInv, table' \in Seq(RowSet), DOMAIN table' = DOMAIN table,
         \A i \in DOMAIN table : table'[i].key = table[i].key
  PROVE  ApiKeys!OneRowPerKey'
BY DEF KeyInv, ApiKeys!OneRowPerKey

\* No create is under way at row 0.
LEMMA NoCreateFound == ApiKeys!NoCreate.found = 0 BY DEF ApiKeys!NoCreate

\* One row is written.
LEMMA RowWritten ==
  ASSUME KeyInv, NEW i \in DOMAIN table, NEW row \in RowSet, table' = [table EXCEPT ![i] = row],
         \A j \in DOMAIN table \ {i} : table[j].key # row.key
  PROVE  /\ table' \in Seq(RowSet) /\ DOMAIN table' = DOMAIN table /\ table'[i] = row
         /\ \A j \in DOMAIN table \ {i} : table'[j] = table[j]
         /\ ApiKeys!OneRowPerKey'
<1>1. table \in Seq(RowSet) /\ ApiKeys!OneRowPerKey BY DEF KeyInv
<1>2. /\ table' \in Seq(RowSet) /\ DOMAIN table' = DOMAIN table /\ table'[i] = row
      /\ \A j \in DOMAIN table \ {i} : table'[j] = table[j]
  BY <1>1
<1> QED BY <1>1, <1>2 DEF ApiKeys!OneRowPerKey

\* The rows are rows.
LEMMA RowsAre == ASSUME KeyInv, NEW i \in DOMAIN table PROVE table[i] \in RowSet
BY DEF KeyInv

\* SyncCPAAPIKeys: rows keep their places and keys, new keys come behind.
LEMMA SyncKeeps == ASSUME KeyInv, ApiKeys!SyncCPAAPIKeys PROVE KeyInv'
<1> DEFINE created == {key \in fetched : ApiKeys!Existing(key) = {}}
           new == {ApiKeys!Row(key, ApiKeys!NoName, TRUE) : key \in created}
           Synced(i) ==
             IF table[i].key \in fetched THEN [table[i] EXCEPT !.deleted = FALSE, !.synced = TRUE]
             ELSE IF i \in ApiKeys!Stale(fetched) THEN [table[i] EXCEPT !.deleted = TRUE]
             ELSE table[i]
           old == [i \in DOMAIN table |-> Synced(i)]
           added == ApiKeys!SetToSeq(new)
<1>1. /\ fetched # ApiKeys!Nothing /\ table' = old \o added
      /\ mine' = {i \in mine : table[i].key \notin fetched}
      /\ fetched' = ApiKeys!Nothing /\ UNCHANGED <<listed, create>>
  BY DEF ApiKeys!SyncCPAAPIKeys
<1>2. /\ fetched \subseteq KeyValues /\ table \in Seq(RowSet) /\ ApiKeys!OneRowPerKey
      /\ \A i \in mine : i \in DOMAIN table /\ ~table[i].deleted /\ ~table[i].synced
  BY <1>1 DEF KeyInv
<1>3. created \subseteq KeyValues /\ IsFiniteSet(created)
  <2>1. IsFiniteSet(KeyValues)
    BY InstancesAllowed DEF ApiKeys!ApiKeyConstants, ApiKeys!IsFiniteSet, IsFiniteSet
  <2>2. created \subseteq KeyValues BY <1>2
  <2> QED BY <2>1, <2>2, FS_Subset
<1>4. /\ new \subseteq RowSet /\ \A row \in new : row.key \in created
      /\ \A row1, row2 \in new : row1.key = row2.key => row1 = row2
  <2> HIDE DEF created
  <2>1. \A row \in new : \E key \in created : row = [key |-> key, name |-> ApiKeys!NoName, deleted |-> FALSE, synced |-> TRUE]
    BY DEF ApiKeys!Row
  <2> HIDE DEF new
  <2>2. \A row \in new : row.key \in created BY <2>1
  <2>3. \A row1, row2 \in new : row1.key = row2.key => row1 = row2
    <3> TAKE row1, row2 \in new
    <3>1. PICK key1 \in created : row1 = [key |-> key1, name |-> ApiKeys!NoName, deleted |-> FALSE, synced |-> TRUE]
      BY <2>1
    <3>2. PICK key2 \in created : row2 = [key |-> key2, name |-> ApiKeys!NoName, deleted |-> FALSE, synced |-> TRUE]
      BY <2>1
    <3> QED BY <3>1, <3>2
  <2>4. ASSUME NEW row \in new PROVE row \in RowSet
    <3>1. PICK key \in created : row = [key |-> key, name |-> ApiKeys!NoName, deleted |-> FALSE, synced |-> TRUE]
      BY <2>1
    <3>2. key \in KeyValues BY <1>3
    <3> QED BY <3>1, <3>2 DEF RowSet
  <2> QED BY <2>2, <2>3, <2>4
<1>5. IsFiniteSet(new)
  <2> DEFINE f == [key \in created |-> ApiKeys!Row(key, ApiKeys!NoName, TRUE)]
  <2>1. f \in Bijection(created, new)
    BY DEF Bijection, Injection, Surjection, IsInjective, ApiKeys!Row
  <2> QED BY <1>3, <2>1, FS_Bijection DEF ExistsBijection
<1>6. /\ added \in Seq(RowSet) /\ \A j \in DOMAIN added : added[j].key \in created
      /\ \A j, k \in DOMAIN added : added[j].key = added[k].key => j = k
  <2> HIDE DEF new
  <2>1. /\ added \in Seq(new) /\ \A j, k \in DOMAIN added : added[j] = added[k] => j = k
    BY <1>5, KeySequence
  <2> HIDE DEF added
  <2>2. \A j \in DOMAIN added : added[j] \in new BY <2>1
  <2>3. added \in Seq(RowSet) BY <1>4, <2>1, <2>2
  <2> QED BY <1>4, <2>1, <2>2, <2>3
<1>7. ASSUME NEW i \in DOMAIN table
      PROVE  /\ Synced(i) \in RowSet /\ Synced(i).key = table[i].key
             /\ table[i].key \notin fetched /\ ~table[i].synced => Synced(i) = table[i]
  <2>1. table[i] \in RowSet BY <1>2
  <2>2. ~table[i].synced => i \notin ApiKeys!Stale(fetched) BY DEF ApiKeys!Stale
  <2> QED BY <2>1, <2>2 DEF RowSet
<1> HIDE DEF Synced, new, added
<1>8. old \in Seq(RowSet) /\ DOMAIN old = DOMAIN table /\ Len(old) = Len(table) BY <1>2, <1>7
<1>9. \A i \in DOMAIN old : old[i] = Synced(i) BY <1>8
<1> HIDE DEF old
<1>10. /\ table' \in Seq(RowSet)
       /\ \A i \in DOMAIN old : i \in DOMAIN table' /\ table'[i] = old[i]
       /\ \A i \in DOMAIN table' : i \in DOMAIN old \/ \E j \in DOMAIN added : i = Len(old) + j /\ table'[i] = added[j]
  <2>1. added \in Seq(RowSet) /\ old \in Seq(RowSet) BY <1>6, <1>8
  <2>2. /\ table' \in Seq(RowSet) /\ Len(table') = Len(old) + Len(added)
        /\ \A i \in 1..(Len(old) + Len(added)) :
             table'[i] = IF i <= Len(old) THEN old[i] ELSE added[i - Len(old)]
    BY <1>1, <2>1, ConcatProperties
  <2>3. /\ DOMAIN old = 1..Len(old) /\ DOMAIN added = 1..Len(added) /\ DOMAIN table' = 1..Len(table')
        /\ Len(old) \in Nat /\ Len(added) \in Nat
    BY <2>1, <2>2, LenProperties
  <2>4. ASSUME NEW i \in DOMAIN table', i \notin DOMAIN old
        PROVE  i - Len(old) \in DOMAIN added /\ i = Len(old) + (i - Len(old)) /\ table'[i] = added[i - Len(old)]
    BY <2>2, <2>3, <2>4
  <2>5. \A i \in DOMAIN old : i \in DOMAIN table' /\ table'[i] = old[i] BY <2>2, <2>3
  <2> QED BY <2>2, <2>4, <2>5
<1>11. \A i \in DOMAIN old, j \in DOMAIN added : old[i].key # added[j].key
  BY <1>6, <1>7, <1>8, <1>9 DEF ApiKeys!Existing, ApiKeys!Find
<1>12. ApiKeys!OneRowPerKey'
  <2> SUFFICES ASSUME NEW i \in DOMAIN table', NEW j \in DOMAIN table', table'[i].key = table'[j].key
               PROVE  i = j
    BY DEF ApiKeys!OneRowPerKey
  <2>1. CASE i \in DOMAIN old /\ j \in DOMAIN old
    BY <1>2, <1>7, <1>8, <1>9, <1>10, <2>1 DEF ApiKeys!OneRowPerKey
  <2>2. CASE i \notin DOMAIN old /\ j \in DOMAIN old BY <1>10, <1>11, <2>2
  <2>3. CASE i \in DOMAIN old /\ j \notin DOMAIN old BY <1>10, <1>11, <2>3
  <2>4. CASE i \notin DOMAIN old /\ j \notin DOMAIN old BY <1>6, <1>10, <2>4
  <2> QED BY <2>1, <2>2, <2>3, <2>4
<1>13. \A i \in mine' : i \in DOMAIN table' /\ ~table'[i].deleted /\ ~table'[i].synced
  BY <1>1, <1>2, <1>7, <1>8, <1>9, <1>10
<1>14. DOMAIN table \subseteq DOMAIN table' BY <1>8, <1>10
<1> QED BY <1>1, <1>10, <1>12, <1>13, <1>14 DEF KeyInv

\* The steps that write no row.
LEMMA ListKept ==
  ASSUME KeyInv, \/ ApiKeys!CpaChanges \/ ApiKeys!KeyUsed
                 \/ ApiKeys!FetchManagementAPIKeys \/ ApiKeys!SyncFails
  PROVE  KeyInv'
<1>1. /\ UNCHANGED <<table, create, mine>> /\ listed' \subseteq KeyValues
      /\ fetched' \in {fetched, listed, ApiKeys!Nothing}
  BY DEF KeyInv, ApiKeys!CpaChanges, ApiKeys!KeyUsed, ApiKeys!FetchManagementAPIKeys, ApiKeys!SyncFails
<1> QED BY <1>1 DEF KeyInv, ApiKeys!OneRowPerKey

\* CreateCPAAPIKey looks for the key.
LEMMA FindKept == ASSUME KeyInv, ApiKeys!FindKeyToCreate PROVE KeyInv'
<1>1. PICK key \in KeyValues, name \in Names :
        create' = [key |-> key, name |-> name,
                   found |-> IF ApiKeys!Find(key) = {} THEN 0 ELSE CHOOSE i \in ApiKeys!Find(key) : TRUE]
  BY DEF ApiKeys!FindKeyToCreate
<1>2. create'.key \in KeyValues /\ create'.name \in Names /\ (create'.found = 0 \/ create'.found \in DOMAIN table)
  BY <1>1 DEF ApiKeys!Find
<1>3. UNCHANGED <<listed, table, fetched, mine>> BY DEF ApiKeys!FindKeyToCreate
<1> QED BY <1>2, <1>3 DEF KeyInv, ApiKeys!OneRowPerKey

\* CreateCPAAPIKey revives a deleted row.
LEMMA ReviveKept == ASSUME KeyInv, ApiKeys!ReviveKey PROVE KeyInv'
<1>0. PICK i : i = create.found OBVIOUS
<1>1. create # ApiKeys!NoCreate BY NoCreateFound DEF ApiKeys!ReviveKey
<1>2. i \in DOMAIN table /\ create.name \in Names BY <1>0, <1>1 DEF KeyInv, ApiKeys!ReviveKey
<1>3. /\ table' = [table EXCEPT ![i].name = create.name, ![i].deleted = FALSE, ![i].synced = FALSE]
      /\ mine' = mine \union {i} /\ create' = ApiKeys!NoCreate /\ UNCHANGED <<listed, fetched>>
  BY <1>0 DEF ApiKeys!ReviveKey
<1>4. PICK row : row = [table[i] EXCEPT !.name = create.name, !.deleted = FALSE, !.synced = FALSE] OBVIOUS
<1>5. row \in RowSet /\ row.key = table[i].key /\ ~row.deleted /\ ~row.synced
  BY <1>2, <1>4, RowsAre DEF RowSet
<1>6. table' = [table EXCEPT ![i] = row]
  <2>1. table \in Seq(RowSet) BY DEF KeyInv
  <2> QED BY <1>2, <1>3, <1>4, <2>1
<1>7. \A j \in DOMAIN table \ {i} : table[j].key # row.key BY <1>2, <1>5 DEF KeyInv, ApiKeys!OneRowPerKey
<1>8. /\ table' \in Seq(RowSet) /\ DOMAIN table' = DOMAIN table /\ table'[i] = row
      /\ \A j \in DOMAIN table \ {i} : table'[j] = table[j]
      /\ ApiKeys!OneRowPerKey'
  BY <1>2, <1>5, <1>6, <1>7, RowWritten
<1>9. \A j \in mine' : j \in DOMAIN table' /\ ~table'[j].deleted /\ ~table'[j].synced
  BY <1>2, <1>3, <1>5, <1>8 DEF KeyInv
<1> QED BY <1>3, <1>8, <1>9 DEF KeyInv

\* CreateCPAAPIKey inserts a row.
LEMMA InsertKept == ASSUME KeyInv, ApiKeys!InsertKey PROVE KeyInv'
<1>1. create.key \in KeyValues /\ create.name \in Names BY DEF KeyInv, ApiKeys!InsertKey
<1>2. create' = ApiKeys!NoCreate /\ UNCHANGED <<listed, fetched>> BY DEF ApiKeys!InsertKey
<1>3. CASE /\ ApiKeys!Find(create.key) = {}
           /\ table' = Append(table, ApiKeys!Row(create.key, create.name, FALSE))
           /\ mine' = mine \union {Len(table) + 1}
  <2>1. PICK row : row = ApiKeys!Row(create.key, create.name, FALSE) OBVIOUS
  <2>2. row \in RowSet /\ row.key = create.key /\ ~row.deleted /\ ~row.synced
    BY <1>1, <2>1 DEF RowSet, ApiKeys!Row
  <2>3. table \in Seq(RowSet) /\ table' = Append(table, row) BY <1>3, <2>1 DEF KeyInv
  <2>4. /\ table' \in Seq(RowSet) /\ DOMAIN table' = DOMAIN table \union {Len(table) + 1}
        /\ Len(table) + 1 \notin DOMAIN table
        /\ table'[Len(table) + 1] = row /\ \A i \in DOMAIN table : table'[i] = table[i]
    BY <2>2, <2>3
  <2>5. \A i \in DOMAIN table : table[i].key # row.key BY <1>3, <2>2 DEF ApiKeys!Find
  <2>6. ApiKeys!OneRowPerKey' BY <2>4, <2>5 DEF KeyInv, ApiKeys!OneRowPerKey
  <2>7. \A j \in mine' : j \in DOMAIN table' /\ ~table'[j].deleted /\ ~table'[j].synced
    BY <1>3, <2>2, <2>4 DEF KeyInv
  <2> QED BY <1>2, <2>4, <2>6, <2>7 DEF KeyInv
<1>4. CASE UNCHANGED <<table, mine>> BY <1>2, <1>4 DEF KeyInv, ApiKeys!OneRowPerKey
<1> QED BY <1>3, <1>4 DEF ApiKeys!InsertKey

\* UpdateCPAAPIKey.
LEMMA UpdateKept == ASSUME KeyInv, ApiKeys!UpdateCPAAPIKey PROVE KeyInv'
<1>1. PICK i \in DOMAIN table, key \in KeyValues, name \in Names :
        /\ ~table[i].deleted /\ ApiKeys!Find(key) \subseteq {i}
        /\ table' = [table EXCEPT ![i].key = key, ![i].name = name,
                                  ![i].synced = ApiKeys!SyncedAfterUpdate(i, key)]
        /\ mine' = IF table[i].key = key THEN mine ELSE mine \union {i}
  BY DEF ApiKeys!UpdateCPAAPIKey
<1>2. UNCHANGED <<listed, fetched, create>> BY DEF ApiKeys!UpdateCPAAPIKey
<1>3. table[i] \in RowSet /\ table \in Seq(RowSet) BY RowsAre DEF KeyInv
<1>4. PICK synced \in BOOLEAN : synced = ApiKeys!SyncedAfterUpdate(i, key)
  <2>1. ApiKeys!SyncedAfterUpdate(i, key) \in BOOLEAN BY <1>3 DEF ApiKeys!SyncedAfterUpdate
  <2> QED BY <2>1, Zenon
<1>5. PICK row : row = [table[i] EXCEPT !.key = key, !.name = name, !.synced = synced] OBVIOUS
<1>6. /\ row \in RowSet /\ row.key = key /\ ~row.deleted
      /\ row.synced => table[i].synced /\ table[i].key = key
  BY <1>1, <1>3, <1>4, <1>5 DEF RowSet, ApiKeys!SyncedAfterUpdate
<1>7. table' = [table EXCEPT ![i] = row] BY <1>1, <1>3, <1>4, <1>5
<1>8. \A j \in DOMAIN table \ {i} : table[j].key # row.key BY <1>1, <1>6 DEF ApiKeys!Find
<1>9. /\ table' \in Seq(RowSet) /\ DOMAIN table' = DOMAIN table /\ table'[i] = row
      /\ \A j \in DOMAIN table \ {i} : table'[j] = table[j]
      /\ ApiKeys!OneRowPerKey'
  BY <1>6, <1>7, <1>8, RowWritten
<1>10. \A j \in mine' : j \in DOMAIN table' /\ ~table'[j].deleted /\ ~table'[j].synced
  BY <1>1, <1>6, <1>9 DEF KeyInv
<1> QED BY <1>2, <1>9, <1>10 DEF KeyInv

\* UpdateCPAAPIKeyAlias.
LEMMA AliasKept == ASSUME KeyInv, ApiKeys!UpdateCPAAPIKeyAlias PROVE KeyInv'
<1>1. PICK i \in DOMAIN table, name \in Names \union {ApiKeys!NoName} : table' = [table EXCEPT ![i].name = name]
  BY DEF ApiKeys!UpdateCPAAPIKeyAlias
<1>2. UNCHANGED <<listed, fetched, create, mine>> BY DEF ApiKeys!UpdateCPAAPIKeyAlias
<1>3. table[i] \in RowSet /\ table \in Seq(RowSet) BY RowsAre DEF KeyInv
<1>4. PICK row : row = [table[i] EXCEPT !.name = name] OBVIOUS
<1>5. /\ row \in RowSet /\ row.key = table[i].key /\ row.deleted = table[i].deleted /\ row.synced = table[i].synced
  BY <1>3, <1>4 DEF RowSet
<1>6. table' = [table EXCEPT ![i] = row] BY <1>1, <1>3, <1>4
<1>7. \A j \in DOMAIN table \ {i} : table[j].key # row.key BY <1>5 DEF KeyInv, ApiKeys!OneRowPerKey
<1>8. /\ table' \in Seq(RowSet) /\ DOMAIN table' = DOMAIN table /\ table'[i] = row
      /\ \A j \in DOMAIN table \ {i} : table'[j] = table[j]
      /\ ApiKeys!OneRowPerKey'
  BY <1>5, <1>6, <1>7, RowWritten
<1> QED BY <1>2, <1>5, <1>8 DEF KeyInv

\* DeleteCPAAPIKey.
LEMMA DeleteKept == ASSUME KeyInv, ApiKeys!DeleteCPAAPIKey PROVE KeyInv'
<1>1. PICK i \in DOMAIN table : table' = [table EXCEPT ![i].deleted = TRUE] /\ mine' = mine \ {i}
  BY DEF ApiKeys!DeleteCPAAPIKey
<1>2. UNCHANGED <<listed, fetched, create>> BY DEF ApiKeys!DeleteCPAAPIKey
<1>3. table[i] \in RowSet /\ table \in Seq(RowSet) BY RowsAre DEF KeyInv
<1>4. PICK row : row = [table[i] EXCEPT !.deleted = TRUE] OBVIOUS
<1>5. row \in RowSet /\ row.key = table[i].key BY <1>3, <1>4 DEF RowSet
<1>6. table' = [table EXCEPT ![i] = row] BY <1>1, <1>3, <1>4
<1>7. \A j \in DOMAIN table \ {i} : table[j].key # row.key BY <1>5 DEF KeyInv, ApiKeys!OneRowPerKey
<1>8. /\ table' \in Seq(RowSet) /\ DOMAIN table' = DOMAIN table /\ table'[i] = row
      /\ \A j \in DOMAIN table \ {i} : table'[j] = table[j]
      /\ ApiKeys!OneRowPerKey'
  BY <1>5, <1>6, <1>7, RowWritten
<1> QED BY <1>1, <1>2, <1>8 DEF KeyInv

\* Every step.
LEMMA KeyStepKeeps == ASSUME KeyInv, ApiKeys!Next PROVE KeyInv'
BY ListKept, SyncKeeps, FindKept, ReviveKept, InsertKept, UpdateKept, AliasKept, DeleteKept
   DEF ApiKeys!Next, ApiKeys!Sync, ApiKeys!UserEdits

\* No step.
LEMMA KeyStutters == ASSUME KeyInv, UNCHANGED keyVars PROVE KeyInv'
BY DEF keyVars, KeyInv, ApiKeys!OneRowPerKey

\* What the invariant is for.
LEMMA KeySafe == KeyInv => ApiKeys!OneRowPerKey /\ ApiKeys!UserKeysSurvive
BY DEF KeyInv, ApiKeys!UserKeysSurvive

-----------------------------------------------------------------------------
(* The prices.                                                              *)

(* A clamped record keeps the counts of a well-formed one. *)
LEMMA ClampedWellFormed ==
  ASSUME NEW type \in Prices!TokenTypes, NEW t, Prices!WellFormed(type, t)
  PROVE  Prices!Clamped(t) = t /\ t \in [input : Nat, output : Nat, reasoning : Nat, cached : Nat,
                                  read : Nat, creation : Nat, total : Nat]
  BY DEF Prices!WellFormed, Prices!Clamped, Prices!AtLeastZero, Prices!TokenCounts

(* Filling in the total leaves the other counts alone. *)
LEMMA WithTotalFields ==
  ASSUME NEW t \in [input : Nat, output : Nat, reasoning : Nat, cached : Nat,
                    read : Nat, creation : Nat, total : Nat]
  PROVE  /\ Prices!WithTotal(t) \in [input : Nat, output : Nat, reasoning : Nat, cached : Nat,
                              read : Nat, creation : Nat, total : Nat]
         /\ Prices!WithTotal(t).input = t.input /\ Prices!WithTotal(t).output = t.output
         /\ Prices!WithTotal(t).cached = t.cached /\ Prices!WithTotal(t).read = t.read
         /\ Prices!WithTotal(t).creation = t.creation
<1>1. CASE t.total # 0
  BY <1>1 DEF Prices!WithTotal
<1>2. CASE t.total = 0 /\ t.input + t.output # 0
  <2>1. Prices!WithTotal(t) = [t EXCEPT !.total = t.input + t.output]
    BY <1>2 DEF Prices!WithTotal
  <2>2. t.input + t.output \in Nat
    OBVIOUS
  <2> QED BY <2>1, <2>2
<1>3. CASE t.total = 0 /\ t.input + t.output = 0
  <2>1. Prices!WithTotal(t) = [t EXCEPT !.total = t.cached]
    BY <1>3 DEF Prices!WithTotal
  <2> QED BY <2>1
<1> QED BY <1>1, <1>2, <1>3

(* Each token is charged exactly once for every provider, style and count   *)
(* (NormalizeUsageEventTokens followed by CalculateUsageTokenCostBreakdown).*)
THEOREM TokensChargedOnce ==
  ASSUME NEW type \in Prices!TokenTypes, NEW style \in Prices!Styles, NEW t, Prices!WellFormed(type, t)
  PROVE  Prices!ChargedOnce(type, style, t)
<1> DEFINE N == [input : Nat, output : Nat, reasoning : Nat, cached : Nat,
                 read : Nat, creation : Nat, total : Nat]
           n == Prices!Normalized(type, t)
<1>1. t \in N /\ Prices!Clamped(t) = t
  BY ClampedWellFormed
<1>2. CASE type = "claude"
  <2> DEFINE m == [t EXCEPT !.input = t.input + t.read + t.creation, !.cached = t.read]
  <2>0. t.input + t.read + t.creation \in Nat /\ t.output \in Int
    BY <1>1
  <2>1. m \in N /\ m.input = t.input + t.read + t.creation /\ m.cached = t.read
        /\ m.output = t.output /\ m.read = t.read /\ m.creation = t.creation
    BY <1>1, <2>0
  <2>2. n = Prices!WithTotal(m)
    BY <1>1, <1>2 DEF Prices!Normalized, Prices!ClaudeTokens
  <2> HIDE DEF m, n
  <2>3. n \in N /\ n.input = t.input + t.read + t.creation /\ n.cached = t.read
        /\ n.output = t.output /\ n.read = t.read /\ n.creation = t.creation
    BY <2>1, <2>2, WithTotalFields
  <2>4. Prices!Clamped(n) = n
    BY <2>3 DEF Prices!Clamped, Prices!AtLeastZero
  <2>5. LET b == Prices!Billed(style, n)
        IN  b.prompt + b.cache + b.creation = t.input + t.read + t.creation
            /\ b.completion = t.output
    BY <1>1, <2>3, <2>4 DEF Prices!Billed, Prices!ClaudeBilled, Prices!OpenAIBilled, Prices!AtLeastZero
  <2> USE DEF n
  <2> QED BY <1>2, <2>0, <2>5 DEF Prices!ChargedOnce, Prices!TakenIn
<1>3. CASE type = "gemini"
  <2> DEFINE out == t.output + (IF Prices!ReasoningApart(t) THEN t.reasoning ELSE 0)
             m == [t EXCEPT !.output = out]
  <2>1. out \in Nat
    BY <1>1
  <2>2. m \in N /\ m.output = out /\ m.input = t.input /\ m.cached = t.cached
        /\ m.read = t.read /\ m.creation = t.creation
    BY <1>1, <2>1
  <2>3. n = Prices!WithTotal(m)
    BY <1>1, <1>3 DEF Prices!Normalized, Prices!GeminiTokens
  <2> HIDE DEF m, n, out
  <2>4. n \in N /\ n.output = out /\ n.input = t.input /\ n.cached = t.cached
        /\ n.read = t.read /\ n.creation = t.creation
    BY <2>2, <2>3, WithTotalFields
  <2>5. Prices!Clamped(n) = n
    BY <2>4 DEF Prices!Clamped, Prices!AtLeastZero
  <2>6. t.cached <= t.input /\ t.read + t.creation <= t.input
    BY <1>3 DEF Prices!WellFormed
  <2>7. LET b == Prices!Billed(style, n)
        IN  b.prompt + b.cache + b.creation = t.input /\ b.completion = out
    BY <1>1, <2>4, <2>5, <2>6 DEF Prices!Billed, Prices!ClaudeBilled, Prices!OpenAIBilled, Prices!AtLeastZero
  <2> USE DEF n, out
  <2> QED BY <1>3, <2>7 DEF Prices!ChargedOnce, Prices!TakenIn
<1>4. CASE type = "openai"
  <2>1. n = Prices!WithTotal(t)
    BY <1>1, <1>4 DEF Prices!Normalized
  <2> HIDE DEF n
  <2>2. n \in N /\ n.output = t.output /\ n.input = t.input /\ n.cached = t.cached
        /\ n.read = t.read /\ n.creation = t.creation
    BY <1>1, <2>1, WithTotalFields
  <2>3. Prices!Clamped(n) = n
    BY <2>2 DEF Prices!Clamped, Prices!AtLeastZero
  <2>4. t.cached <= t.input /\ t.read + t.creation <= t.input
    BY <1>4 DEF Prices!WellFormed
  <2>5. LET b == Prices!Billed(style, n)
        IN  b.prompt + b.cache + b.creation = t.input /\ b.completion = t.output
    BY <1>1, <2>2, <2>3, <2>4 DEF Prices!Billed, Prices!ClaudeBilled, Prices!OpenAIBilled, Prices!AtLeastZero
  <2>6. t.output \in Int
    BY <1>1
  <2> USE DEF n
  <2> QED BY <1>4, <2>5, <2>6 DEF Prices!ChargedOnce, Prices!TakenIn
<1> QED
  BY <1>2, <1>3, <1>4 DEF Prices!TokenTypes

\* Counts of tokens that are not negative.
NatCounts == [input : Nat, output : Nat, reasoning : Nat, cached : Nat, read : Nat, creation : Nat, total : Nat]

\* clampTokenStats leaves no negative count.
LEMMA ClampedIs ==
  ASSUME NEW t \in Prices!TokenCounts PROVE Prices!Clamped(t) \in NatCounts
BY DEF Prices!TokenCounts, Prices!Clamped, Prices!AtLeastZero, NatCounts

\* NormalizeUsageEventTokens leaves no negative count, whatever a provider reported.
LEMMA NormalizedIs ==
  ASSUME NEW type, NEW t \in Prices!TokenCounts PROVE Prices!Normalized(type, t) \in NatCounts
<1>1. PICK c : c = Prices!Clamped(t) OBVIOUS
<1>2. c \in NatCounts BY <1>1, ClampedIs
<1>3. CASE type = "claude"
  <2>0. c.input + c.read + c.creation \in Nat /\ c.read \in Nat BY <1>2 DEF NatCounts
  <2>1. [c EXCEPT !.input = c.input + c.read + c.creation, !.cached = c.read] \in NatCounts
    BY <1>2, <2>0 DEF NatCounts
  <2>2. Prices!Normalized(type, t) = Prices!WithTotal([c EXCEPT !.input = c.input + c.read + c.creation, !.cached = c.read])
    BY <1>1, <1>3 DEF Prices!Normalized, Prices!ClaudeTokens
  <2> QED BY <2>1, <2>2, WithTotalFields DEF NatCounts
<1>4. CASE type = "gemini"
  <2>0. PICK out : out = IF Prices!ReasoningApart(c) THEN c.output + c.reasoning ELSE c.output OBVIOUS
  <2>1. out \in Nat BY <1>2, <2>0 DEF NatCounts
  <2>2. [c EXCEPT !.output = out] \in NatCounts BY <1>2, <2>1 DEF NatCounts
  <2>3. Prices!Normalized(type, t) = Prices!WithTotal([c EXCEPT !.output = out])
    BY <1>1, <1>4, <2>0 DEF Prices!Normalized, Prices!GeminiTokens
  <2> QED BY <2>2, <2>3, WithTotalFields DEF NatCounts
<1>5. CASE type \notin {"claude", "gemini"}
  <2>1. Prices!Normalized(type, t) = Prices!WithTotal(c) BY <1>1, <1>5 DEF Prices!Normalized
  <2> QED BY <1>2, <2>1, WithTotalFields DEF NatCounts
<1> QED BY <1>3, <1>4, <1>5

\* Counts that are not negative are left alone.
LEMMA ClampedKeeps == ASSUME NEW t \in NatCounts PROVE Prices!Clamped(t) = t
BY DEF NatCounts, Prices!Clamped, Prices!AtLeastZero

\* Products of natural numbers.
LEMMA Product == \A a, b \in Nat : a * b \in Nat /\ (a = 0 => a * b = 0)
OBVIOUS

\* A price of the settings: a known style, and no price below nothing.
FairPrice(price) == price.style \in Prices!Styles /\ Prices!NonNegative(price)

\* CalculateUsageTokenCost at a fair price: never below nothing, and nothing for no tokens.
LEMMA CostIs ==
  ASSUME NEW t \in NatCounts, NEW price, FairPrice(price)
  PROVE  Prices!Cost(t, price) \in Nat /\ (~Prices!RequiresPricing(t) => Prices!Cost(t, price) = 0)
<1>1. price.prompt \in Nat /\ price.completion \in Nat /\ price.cache \in Nat /\ price.creation \in Nat
  BY DEF FairPrice, Prices!NonNegative
<1>2. PICK b : b = Prices!Billed(price.style, t) OBVIOUS
<1>3. /\ b.prompt \in Nat /\ b.completion \in Nat /\ b.cache \in Nat /\ b.creation \in Nat
      /\ ~Prices!RequiresPricing(t) => b.prompt = 0 /\ b.completion = 0 /\ b.cache = 0 /\ b.creation = 0
  <2>1. t.input \in Nat /\ t.output \in Nat /\ t.cached \in Nat /\ t.read \in Nat /\ t.creation \in Nat
    BY DEF NatCounts
  <2>2. b = IF price.style = "claude" THEN Prices!ClaudeBilled(t) ELSE Prices!OpenAIBilled(t)
    BY <1>2, ClampedKeeps DEF Prices!Billed
  <2>3. CASE price.style = "claude"
    <3>1. b = [prompt |-> Prices!AtLeastZero(t.input - t.read - t.creation), completion |-> t.output,
               cache |-> t.read, creation |-> t.creation]
      BY <2>2, <2>3 DEF Prices!ClaudeBilled
    <3> QED BY <2>1, <3>1 DEF Prices!AtLeastZero, Prices!RequiresPricing
  <2>4. CASE price.style # "claude"
    <3>1. b = [prompt |-> Prices!AtLeastZero(t.input - t.cached), completion |-> t.output,
               cache |-> t.cached, creation |-> 0]
      BY <2>2, <2>4 DEF Prices!OpenAIBilled
    <3> QED BY <2>1, <3>1 DEF Prices!AtLeastZero, Prices!RequiresPricing
  <2> QED BY <2>3, <2>4
<1>4. PICK p, q, r, s : /\ p = b.prompt * price.prompt /\ q = b.completion * price.completion
                        /\ r = b.cache * price.cache /\ s = b.creation * price.creation
  OBVIOUS
<1>5. p \in Nat /\ q \in Nat /\ r \in Nat /\ s \in Nat BY <1>1, <1>3, <1>4, Product
<1>6. ~Prices!RequiresPricing(t) => p = 0 /\ q = 0 /\ r = 0 /\ s = 0 BY <1>1, <1>3, <1>4, Product
<1>7. Prices!Cost(t, price) = p + q + r + s BY <1>2, <1>4 DEF Prices!Cost
<1> QED BY <1>5, <1>6, <1>7

\* The inductive invariant of the settings: every price kept or about to be saved is fair.
PriceInv ==
  /\ settings = [m \in Models |-> settings[m]] /\ requests = [u \in Users |-> requests[u]]
  /\ \A m \in Models : settings[m] # Prices!NoSetting => FairPrice(settings[m].price)
  /\ \A u \in Users : requests[u].pc = "save" => FairPrice(requests[u].setting)

\* The invariant holds at the start.
LEMMA PriceInvInit == Prices!Init => PriceInv
BY DEF Prices!Init, PriceInv, Prices!NoRequest, Prices!NoSetting

\* Every step: only UpdatePricing lets a price in, and it refuses an unfair one.
LEMMA PriceStepKeeps == ASSUME PriceInv, Prices!Next PROVE PriceInv'
<1>1. CASE Prices!PreviewPricingSync
  BY <1>1 DEF Prices!PreviewPricingSync, PriceInv, FairPrice, Prices!NonNegative
<1>2. CASE Prices!DeleteModelPriceSetting
  <2>1. PICK m \in Models : settings' = [settings EXCEPT ![m] = Prices!NoSetting] /\ requests' = requests
    BY <1>2 DEF Prices!DeleteModelPriceSetting
  <2> QED BY <2>1 DEF PriceInv, FairPrice, Prices!NonNegative
<1>3. ASSUME NEW u \in Users, Prices!FindSetting(u) PROVE PriceInv'
  <2>1. PICK m \in Models : \E setting \in Prices!Asked(m) :
          /\ Prices!Accepted(setting)
          /\ requests' = [requests EXCEPT ![u] = [pc |-> "save", model |-> m, found |-> settings[m].id,
                                               setting |-> setting]]
    BY <1>3 DEF Prices!FindSetting
  <2>2. PICK setting : /\ Prices!Accepted(setting)
                       /\ requests' = [requests EXCEPT ![u] = [pc |-> "save", model |-> m, found |-> settings[m].id,
                                               setting |-> setting]]
    BY <2>1
  <2>3. FairPrice(setting) BY <2>2 DEF FairPrice, Prices!Accepted
  <2>4. settings' = settings BY <1>3 DEF Prices!FindSetting
  <2>5. /\ requests' = [v \in Users |-> requests'[v]] /\ requests'[u].setting = setting
        /\ \A v \in Users \ {u} : requests'[v] = requests[v]
    BY <2>2 DEF PriceInv
  <2> QED BY <2>3, <2>4, <2>5 DEF PriceInv, FairPrice, Prices!NonNegative
<1>4. ASSUME NEW u \in Users, Prices!SaveSetting(u) PROVE PriceInv'
  <2>1. requests[u].pc = "save" /\ requests' = [requests EXCEPT ![u] = Prices!NoRequest]
    BY <1>4 DEF Prices!SaveSetting
  <2>2. PICK r : r = requests[u] OBVIOUS
  <2>3. FairPrice(r.setting) BY <2>1, <2>2 DEF PriceInv
  <2>4. \/ settings' = settings
        \/ \E id : settings' = [settings EXCEPT ![r.model] = [id |-> id, price |-> r.setting]]
    BY <1>4, <2>2 DEF Prices!SaveSetting
  <2>5. /\ requests' = [v \in Users |-> requests'[v]]
        /\ \A v \in Users : requests'[v].pc = "save" => requests'[v] = requests[v]
    BY <2>1 DEF PriceInv, Prices!NoRequest
  <2>6. /\ settings' = [m \in Models |-> settings'[m]]
        /\ \A m \in Models : settings'[m] = settings[m] \/ settings'[m].price = r.setting
    <3>0. settings = [m \in Models |-> settings[m]] BY DEF PriceInv
    <3>1. CASE settings' = settings BY <3>0, <3>1
    <3>2. ASSUME NEW id, settings' = [settings EXCEPT ![r.model] = [id |-> id, price |-> r.setting]]
          PROVE  /\ settings' = [m \in Models |-> settings'[m]]
                 /\ \A m \in Models : settings'[m] = settings[m] \/ settings'[m].price = r.setting
      <4>1. PICK row : row = [id |-> id, price |-> r.setting] OBVIOUS
      <4>2. row.price = r.setting BY <4>1
      <4>3. settings' = [settings EXCEPT ![r.model] = row] BY <3>2, <4>1
      <4>4. settings' = [m \in Models |-> settings'[m]] BY <3>0, <4>3
      <4>5. \A m \in Models : settings'[m] = settings[m] \/ settings'[m] = row BY <3>0, <4>3
      <4> QED BY <4>2, <4>4, <4>5
    <3> QED BY <2>4, <3>1, <3>2
  <2> QED BY <2>3, <2>5, <2>6 DEF PriceInv, FairPrice, Prices!NonNegative
<1> QED BY <1>1, <1>2, <1>3, <1>4 DEF Prices!Next

\* No step.
LEMMA PriceStutters == ASSUME PriceInv, UNCHANGED priceVars PROVE PriceInv'
BY DEF priceVars, PriceInv, FairPrice, Prices!NonNegative

\* What the invariant is for.
LEMMA PriceSafe == PriceInv => Prices!ChargedSoundly
<1> SUFFICES ASSUME PriceInv, NEW m \in Models, settings[m] # Prices!NoSetting,
                    NEW type \in Prices!TokenTypes, NEW raw \in RawTokens
             PROVE  LET stored == Prices!Normalized(type, raw)
                    IN  /\ Prices!WellFormed(type, raw) => Prices!ChargedOnce(type, settings[m].price.style, raw)
                        /\ Prices!Cost(stored, settings[m].price) >= 0
                        /\ ~Prices!RequiresPricing(stored) => Prices!Cost(stored, settings[m].price) = 0
  BY DEF Prices!ChargedSoundly
<1>1. FairPrice(settings[m].price) BY DEF PriceInv
<1>2. Prices!Normalized(type, raw) \in NatCounts
  BY InstancesAllowed, NormalizedIs DEF Prices!PricingConstants
<1>3. Prices!WellFormed(type, raw) => Prices!ChargedOnce(type, settings[m].price.style, raw)
  BY <1>1, TokensChargedOnce DEF FairPrice
<1> QED BY <1>1, <1>2, <1>3, CostIs

\* A candidate is an entry and how well its name fits.
IsCandidate(c) == c.entry \in Entries /\ c.score \in Nat

\* Of a model there are finitely many (matchPricingCatalogCandidates).
LEMMA CandidatesAre ==
  ASSUME NEW m, NEW catalog, catalog \subseteq Entries
  PROVE  /\ IsFiniteSet(Prices!Candidates(m, catalog))
         /\ \A c \in Prices!Candidates(m, catalog) : IsCandidate(c)
<1> DEFINE E == {e \in catalog : e.model = m}
           Best(e) == CHOOSE s \in e.hits : \A other \in e.hits : s >= other
           S == {[entry |-> e, score |-> Best(e)] : e \in E}
<1>1. Prices!Candidates(m, catalog) = S BY DEF Prices!Candidates
<1>2. IsFiniteSet(E)
  <2>1. IsFiniteSet(Entries) BY InstancesAllowed DEF Prices!PricingConstants, Prices!IsFiniteSet, IsFiniteSet
  <2> QED BY <2>1, FS_Subset
<1>3. IsFiniteSet(S)
  <2> DEFINE g == [e \in E |-> [entry |-> e, score |-> Best(e)]]
  <2> HIDE DEF Best
  <2>1. g \in Surjection(E, S) BY DEF Surjection
  <2> QED BY <1>2, <2>1, FS_Surjection
<1>4. ASSUME NEW e \in Entries PROVE Best(e) \in Nat
  <2>1. e.hits \subseteq Nat /\ IsFiniteSet(e.hits) /\ e.hits # {}
    BY InstancesAllowed DEF Prices!PricingConstants, Prices!IsFiniteSet, IsFiniteSet
  <2>2. PICK R : R = {p \in Nat \X Nat : p[1] > p[2]} OBVIOUS
  <2>3. \A a, b \in e.hits : <<a, b>> \in R <=> a > b BY <2>1, <2>2
  <2>4. Ordered(e.hits, R) BY <2>1, <2>3 DEF Ordered
  <2>5. PICK s \in e.hits : \A other \in e.hits : <<other, s>> \notin R BY <2>1, <2>4, FirstOf
  <2>6. \A other \in e.hits : s >= other
    <3>1. ASSUME NEW other \in e.hits PROVE s >= other
      <4>1. s \in Nat /\ other \in Nat /\ ~(other > s) BY <2>1, <2>3, <2>5
      <4> QED BY <4>1
    <3> QED BY <3>1
  <2>7. Best(e) \in e.hits BY <2>6
  <2> QED BY <2>1, <2>7
<1>5. \A c \in S : IsCandidate(c)
  <2> HIDE DEF Best
  <2> QED BY <1>4 DEF IsCandidate
<1> QED BY <1>1, <1>3, <1>5

\* What candidates are compared by, the weightiest first.
Weights(m, c) ==
  <<0 - c.score, IF Prices!PlanZero(c.entry) THEN 1 ELSE 0, Prices!ProviderRank(m, c.entry.provider),
    IF c.entry.deprecated THEN 1 ELSE 0, 0 - c.entry.updated, Prices!Rank(c.entry.provider), c.entry.id>>
Lighter(v, w) ==
  IF v[1] # w[1] THEN v[1] < w[1] ELSE IF v[2] # w[2] THEN v[2] < w[2]
  ELSE IF v[3] # w[3] THEN v[3] < w[3] ELSE IF v[4] # w[4] THEN v[4] < w[4]
  ELSE IF v[5] # w[5] THEN v[5] < w[5] ELSE IF v[6] # w[6] THEN v[6] < w[6] ELSE v[7] < w[7]
Seven == Int \X Int \X Int \X Int \X Int \X Int \X Int

\* Weights are an order.
LEMMA LighterOrders ==
  /\ \A v \in Seven : ~Lighter(v, v)
  /\ \A u, v, w \in Seven : Lighter(u, v) /\ Lighter(v, w) => Lighter(u, w)
<1>1. ASSUME NEW u \in Seven, NEW v \in Seven, NEW w \in Seven, Lighter(u, v), Lighter(v, w) PROVE Lighter(u, w)
  <2>1. /\ u[1] \in Int /\ u[2] \in Int /\ u[3] \in Int /\ u[4] \in Int /\ u[5] \in Int /\ u[6] \in Int /\ u[7] \in Int
        /\ v[1] \in Int /\ v[2] \in Int /\ v[3] \in Int /\ v[4] \in Int /\ v[5] \in Int /\ v[6] \in Int /\ v[7] \in Int
        /\ w[1] \in Int /\ w[2] \in Int /\ w[3] \in Int /\ w[4] \in Int /\ w[5] \in Int /\ w[6] \in Int /\ w[7] \in Int
    BY DEF Seven
  <2> QED BY <1>1, <2>1 DEF Lighter
<1>2. ASSUME NEW v \in Seven PROVE ~Lighter(v, v) BY DEF Seven, Lighter
<1> QED BY <1>1, <1>2

\* Ranks are numbers, and tell providers apart.
LEMMA RanksAre ==
  ASSUME NEW m \in Models, NEW p \in Prices!Range(ProviderIds)
  PROVE  /\ Prices!ProviderRank(m, p) \in Int /\ Prices!Rank(p) \in Int
         /\ ProviderIds[Prices!Rank(p)] = p
<1>1. /\ ProviderIds \in Seq(Prices!Range(ProviderIds)) /\ CommonRank[p] \in Int
      /\ Official[Family[m]] \in Seq(Prices!Range(ProviderIds))
  BY InstancesAllowed DEF Prices!PricingConstants
<1>2. PICK official : official = Official[Family[m]] OBVIOUS
<1>3. DOMAIN official \subseteq Int /\ DOMAIN ProviderIds \subseteq Int BY <1>1, <1>2
<1>4. Prices!ProviderRank(m, p) = IF p \in Prices!Range(official)
                                  THEN CHOOSE i \in DOMAIN official : official[i] = p ELSE 100 + CommonRank[p]
  BY <1>2 DEF Prices!ProviderRank
<1>5. Prices!ProviderRank(m, p) \in Int
  <2>1. CASE p \in Prices!Range(official)
    <3>1. \E i \in DOMAIN official : official[i] = p BY <2>1 DEF Prices!Range
    <3>2. Prices!ProviderRank(m, p) \in DOMAIN official BY <1>4, <2>1, <3>1
    <3> QED BY <1>3, <3>2
  <2>2. CASE p \notin Prices!Range(official) BY <1>1, <1>4, <2>2
  <2> QED BY <2>1, <2>2
<1>6. \E i \in DOMAIN ProviderIds : ProviderIds[i] = p BY DEF Prices!Range
<1>7. Prices!Rank(p) \in DOMAIN ProviderIds /\ ProviderIds[Prices!Rank(p)] = p BY <1>6 DEF Prices!Rank
<1> QED BY <1>3, <1>5, <1>7

\* Candidates are compared by their weights.
LEMMA WeightsCompare ==
  ASSUME NEW m \in Models, NEW c, NEW d, IsCandidate(c), IsCandidate(d)
  PROVE  /\ Weights(m, c) \in Seven
         /\ Prices!CandidateLess(m, c, d) <=> Lighter(Weights(m, c), Weights(m, d))
<1>1. ASSUME NEW b, IsCandidate(b)
      PROVE  /\ b.score \in Nat /\ b.entry.id \in Int /\ b.entry.updated \in Int /\ b.entry.deprecated \in BOOLEAN
             /\ Prices!ProviderRank(m, b.entry.provider) \in Int /\ Prices!Rank(b.entry.provider) \in Int
             /\ ProviderIds[Prices!Rank(b.entry.provider)] = b.entry.provider
  <2>1. b.entry \in Entries /\ b.score \in Nat BY <1>1 DEF IsCandidate
  <2>2. /\ b.entry.id \in Int /\ b.entry.updated \in Int /\ b.entry.deprecated \in BOOLEAN
        /\ b.entry.provider \in Prices!Range(ProviderIds)
    BY <2>1, InstancesAllowed DEF Prices!PricingConstants
  <2> QED BY <2>1, <2>2, RanksAre
<1>2. ASSUME NEW b, IsCandidate(b) PROVE Weights(m, b) \in Seven
  BY <1>1, <1>2 DEF Weights, Seven
<1>3. PICK v, w : v = Weights(m, c) /\ w = Weights(m, d) OBVIOUS
<1>4. /\ v[1] = 0 - c.score /\ v[3] = Prices!ProviderRank(m, c.entry.provider)
      /\ v[5] = 0 - c.entry.updated /\ v[6] = Prices!Rank(c.entry.provider) /\ v[7] = c.entry.id
      /\ w[1] = 0 - d.score /\ w[3] = Prices!ProviderRank(m, d.entry.provider)
      /\ w[5] = 0 - d.entry.updated /\ w[6] = Prices!Rank(d.entry.provider) /\ w[7] = d.entry.id
      /\ v[2] = (IF Prices!PlanZero(c.entry) THEN 1 ELSE 0) /\ w[2] = (IF Prices!PlanZero(d.entry) THEN 1 ELSE 0)
      /\ v[4] = (IF c.entry.deprecated THEN 1 ELSE 0) /\ w[4] = (IF d.entry.deprecated THEN 1 ELSE 0)
  BY <1>3 DEF Weights
<1>5. PICK cPlan \in BOOLEAN, dPlan \in BOOLEAN :
        cPlan = Prices!PlanZero(c.entry) /\ dPlan = Prices!PlanZero(d.entry)
  <2>1. Prices!PlanZero(c.entry) \in BOOLEAN /\ Prices!PlanZero(d.entry) \in BOOLEAN BY DEF Prices!PlanZero
  <2> QED BY <2>1, Zenon
<1>6. /\ c.score # d.score <=> v[1] # w[1]
      /\ c.score > d.score <=> v[1] < w[1]
      /\ c.entry.updated # d.entry.updated <=> v[5] # w[5]
      /\ c.entry.updated > d.entry.updated <=> v[5] < w[5]
  BY <1>1, <1>4
<1>7. c.entry.provider # d.entry.provider <=> v[6] # w[6]
  <2>1. c.entry.provider = d.entry.provider => v[6] = w[6] BY <1>4, Zenon
  <2>2. v[6] = w[6] => c.entry.provider = d.entry.provider BY <1>1, <1>4, Zenon
  <2> QED BY <2>1, <2>2
<1>8. (Prices!PlanZero(c.entry) # Prices!PlanZero(d.entry)) <=> v[2] # w[2]
  <2>1. v[2] = (IF cPlan THEN 1 ELSE 0) /\ w[2] = (IF dPlan THEN 1 ELSE 0) BY <1>4, <1>5, Zenon
  <2>2. cPlan # dPlan <=> v[2] # w[2] BY <2>1
  <2> QED BY <1>5, <2>2, Zenon
<1>9. ~Prices!PlanZero(c.entry) /\ v[2] # w[2] <=> v[2] < w[2] BY <1>4
<1>10. /\ (c.entry.deprecated # d.entry.deprecated) <=> v[4] # w[4]
       /\ ~c.entry.deprecated /\ v[4] # w[4] <=> v[4] < w[4]
  <2>1. PICK x \in BOOLEAN, y \in BOOLEAN : x = c.entry.deprecated /\ y = d.entry.deprecated BY <1>1, Zenon
  <2>2. v[4] = (IF x THEN 1 ELSE 0) /\ w[4] = (IF y THEN 1 ELSE 0) BY <1>4, <2>1, Zenon
  <2>3. (x # y <=> v[4] # w[4]) /\ (~x /\ v[4] # w[4] <=> v[4] < w[4]) BY <2>2
  <2> QED BY <2>1, <2>3, Zenon
<1>11. Prices!CandidateLess(m, c, d) <=>
         IF v[1] # w[1] THEN v[1] < w[1]
         ELSE IF v[2] # w[2] THEN ~Prices!PlanZero(c.entry)
         ELSE IF v[3] # w[3] THEN v[3] < w[3]
         ELSE IF v[4] # w[4] THEN ~c.entry.deprecated
         ELSE IF v[5] # w[5] THEN v[5] < w[5]
         ELSE IF v[6] # w[6] THEN v[6] < w[6]
         ELSE v[7] < w[7]
  <2>1. Prices!CandidateLess(m, c, d) <=>
         IF c.score # d.score THEN c.score > d.score
         ELSE IF Prices!PlanZero(c.entry) # Prices!PlanZero(d.entry) THEN ~Prices!PlanZero(c.entry)
         ELSE IF v[3] # w[3] THEN v[3] < w[3]
         ELSE IF c.entry.deprecated # d.entry.deprecated THEN ~c.entry.deprecated
         ELSE IF c.entry.updated # d.entry.updated THEN c.entry.updated > d.entry.updated
         ELSE IF c.entry.provider # d.entry.provider THEN v[6] < w[6]
         ELSE v[7] < w[7]
    BY <1>4, Zenon DEF Prices!CandidateLess
  <2> QED BY <1>6, <1>7, <1>8, <1>10, <2>1, Zenon
<1>12. Prices!CandidateLess(m, c, d) <=> Lighter(v, w) BY <1>9, <1>10, <1>11, Zenon DEF Lighter
<1> QED BY <1>2, <1>3, <1>12

\* Of some candidates the first is one that none precedes.
LEMMA FirstIs ==
  ASSUME NEW m \in Models, NEW S, IsFiniteSet(S), S # {}, \A c \in S : IsCandidate(c)
  PROVE  Prices!First(m, S) \in S /\ \A d \in S : ~Prices!CandidateLess(m, d, Prices!First(m, S))
<1>1. PICK R : R = {p \in S \X S : Prices!CandidateLess(m, p[1], p[2])} OBVIOUS
<1>2. \A c, d \in S : <<c, d>> \in R <=> Prices!CandidateLess(m, c, d) BY <1>1
<1>3. \A c, d \in S : Weights(m, c) \in Seven /\ (<<c, d>> \in R <=> Lighter(Weights(m, c), Weights(m, d)))
  BY <1>2, WeightsCompare
<1>4. Ordered(S, R)
  <2>1. \A x \in S : <<x, x>> \notin R BY <1>3, LighterOrders
  <2>2. \A x, y, z \in S : <<x, y>> \in R /\ <<y, z>> \in R => <<x, z>> \in R BY <1>3, LighterOrders
  <2> QED BY <2>1, <2>2 DEF Ordered
<1>5. \E c \in S : \A d \in S : ~Prices!CandidateLess(m, d, c) BY <1>2, <1>4, FirstOf
<1> QED BY <1>5 DEF Prices!First

\* The preview is what a preview of some models and some catalog makes.
PreviewInv ==
  \E models \in SUBSET Models, catalog \in SUBSET Entries :
    preview = [models |-> models, catalog |-> catalog,
               matches |-> [m \in {m \in models : Prices!Useful(m, catalog) # {}} |-> Prices!Match(m, catalog)]]

\* It is before the first preview.
LEMMA PreviewInit == Prices!Init => PreviewInv
<1> SUFFICES ASSUME Prices!Init PROVE PreviewInv OBVIOUS
<1>1. preview = [models |-> {}, catalog |-> {}, matches |-> <<>>] BY DEF Prices!Init, Prices!NoPreview
<1>2. \A f : f = [m \in {m \in {} : Prices!Useful(m, {}) # {}} |-> Prices!Match(m, {})] => f = <<>>
  <2>1. {m \in {} : Prices!Useful(m, {}) # {}} = {} OBVIOUS
  <2> QED BY <2>1
<1> QED BY <1>1, <1>2 DEF PreviewInv

\* Only a preview writes one.
LEMMA PreviewStepKeeps == ASSUME PreviewInv, Prices!Next PROVE PreviewInv'
<1>1. CASE Prices!PreviewPricingSync
  BY <1>1, Zenon DEF Prices!PreviewPricingSync, Prices!Catalogs, PreviewInv
<1>2. CASE preview' = preview BY <1>2, Zenon DEF PreviewInv
<1> QED BY <1>1, <1>2, Zenon DEF Prices!Next, Prices!DeleteModelPriceSetting, Prices!FindSetting, Prices!SaveSetting

\* No step.
LEMMA PreviewStutters == ASSUME PreviewInv, UNCHANGED priceVars PROVE PreviewInv'
<1>1. preview' = preview BY DEF priceVars
<1> QED BY <1>1, Zenon DEF PreviewInv

\* What the invariant is for: what is better comes first.
LEMMA PreviewSafe == PreviewInv => Prices!BestProposal
<1> SUFFICES ASSUME PreviewInv PROVE Prices!BestProposal OBVIOUS
<1>1. PICK models \in SUBSET Models, catalog \in SUBSET Entries :
        preview = [models |-> models, catalog |-> catalog,
                   matches |-> [m \in {m \in models : Prices!Useful(m, catalog) # {}} |-> Prices!Match(m, catalog)]]
  BY DEF PreviewInv
<1>2. /\ preview.models = models /\ preview.catalog = catalog
      /\ preview.matches = [m \in {m \in models : Prices!Useful(m, catalog) # {}} |-> Prices!Match(m, catalog)]
  BY <1>1
<1>3. ASSUME NEW m \in models
      PROVE  /\ m \in DOMAIN preview.matches <=> Prices!Useful(m, catalog) # {}
             /\ m \in DOMAIN preview.matches => preview.matches[m] = Prices!Match(m, catalog)
  BY <1>2
<1> DEFINE better(m, c, d) ==
             \/ c.score > d.score
             \/ c.score = d.score /\ ~Prices!PlanZero(c.entry) /\ Prices!PlanZero(d.entry)
             \/ /\ c.score = d.score /\ Prices!PlanZero(c.entry) = Prices!PlanZero(d.entry)
                /\ Prices!ProviderRank(m, c.entry.provider) < Prices!ProviderRank(m, d.entry.provider)
<1>4. ASSUME NEW m \in Models, NEW c, NEW d, IsCandidate(c), IsCandidate(d), better(m, c, d)
      PROVE  Prices!CandidateLess(m, c, d)
  <2>1. c.score \in Nat /\ d.score \in Nat BY <1>4 DEF IsCandidate
  <2>2. CASE c.score > d.score
    <3>1. c.score # d.score BY <2>1, <2>2
    <3> QED BY <2>2, <3>1, Zenon DEF Prices!CandidateLess
  <2>3. CASE c.score = d.score /\ ~Prices!PlanZero(c.entry) /\ Prices!PlanZero(d.entry)
    BY <2>3, Zenon DEF Prices!CandidateLess
  <2>4. CASE /\ c.score = d.score /\ Prices!PlanZero(c.entry) = Prices!PlanZero(d.entry)
             /\ Prices!ProviderRank(m, c.entry.provider) < Prices!ProviderRank(m, d.entry.provider)
    <3>1. Prices!ProviderRank(m, c.entry.provider) # Prices!ProviderRank(m, d.entry.provider)
      <4>1. Prices!ProviderRank(m, c.entry.provider) \in Int
        <5>1. c.entry.provider \in Prices!Range(ProviderIds)
          BY <1>4, InstancesAllowed DEF IsCandidate, Prices!PricingConstants
        <5> QED BY <5>1, RanksAre
      <4> QED BY <2>4, <4>1
    <3> QED BY <2>4, <3>1, Zenon DEF Prices!CandidateLess
  <2> QED BY <1>4, <2>2, <2>3, <2>4
<1>5. ASSUME NEW m \in models, Prices!Useful(m, catalog) # {}, NEW c \in Prices!Useful(m, catalog)
      PROVE  ~better(m, c, Prices!Match(m, catalog))
  <2>1. m \in Models /\ catalog \subseteq Entries OBVIOUS
  <2>2. PICK S : S = Prices!Useful(m, catalog) OBVIOUS
  <2>3. IsFiniteSet(S) /\ S # {} /\ \A d \in S : IsCandidate(d)
    <3>1. S \subseteq Prices!Candidates(m, catalog) BY <2>2 DEF Prices!Useful
    <3> QED BY <1>5, <2>1, <2>2, <3>1, CandidatesAre, FS_Subset
  <2>4. Prices!Match(m, catalog) = Prices!First(m, S) BY <2>2 DEF Prices!Match
  <2>5. PICK first : first = Prices!Match(m, catalog) OBVIOUS
  <2>6. first \in S /\ ~Prices!CandidateLess(m, c, first) BY <1>5, <2>1, <2>2, <2>3, <2>4, <2>5, FirstIs
  <2> HIDE DEF better
  <2> QED BY <1>4, <1>5, <2>1, <2>2, <2>3, <2>5, <2>6
<1>6. \A m : Prices!Useful(m, catalog) = {c \in Prices!Candidates(m, catalog) : Prices!Usable(c)} BY DEF Prices!Useful
<1> QED BY <1>2, <1>3, <1>5, <1>6, Zenon DEF Prices!BestProposal

-----------------------------------------------------------------------------
(* The sessions.                                                            *)

\* Where requests are.
Pcs == {"idle", "wrong", "get", "load", "expire", "refuse", "clear", "admin", "api_key_viewer"}
CallSet == [pc : Pcs, token : Tokens \union {""}, purpose : Login!Purposes \union {""},
            key : ApiKeyIds \union {Login!NoKey}, client : Clients \union {""}, late : BOOLEAN]

\* The types of the sessions.
LoginTypes ==
  /\ now \in Nat /\ keys \subseteq ApiKeyIds
  /\ mem \in [Tokens -> Login!Sessions] /\ rows \in [Tokens -> Login!Sessions]
  /\ calls \in [Requests -> CallSet]
  /\ fails \in [Clients -> Nat] /\ made \subseteq Tokens /\ ended \subseteq made

\* Neither memory nor the table has a session of token t.
Gone(t) == mem[t] = Login!None /\ rows[t] = Login!None

\* Places of a request with a token.
Asking == {"get", "load", "expire", "refuse", "clear", "admin", "api_key_viewer"}
\* A request asks with a token that was drawn; one that began after the removal of its token is
\* never admitted; one about to answer a removal has removed the session.
CallSound(r) ==
  /\ calls[r].pc \in Asking => calls[r].token \in made
  /\ calls[r].late => calls[r].token \in ended /\ calls[r].pc \notin {"admin", "api_key_viewer"}
  /\ calls[r].pc = "clear" => Gone(calls[r].token)
  /\ calls[r].pc = "wrong" => calls[r].client \in Clients

\* Requests that passed the check of a client's failures and will be counted.
Wrong(c) == {r \in Requests : calls[r].pc = "wrong" /\ calls[r].client = c}
\* Failures counted and failures to come together stay below the limit and the requests.
GuessesBounded ==
  \A c \in Clients :
    fails[c] + Cardinality(Wrong(c)) <= MaxFailedLoginAttempts - 1 + Cardinality(Requests)

\* The inductive invariant of the sessions: no session of a token whose removal was answered is left,
\* in memory or in the table.
LoginInv ==
  /\ LoginTypes /\ Login!CacheBacked
  /\ \A t \in ended : Gone(t)
  /\ \A r \in Requests : CallSound(r)
  /\ GuessesBounded

\* What is assumed of the constants.
LEMMA SessionBounds ==
  /\ IsFiniteSet(Requests) /\ Cardinality(Requests) \in Nat /\ MaxFailedLoginAttempts \in Nat \ {0}
  /\ Ttl \in Nat
<1>1. IsFiniteSet(Requests)
  BY InstancesAllowed DEF Login!SessionConstants, Login!IsFiniteSet, IsFiniteSet
<1> QED BY <1>1, InstancesAllowed, FS_CardinalityType DEF Login!SessionConstants

\* A request that is answered.
LEMMA IdleCall ==
  Login!Idle \in CallSet /\ Login!Idle.pc = "idle" /\ Login!Idle.late = FALSE /\ Login!Idle.token = ""
BY DEF CallSet, Login!Idle, Pcs, Login!NoKey

\* The requests that will be counted are some of the requests.
LEMMA WrongFinite ==
  ASSUME NEW c PROVE IsFiniteSet(Wrong(c)) /\ Cardinality(Wrong(c)) \in Nat /\ Cardinality(Wrong(c)) <= Cardinality(Requests)
                     /\ Cardinality(Requests) \in Nat
<1>1. IsFiniteSet(Requests) BY SessionBounds
<1>2. Wrong(c) \subseteq Requests BY DEF Wrong
<1> QED BY <1>1, <1>2, FS_Subset, FS_CardinalityType

\* A step that counts no failure and lets no guess pass.
LEMMA WrongShrinks ==
  ASSUME GuessesBounded, LoginTypes, fails' \in [Clients -> Nat],
         \A c \in Clients : fails'[c] \in {fails[c], 0} /\ Wrong(c)' \subseteq Wrong(c)
  PROVE  GuessesBounded'
<1> SUFFICES ASSUME NEW c \in Clients
             PROVE  fails'[c] + Cardinality(Wrong(c)') <= MaxFailedLoginAttempts - 1 + Cardinality(Requests)
  BY DEF GuessesBounded
<1>1. MaxFailedLoginAttempts \in Nat BY SessionBounds
<1>2. IsFiniteSet(Wrong(c)) /\ Cardinality(Wrong(c)) \in Nat BY WrongFinite
<1>3. Cardinality(Wrong(c)') \in Nat /\ Cardinality(Wrong(c)') <= Cardinality(Wrong(c))
  BY <1>2, FS_Subset, FS_CardinalityType
<1>4. fails[c] \in Nat /\ fails'[c] \in Nat /\ fails'[c] <= fails[c] BY DEF LoginTypes
<1>5. Cardinality(Requests) \in Nat BY WrongFinite
<1>6. fails[c] + Cardinality(Wrong(c)) <= MaxFailedLoginAttempts - 1 + Cardinality(Requests)
  BY DEF GuessesBounded
<1> QED BY <1>1, <1>2, <1>3, <1>4, <1>5, <1>6

\* A step of one request that brings back no session: the others are not disturbed.
LEMMA LoginFrame ==
  ASSUME LoginInv, LoginTypes', Login!CacheBacked', made \subseteq made', NEW r \in Requests,
         \A t \in made : Gone(t) => Gone(t)',
         ended \subseteq ended', \A t \in ended' \ ended : t \in made /\ Gone(t),
         \A q \in Requests \ {r} : calls'[q] = calls[q],
         CallSound(r)',
         calls'[r].pc # "wrong",
         \A c \in Clients : fails'[c] \in {fails[c], 0}
  PROVE  LoginInv'
<1>1. \A t \in ended' : Gone(t)' BY DEF LoginInv, LoginTypes
<1>2. ASSUME NEW q \in Requests PROVE CallSound(q)'
  <2>1. CASE q = r BY <2>1
  <2>2. CASE q # r
    <3>1. calls'[q] = calls[q] /\ CallSound(q) BY <2>2 DEF LoginInv
    <3>2. calls[q].pc = "clear" => calls[q].token \in made /\ Gone(calls[q].token) BY <3>1 DEF CallSound, Asking
    <3>3. calls[q].pc = "clear" => Gone(calls[q].token)' BY <3>1, <3>2 DEF Gone
    <3> QED BY <3>1, <3>3 DEF CallSound, Gone
  <2> QED BY <2>1, <2>2
<1>3. \A c \in Clients : Wrong(c)' \subseteq Wrong(c) BY DEF Wrong
<1>4. GuessesBounded' BY <1>3, WrongShrinks DEF LoginInv, LoginTypes
<1> QED BY <1>1, <1>2, <1>4 DEF LoginInv

\* The invariant holds at the start.
LEMMA LoginInvInit == Login!Init => LoginInv
<1> SUFFICES ASSUME Login!Init PROVE LoginInv OBVIOUS
<1>1. Login!Idle \in CallSet BY IdleCall
<1>2. LoginTypes BY <1>1 DEF Login!Init, LoginTypes, Login!Sessions
<1>3. Login!CacheBacked BY DEF Login!Init, Login!CacheBacked
<1>4. \A r \in Requests : calls[r] = Login!Idle BY DEF Login!Init
<1>5. \A r \in Requests : CallSound(r) BY <1>4, IdleCall DEF CallSound, Asking
<1>6. GuessesBounded
  <2> SUFFICES ASSUME NEW c \in Clients
               PROVE  fails[c] + Cardinality(Wrong(c)) <= MaxFailedLoginAttempts - 1 + Cardinality(Requests)
    BY DEF GuessesBounded
  <2>1. fails[c] = 0 BY DEF Login!Init
  <2>2. Wrong(c) = {} BY <1>4, IdleCall DEF Wrong
  <2> QED BY <2>1, <2>2, SessionBounds, WrongFinite
<1> QED BY <1>2, <1>3, <1>5, <1>6 DEF LoginInv, Login!Init

\* The clock, and keys that are removed.
LEMMA OutsideKeeps == ASSUME LoginInv, Login!Tick \/ Login!KeyRemoved PROVE LoginInv'
<1>1. UNCHANGED <<mem, rows, calls, fails, made, ended>> /\ keys' \subseteq keys /\ now' \in {now, now + 1}
  BY DEF Login!Tick, Login!KeyRemoved
<1>2. LoginTypes' BY <1>1 DEF LoginInv, LoginTypes
<1>3. Login!CacheBacked' BY <1>1 DEF LoginInv, Login!CacheBacked
<1>4. \A r \in Requests : CallSound(r)' BY <1>1 DEF LoginInv, CallSound, Gone
<1>5. GuessesBounded' BY <1>1 DEF LoginInv, GuessesBounded, Wrong
<1> QED BY <1>1, <1>2, <1>3, <1>4, <1>5 DEF LoginInv, Gone

\* A restart: memory is lost, the table stays.
LEMMA RestartKeeps == ASSUME LoginInv, Login!Restart PROVE LoginInv'
<1>1. /\ mem' = [t \in Tokens |-> Login!None] /\ calls' = [r \in Requests |-> Login!Idle]
      /\ fails' = [c \in Clients |-> 0] /\ UNCHANGED <<now, keys, rows, made, ended>>
  BY DEF Login!Restart
<1>0. Login!Idle \in CallSet BY IdleCall
<1>2. LoginTypes' BY <1>0, <1>1 DEF LoginInv, LoginTypes, Login!Sessions
<1>3. Login!CacheBacked' BY <1>1 DEF Login!CacheBacked
<1>4. \A r \in Requests : CallSound(r)' BY <1>1, IdleCall DEF CallSound, Asking
<1>5. GuessesBounded'
  <2>1. \A c \in Clients : Wrong(c)' \subseteq Wrong(c) BY <1>1, IdleCall DEF Wrong
  <2>2. \A c \in Clients : fails'[c] \in {fails[c], 0} BY <1>1
  <2> QED BY <1>2, <2>1, <2>2, WrongShrinks DEF LoginInv, LoginTypes
<1>6. \A t \in ended' : Gone(t)' BY <1>1 DEF LoginInv, LoginTypes, Gone
<1> QED BY <1>2, <1>3, <1>4, <1>5, <1>6 DEF LoginInv

\* A guess passes the check.
LEMMA GuessKeeps == ASSUME LoginInv, NEW r \in Requests, Login!Guess(r) PROVE LoginInv'
<1>1. PICK c \in Clients :
        /\ fails[c] < MaxFailedLoginAttempts
        /\ calls' = [calls EXCEPT ![r] = [Login!Idle EXCEPT !.pc = "wrong", !.client = c]]
  BY DEF Login!Guess
<1>2. UNCHANGED <<now, keys, mem, rows, fails, made, ended>> BY DEF Login!Guess
<1> DEFINE call == [Login!Idle EXCEPT !.pc = "wrong", !.client = c]
<1>3. /\ call \in CallSet /\ call.pc = "wrong" /\ call.client = c /\ call.late = FALSE
  BY DEF CallSet, Login!Idle, Pcs, Login!NoKey
<1> HIDE DEF call
<1>4. calls' = [calls EXCEPT ![r] = call] BY <1>1 DEF call
<1>5. LoginTypes' BY <1>2, <1>3, <1>4 DEF LoginInv, LoginTypes
<1>6. Login!CacheBacked' BY <1>2 DEF LoginInv, Login!CacheBacked
<1>7. /\ calls'[r] = call /\ \A q \in Requests \ {r} : calls'[q] = calls[q]
  BY <1>4 DEF LoginInv, LoginTypes
<1>8. \A q \in Requests : CallSound(q)'
  BY <1>2, <1>3, <1>7 DEF LoginInv, CallSound, Gone, Asking
<1>9. GuessesBounded'
  <2> SUFFICES ASSUME NEW d \in Clients
               PROVE  fails[d] + Cardinality(Wrong(d)') <= MaxFailedLoginAttempts - 1 + Cardinality(Requests)
    BY <1>2 DEF GuessesBounded
  <2>1. CASE d = c
    <3>1. Wrong(c)' \subseteq Requests BY DEF Wrong
    <3>2. Cardinality(Wrong(c)') <= Cardinality(Requests) /\ Cardinality(Wrong(c)') \in Nat
      BY <3>1, SessionBounds, FS_Subset, FS_CardinalityType
    <3>3. Cardinality(Requests) \in Nat /\ MaxFailedLoginAttempts \in Nat /\ fails[c] \in Nat
      BY SessionBounds DEF LoginInv, LoginTypes
    <3> QED BY <1>1, <2>1, <3>2, <3>3
  <2>2. CASE d # c
    <3>1. Wrong(d)' = Wrong(d)
      <4>1. calls[r].pc # "wrong" BY IdleCall DEF Login!Guess
      <4> QED BY <1>3, <1>7, <2>2, <4>1 DEF Wrong
    <3> QED BY <3>1 DEF LoginInv, GuessesBounded
  <2> QED BY <2>1, <2>2
<1> QED BY <1>2, <1>5, <1>6, <1>8, <1>9 DEF LoginInv, Gone

\* A failure is counted.
LEMMA RecordKeeps == ASSUME LoginInv, NEW r \in Requests, Login!RecordFailedAttempt(r) PROVE LoginInv'
<1>3. PICK c : c = calls[r].client OBVIOUS
<1>1. /\ calls[r].pc = "wrong" /\ fails' = [fails EXCEPT ![c] = fails[c] + 1]
      /\ calls' = [calls EXCEPT ![r] = Login!Idle] /\ UNCHANGED <<now, keys, mem, rows, made, ended>>
  BY <1>3 DEF Login!RecordFailedAttempt, Login!Answer
<1>2. c \in Clients /\ fails[c] \in Nat BY <1>1, <1>3 DEF LoginInv, CallSound, LoginTypes
<1>0. Login!Idle \in CallSet BY IdleCall
<1>5. LoginTypes' BY <1>0, <1>1, <1>2 DEF LoginInv, LoginTypes
<1>6. Login!CacheBacked' BY <1>1 DEF LoginInv, Login!CacheBacked
<1>7. /\ calls'[r] = Login!Idle /\ \A q \in Requests \ {r} : calls'[q] = calls[q]
  BY <1>1 DEF LoginInv, LoginTypes
<1>8. \A q \in Requests : CallSound(q)'
  <2>1. CallSound(r)' BY <1>7, IdleCall DEF CallSound, Asking
  <2>2. ASSUME NEW q \in Requests \ {r} PROVE CallSound(q)'
    BY <1>1, <1>7 DEF LoginInv, CallSound, Gone
  <2> QED BY <2>1, <2>2
<1>9. GuessesBounded'
  <2> SUFFICES ASSUME NEW d \in Clients
               PROVE  fails'[d] + Cardinality(Wrong(d)') <= MaxFailedLoginAttempts - 1 + Cardinality(Requests)
    BY DEF GuessesBounded
  <2>0. fails[d] + Cardinality(Wrong(d)) <= MaxFailedLoginAttempts - 1 + Cardinality(Requests)
    BY DEF LoginInv, GuessesBounded
  <2>1. CASE d = c
    <3>1. Wrong(c)' = Wrong(c) \ {r} BY <1>7, IdleCall DEF Wrong
    <3>2. r \in Wrong(c) BY <1>1, <1>3 DEF Wrong
    <3>3. Cardinality(Wrong(c)') = Cardinality(Wrong(c)) - 1
      BY <3>1, <3>2, WrongFinite, FS_RemoveElement
    <3>4. fails'[c] = fails[c] + 1 BY <1>1, <1>2 DEF LoginInv, LoginTypes
    <3>5. Cardinality(Wrong(c)) \in Nat BY WrongFinite
    <3> QED BY <1>2, <2>0, <2>1, <3>3, <3>4, <3>5
  <2>2. CASE d # c
    <3>1. Wrong(d)' = Wrong(d) BY <1>1, <1>3, <1>7, <2>2, IdleCall DEF Wrong
    <3>2. fails'[d] = fails[d] BY <1>1, <2>2 DEF LoginInv, LoginTypes
    <3> QED BY <2>0, <3>1, <3>2
  <2> QED BY <2>1, <2>2
<1> QED BY <1>1, <1>5, <1>6, <1>8, <1>9 DEF LoginInv, Gone

\* A step of a request that counts no failed attempt.
LEMMA Calmed ==
  ASSUME LoginInv, NEW r \in Requests, NEW call \in CallSet, calls' = [calls EXCEPT ![r] = call],
         call.pc # "wrong", UNCHANGED <<now, keys, fails>>
  PROVE  /\ calls' \in [Requests -> CallSet] /\ calls'[r] = call
         /\ \A q \in Requests \ {r} : calls'[q] = calls[q]
         /\ fails' \in [Clients -> Nat] /\ \A c \in Clients : fails'[c] \in {fails[c], 0}
BY DEF LoginInv, LoginTypes

\* The tables stay sound: what is written is in both, what leaves memory may stay in the table.
LEMMA Tables ==
  ASSUME LoginInv, mem' \in [Tokens -> Login!Sessions], rows' \in [Tokens -> Login!Sessions],
         \A t \in Tokens : \/ mem'[t] = Login!None
                           \/ mem'[t] = mem[t] /\ rows'[t] = rows[t]
                           \/ mem'[t] = rows'[t]
  PROVE  Login!CacheBacked'
BY DEF LoginInv, Login!CacheBacked

\* cleanupExpiredLocked removes the same sessions from memory and from the table.
LEMMA UnexpiredIs ==
  ASSUME LoginInv
  PROVE  /\ Login!Unexpired(mem) \in [Tokens -> Login!Sessions]
         /\ Login!Unexpired(rows) \in [Tokens -> Login!Sessions]
         /\ \A t \in Tokens :
              /\ Login!Unexpired(mem)[t] \in {mem[t], Login!None}
              /\ Login!Unexpired(rows)[t] \in {rows[t], Login!None}
              /\ Login!Unexpired(mem)[t] # Login!None => Login!Unexpired(rows)[t] = Login!Unexpired(mem)[t]
                                                         /\ rows[t] = Login!Unexpired(mem)[t]
<1>1. Login!None \in Login!Sessions BY DEF Login!Sessions
<1>2. \A t \in Tokens : mem[t] # Login!None => rows[t] = mem[t] BY DEF LoginInv, Login!CacheBacked
<1> QED BY <1>1, <1>2 DEF LoginInv, LoginTypes, Login!Unexpired

\* A request that changes no table.
LEMMA QuietKeeps ==
  ASSUME LoginInv, NEW r \in Requests, NEW call \in CallSet, calls' = [calls EXCEPT ![r] = call],
         call.pc # "wrong", UNCHANGED <<now, keys, mem, rows, fails, made, ended>>,
         call.pc \in Asking => call.token \in made,
         call.late => call.token \in ended /\ call.pc \notin {"admin", "api_key_viewer"},
         call.pc = "clear" => Gone(call.token)
  PROVE  LoginInv'
<1>1. /\ calls' \in [Requests -> CallSet] /\ calls'[r] = call
      /\ \A q \in Requests \ {r} : calls'[q] = calls[q]
      /\ fails' \in [Clients -> Nat] /\ \A c \in Clients : fails'[c] \in {fails[c], 0}
  BY Calmed
<1>2. LoginTypes' BY <1>1 DEF LoginInv, LoginTypes
<1>3. Login!CacheBacked' BY DEF LoginInv, Login!CacheBacked
<1>4. CallSound(r)' BY <1>1 DEF CallSound, Gone
<1>5. \A t \in made : Gone(t) => Gone(t)' BY DEF Gone
<1> QED BY <1>1, <1>2, <1>3, <1>4, <1>5, LoginFrame

\* A request that changes the tables and remembers no new token.
LEMMA WritingKeeps ==
  ASSUME LoginInv, NEW r \in Requests, NEW call \in CallSet, calls' = [calls EXCEPT ![r] = call],
         call.pc # "wrong", UNCHANGED <<now, keys, fails, made, ended>>,
         mem' \in [Tokens -> Login!Sessions], rows' \in [Tokens -> Login!Sessions],
         Login!CacheBacked', \A t \in made : Gone(t) => Gone(t)',
         call.pc \in Asking => call.token \in made,
         call.late => call.token \in ended /\ call.pc \notin {"admin", "api_key_viewer"},
         call.pc = "clear" => Gone(call.token)'
  PROVE  LoginInv'
<1>1. /\ calls' \in [Requests -> CallSet] /\ calls'[r] = call
      /\ \A q \in Requests \ {r} : calls'[q] = calls[q]
      /\ fails' \in [Clients -> Nat] /\ \A c \in Clients : fails'[c] \in {fails[c], 0}
  BY Calmed
<1>2. LoginTypes' BY <1>1 DEF LoginInv, LoginTypes
<1>4. CallSound(r)' BY <1>1 DEF CallSound, Gone
<1> QED BY <1>1, <1>2, <1>4, LoginFrame

\* A request goes on.
LEMMA WithPc ==
  ASSUME LoginInv, NEW r \in Requests, NEW p \in Pcs, Login!Goto(r, p)
  PROVE  \E call \in CallSet :
           /\ calls' = [calls EXCEPT ![r] = call]
           /\ call.pc = p /\ call.token = calls[r].token /\ call.late = calls[r].late
<1>1. calls[r] \in CallSet BY DEF LoginInv, LoginTypes
<1>2. calls' = [calls EXCEPT ![r] = [calls[r] EXCEPT !.pc = p]] BY DEF Login!Goto
<1> DEFINE call == [calls[r] EXCEPT !.pc = p]
<1>3. call \in CallSet /\ call.pc = p /\ call.token = calls[r].token /\ call.late = calls[r].late
  BY <1>1 DEF CallSet
<1> QED BY <1>2, <1>3

\* A request is admitted, or answered.
LEMMA Admitted ==
  ASSUME LoginInv, NEW r \in Requests, NEW s \in Login!Sessions, s # Login!None, Login!Admit(r, s)
  PROVE  \E call \in CallSet :
           /\ calls' = [calls EXCEPT ![r] = call]
           /\ \/ call = Login!Idle
              \/ /\ call.pc \in {"admin", "api_key_viewer"} /\ call.token = calls[r].token
                 /\ call.late = calls[r].late
<1>1. calls[r] \in CallSet BY DEF LoginInv, LoginTypes
<1>2. CASE calls[r].purpose \in {"session", s.role}
  <2>1. s.role \in {"admin", "api_key_viewer"} /\ s.key \in ApiKeyIds \union {Login!NoKey}
    BY DEF Login!Sessions, Login!Admin, Login!Viewer
  <2>2. calls' = [calls EXCEPT ![r].pc = s.role, ![r].key = s.key] BY <1>2 DEF Login!Admit
  <2> DEFINE call == [calls[r] EXCEPT !.pc = s.role, !.key = s.key]
  <2>3. calls' = [calls EXCEPT ![r] = call] BY <2>2 DEF LoginInv, LoginTypes
  <2>4. /\ call \in CallSet /\ call.pc = s.role /\ call.token = calls[r].token
        /\ call.late = calls[r].late
    BY <1>1, <2>1 DEF CallSet, Pcs
  <2> QED BY <2>1, <2>3, <2>4
<1>3. CASE calls[r].purpose \notin {"session", s.role}
  <2>1. calls' = [calls EXCEPT ![r] = Login!Idle] BY <1>3 DEF Login!Admit, Login!Answer
  <2> QED BY <2>1, IdleCall
<1> QED BY <1>2, <1>3

\* The table fails: the request is answered, and the history stays.
LEMMA Failed ==
  ASSUME LoginInv, NEW r \in Requests, NEW left, Login!StoreFails(r, left), UNCHANGED <<now, keys, fails>>,
         mem' \in [Tokens -> Login!Sessions], left \in [Tokens -> Login!Sessions],
         \A t \in Tokens : mem'[t] = Login!None \/ mem'[t] = left[t],
         \A t \in made : Gone(t) => mem'[t] = Login!None /\ left[t] = Login!None
  PROVE  LoginInv'
<1>1. rows' = left /\ calls' = [calls EXCEPT ![r] = Login!Idle] /\ UNCHANGED <<made, ended>>
  BY DEF Login!StoreFails, Login!Answer
<1>2. Login!CacheBacked' BY <1>1 DEF Login!CacheBacked
<1>3. \A t \in made : Gone(t) => Gone(t)' BY <1>1 DEF Gone
<1> QED BY <1>1, <1>2, <1>3, IdleCall, WritingKeeps DEF Asking

\* Get reads memory: a session found there is of a token that was not removed.
LEMMA GetCachedKeeps == ASSUME LoginInv, NEW r \in Requests, Login!GetCached(r) PROVE LoginInv'
<1>1. UNCHANGED <<now, keys, mem, rows, fails, made, ended>> /\ calls[r].pc = "get" BY DEF Login!GetCached
<1>2. /\ CallSound(r) /\ calls[r].token \in made /\ made \subseteq Tokens /\ ended \subseteq made
      /\ mem[calls[r].token] \in Login!Sessions
  BY <1>1 DEF LoginInv, CallSound, Asking, LoginTypes
<1>3. ASSUME NEW p \in {"load", "expire"}, Login!Goto(r, p) PROVE LoginInv'
  <2>0. p \in Pcs BY <1>3 DEF Pcs
  <2>1. PICK call \in CallSet :
          /\ calls' = [calls EXCEPT ![r] = call]
          /\ call.pc = p /\ call.token = calls[r].token /\ call.late = calls[r].late
    BY <1>3, <2>0, WithPc
  <2> QED BY <1>1, <1>2, <1>3, <2>1, QuietKeeps DEF CallSound
<1>4. ASSUME Login!Live(mem[calls[r].token]), Login!Admit(r, mem[calls[r].token]) PROVE LoginInv'
  <2>1. mem[calls[r].token] # Login!None BY <1>4 DEF Login!Live
  <2>2. PICK call \in CallSet :
          /\ calls' = [calls EXCEPT ![r] = call]
          /\ \/ call = Login!Idle
             \/ /\ call.pc \in {"admin", "api_key_viewer"} /\ call.token = calls[r].token
                /\ call.late = calls[r].late
    BY <1>2, <1>4, <2>1, Admitted
  <2>3. ~calls[r].late BY <1>2, <2>1 DEF CallSound, LoginInv, Gone
  <2> QED BY <1>1, <1>2, <2>2, <2>3, IdleCall, QuietKeeps DEF Asking
<1> QED BY <1>3, <1>4 DEF Login!GetCached

\* getPersisted loads a session from the table.
LEMMA GetPersistedKeeps == ASSUME LoginInv, NEW r \in Requests, Login!GetPersisted(r) PROVE LoginInv'
<1>1. UNCHANGED <<now, keys, fails>> /\ calls[r].pc = "load" BY DEF Login!GetPersisted
<1>0. PICK t : t = calls[r].token OBVIOUS
<1> DEFINE s == IF mem[t] # Login!None THEN mem[t] ELSE rows[t]
<1>2. /\ CallSound(r) /\ t \in made /\ t \in Tokens /\ ended \subseteq made /\ made \subseteq Tokens
      /\ mem \in [Tokens -> Login!Sessions] /\ rows \in [Tokens -> Login!Sessions]
      /\ \A u \in Tokens : mem[u] # Login!None => rows[u] = mem[u]
  BY <1>0, <1>1 DEF LoginInv, CallSound, Asking, LoginTypes, Login!CacheBacked
<1>3. s = rows[t] /\ s \in Login!Sessions /\ Login!None \in Login!Sessions BY <1>2 DEF Login!Sessions
<1>4. CASE /\ Login!Live(s) /\ mem' = [mem EXCEPT ![t] = s] /\ Login!Admit(r, s)
           /\ UNCHANGED <<rows, errors, limits, made, ended>>
  <2>1. s # Login!None BY <1>4 DEF Login!Live
  <2> HIDE DEF s
  <2>2. PICK call \in CallSet :
          /\ calls' = [calls EXCEPT ![r] = call]
          /\ \/ call = Login!Idle
             \/ /\ call.pc \in {"admin", "api_key_viewer"} /\ call.token = calls[r].token
                /\ call.late = calls[r].late
    BY <1>3, <1>4, <2>1, Admitted
  <2>3. ~calls[r].late BY <1>0, <1>2, <1>3, <2>1 DEF CallSound, LoginInv, Gone
  <2>4. mem' \in [Tokens -> Login!Sessions] /\ Login!CacheBacked'
    BY <1>2, <1>3, <1>4 DEF Login!CacheBacked
  <2>5. \A u \in made : Gone(u) => Gone(u)' BY <1>2, <1>3, <1>4, <2>1 DEF Gone
  <2> QED BY <1>0, <1>1, <1>2, <1>4, <2>2, <2>3, <2>4, <2>5, IdleCall, WritingKeeps DEF Asking
<1>5. CASE /\ ~Login!Live(s) /\ Login!Goto(r, "refuse")
           /\ mem' = [mem EXCEPT ![t] = Login!None] /\ rows' = [rows EXCEPT ![t] = Login!None]
           /\ UNCHANGED <<errors, limits, made, ended>>
  <2>0. "refuse" \in Pcs BY DEF Pcs
  <2>1. PICK call \in CallSet :
          /\ calls' = [calls EXCEPT ![r] = call]
          /\ call.pc = "refuse" /\ call.token = t /\ call.late = calls[r].late
    BY <1>0, <1>5, <2>0, WithPc
  <2> HIDE DEF s
  <2>2. mem' \in [Tokens -> Login!Sessions] /\ rows' \in [Tokens -> Login!Sessions] /\ Login!CacheBacked'
    BY <1>2, <1>3, <1>5 DEF Login!CacheBacked
  <2>3. \A u \in made : Gone(u) => Gone(u)' BY <1>2, <1>5 DEF Gone
  <2> QED BY <1>0, <1>1, <1>2, <1>5, <2>1, <2>2, <2>3, WritingKeeps DEF CallSound
<1>6. CASE /\ mem' = [mem EXCEPT ![t] = IF Login!Live(s) THEN @ ELSE Login!None]
           /\ mem[t] = Login!None \/ ~Login!Live(s)
           /\ Login!StoreFails(r, rows)
  <2> HIDE DEF s
  <2>1. mem' \in [Tokens -> Login!Sessions] BY <1>2, <1>3, <1>6
  <2>2. \A u \in Tokens : mem'[u] = Login!None \/ mem'[u] = rows[u] BY <1>2, <1>6
  <2>3. \A u \in made : Gone(u) => mem'[u] = Login!None /\ rows[u] = Login!None BY <1>2, <1>6 DEF Gone
  <2> QED BY <1>1, <1>2, <1>6, <2>1, <2>2, <2>3, Failed
<1> QED BY <1>0, <1>4, <1>5, <1>6 DEF Login!GetPersisted

\* Delete removes a session from memory and from the table.
LEMMA DeleteKeeps == ASSUME LoginInv, NEW r \in Requests, Login!Delete(r) PROVE LoginInv'
<1>1. UNCHANGED <<now, keys, fails>> /\ calls[r].pc \in {"expire", "refuse"} BY DEF Login!Delete
<1>0. PICK t, p : t = calls[r].token /\ p = IF calls[r].pc = "expire" THEN "refuse" ELSE "clear" OBVIOUS
<1>2. /\ CallSound(r) /\ t \in made /\ t \in Tokens /\ ended \subseteq made /\ made \subseteq Tokens
      /\ mem \in [Tokens -> Login!Sessions] /\ rows \in [Tokens -> Login!Sessions]
      /\ \A u \in Tokens : mem[u] # Login!None => rows[u] = mem[u]
      /\ Login!None \in Login!Sessions
  BY <1>0, <1>1 DEF LoginInv, CallSound, Asking, LoginTypes, Login!CacheBacked, Login!Sessions
<1>3. CASE Login!Forget(t) /\ Login!Goto(r, p) /\ UNCHANGED <<errors, limits, made, ended>>
  <2>0. p \in {"refuse", "clear"} /\ p \in Pcs BY <1>0 DEF Pcs
  <2>1. PICK call \in CallSet :
          /\ calls' = [calls EXCEPT ![r] = call]
          /\ call.pc = p /\ call.token = t /\ call.late = calls[r].late
    BY <1>0, <1>3, <2>0, WithPc
  <2>2. mem' = [mem EXCEPT ![t] = Login!None] /\ rows' = [rows EXCEPT ![t] = Login!None]
    BY <1>3 DEF Login!Forget
  <2>3. mem' \in [Tokens -> Login!Sessions] /\ rows' \in [Tokens -> Login!Sessions] /\ Login!CacheBacked'
    BY <1>2, <2>2 DEF Login!CacheBacked
  <2>4. \A u \in Tokens : (u = t \/ Gone(u)) => Gone(u)' BY <1>2, <2>2 DEF Gone
  <2>5. Gone(call.token)' BY <1>2, <2>1, <2>4
  <2> QED BY <1>0, <1>1, <1>2, <1>3, <2>0, <2>1, <2>3, <2>4, <2>5, WritingKeeps DEF CallSound
<1>4. CASE mem' = [mem EXCEPT ![t] = Login!None] /\ Login!StoreFails(r, rows)
  <2>1. mem' \in [Tokens -> Login!Sessions] BY <1>2, <1>4
  <2>2. \A u \in Tokens : mem'[u] = Login!None \/ mem'[u] = rows[u] BY <1>2, <1>4
  <2>3. \A u \in made : Gone(u) => mem'[u] = Login!None /\ rows[u] = Login!None BY <1>2, <1>4 DEF Gone
  <2> QED BY <1>1, <1>2, <1>4, <2>1, <2>2, <2>3, Failed
<1> QED BY <1>0, <1>3, <1>4 DEF Login!Delete

\* clearSessionState answers a removal: the session is gone.
LEMMA ClearKeeps == ASSUME LoginInv, NEW r \in Requests, Login!ClearSessionState(r) PROVE LoginInv'
<1>0. PICK t : t = calls[r].token OBVIOUS
<1>1. /\ calls[r].pc = "clear" /\ ended' = ended \union {t} /\ calls' = [calls EXCEPT ![r] = Login!Idle]
      /\ UNCHANGED <<now, keys, mem, rows, fails, made>>
  BY <1>0 DEF Login!ClearSessionState, Login!Answer
<1>2. t \in made /\ Gone(t) /\ ended \subseteq made
  BY <1>0, <1>1 DEF LoginInv, CallSound, Asking, LoginTypes
<1>3. /\ calls' \in [Requests -> CallSet] /\ calls'[r] = Login!Idle
      /\ \A q \in Requests \ {r} : calls'[q] = calls[q]
      /\ fails' \in [Clients -> Nat] /\ \A c \in Clients : fails'[c] \in {fails[c], 0}
  BY <1>1, IdleCall, Calmed
<1>4. LoginTypes' BY <1>1, <1>2, <1>3 DEF LoginInv, LoginTypes
<1>5. Login!CacheBacked' BY <1>1 DEF LoginInv, Login!CacheBacked
<1>6. CallSound(r)' BY <1>3, IdleCall DEF CallSound, Asking
<1>7. \A u \in made : Gone(u) => Gone(u)' BY <1>1 DEF Gone
<1> QED BY <1>1, <1>2, <1>3, <1>4, <1>5, <1>6, <1>7, IdleCall, LoginFrame

\* A request with a token begins.
LEMMA AskKeeps == ASSUME LoginInv, NEW r \in Requests, Login!Ask(r) PROVE LoginInv'
<1>1. PICK t \in made, p \in Login!Purposes :
        calls' = [calls EXCEPT ![r] = [Login!Idle EXCEPT !.token = t, !.purpose = p, !.late = t \in ended,
                                         !.pc = IF p = "logout" THEN "refuse" ELSE "get"]]
  BY DEF Login!Ask
<1>2. UNCHANGED <<now, keys, mem, rows, fails, made, ended>> BY DEF Login!Ask
<1>3. PICK call : call = [Login!Idle EXCEPT !.token = t, !.purpose = p, !.late = t \in ended,
                                         !.pc = IF p = "logout" THEN "refuse" ELSE "get"]
  OBVIOUS
<1>4. t \in Tokens BY DEF LoginInv, LoginTypes
<1>5. PICK late \in BOOLEAN : late = (t \in ended)
  <2>1. (t \in ended) \in BOOLEAN OBVIOUS
  <2> QED BY <2>1, Zenon
<1>6. PICK pc \in {"refuse", "get"} : pc = IF p = "logout" THEN "refuse" ELSE "get" OBVIOUS
<1>7. call = [pc |-> pc, token |-> t, purpose |-> p, key |-> Login!NoKey, client |-> "", late |-> late]
  BY <1>3, <1>5, <1>6 DEF Login!Idle
<1>8. call \in CallSet /\ call.pc = pc /\ call.token = t /\ call.late = late
  BY <1>4, <1>7 DEF CallSet, Pcs
<1>9. calls' = [calls EXCEPT ![r] = call] BY <1>1, <1>3
<1> QED BY <1>2, <1>5, <1>6, <1>8, <1>9, QuietKeeps

\* A viewer's key is looked up.
LEMMA FindKeeps == ASSUME LoginInv, NEW r \in Requests, Login!FindActiveKey(r) PROVE LoginInv'
<1>1. calls[r].pc = "api_key_viewer" /\ UNCHANGED <<now, keys, mem, rows, fails, made, ended>>
  BY DEF Login!FindActiveKey, Login!Viewer
<1>2. CallSound(r) BY DEF LoginInv
<1>3. CASE Login!Answer(r)
  <2>1. calls' = [calls EXCEPT ![r] = Login!Idle] BY <1>3 DEF Login!Answer
  <2> QED BY <1>1, <2>1, IdleCall, QuietKeeps DEF Asking
<1>4. CASE Login!Goto(r, "refuse")
  <2>0. "refuse" \in Pcs BY DEF Pcs
  <2>1. PICK call \in CallSet :
          /\ calls' = [calls EXCEPT ![r] = call]
          /\ call.pc = "refuse" /\ call.token = calls[r].token /\ call.late = calls[r].late
    BY <1>4, <2>0, WithPc
  <2>2. calls[r].token \in made BY <1>1, <1>2 DEF CallSound, Asking
  <2> QED BY <1>1, <1>2, <2>1, <2>2, QuietKeeps DEF CallSound
<1> QED BY <1>3, <1>4 DEF Login!FindActiveKey

\* A request of an administrator is answered.
LEMMA AnsweredKeeps == ASSUME LoginInv, NEW r \in Requests, Login!AdminAnswered(r) PROVE LoginInv'
<1>1. calls' = [calls EXCEPT ![r] = Login!Idle] /\ UNCHANGED <<now, keys, mem, rows, fails, made, ended>>
  BY DEF Login!AdminAnswered, Login!Answer
<1> QED BY <1>1, IdleCall, QuietKeeps DEF Asking

\* The sessions are listed.
LEMMA ListKeeps == ASSUME LoginInv, NEW r \in Requests, Login!ListManagedSessions(r) PROVE LoginInv'
<1>1. UNCHANGED <<now, keys, fails>> /\ mem' = Login!Unexpired(mem) BY DEF Login!ListManagedSessions
<1>2. made \subseteq Tokens /\ rows \in [Tokens -> Login!Sessions] BY DEF LoginInv, LoginTypes
<1>3. CASE rows' = Login!Unexpired(rows) /\ Login!Answer(r) /\ UNCHANGED <<errors, limits, made, ended>>
  <2>1. calls' = [calls EXCEPT ![r] = Login!Idle] BY <1>3 DEF Login!Answer
  <2>2. Login!CacheBacked' BY <1>1, <1>3, UnexpiredIs DEF Login!CacheBacked
  <2>3. \A t \in made : Gone(t) => Gone(t)' BY <1>1, <1>2, <1>3, UnexpiredIs DEF Gone
  <2>4. mem' \in [Tokens -> Login!Sessions] /\ rows' \in [Tokens -> Login!Sessions]
    BY <1>1, <1>3, UnexpiredIs
  <2> QED BY <1>1, <1>3, <2>1, <2>2, <2>3, <2>4, IdleCall, WritingKeeps DEF Asking
<1>4. CASE Login!StoreFails(r, rows)
  <2>1. mem' \in [Tokens -> Login!Sessions] BY <1>1, UnexpiredIs
  <2>2. \A t \in Tokens : mem'[t] = Login!None \/ mem'[t] = rows[t] BY <1>1, UnexpiredIs
  <2>3. \A t \in made : Gone(t) => mem'[t] = Login!None /\ rows[t] = Login!None
    BY <1>1, <1>2, UnexpiredIs DEF Gone
  <2> QED BY <1>1, <1>2, <1>4, <2>1, <2>2, <2>3, Failed
<1> QED BY <1>3, <1>4 DEF Login!ListManagedSessions

\* A session is made with a token that was never drawn.
LEMMA LogInKeeps == ASSUME LoginInv, NEW r \in Requests, Login!LogIn(r) PROVE LoginInv'
<1>1. PICK c \in Clients, t \in Tokens \ made, k \in keys \union {Login!NoKey} :
        /\ fails' = [fails EXCEPT ![c] = 0]
        /\ Login!Create(r, t, [role |-> IF k = Login!NoKey THEN Login!Admin ELSE Login!Viewer,
                               key |-> k, exp |-> now + Ttl])
  BY DEF Login!LogIn
<1>2. PICK s : s = [role |-> IF k = Login!NoKey THEN Login!Admin ELSE Login!Viewer,
                    key |-> k, exp |-> now + Ttl]
  OBVIOUS
<1>3. UNCHANGED <<now, keys>> /\ calls[r] = Login!Idle BY DEF Login!LogIn
<1>4. s \in Login!Sessions
  <2>1. now + Ttl \in Nat /\ keys \subseteq ApiKeyIds BY SessionBounds DEF LoginInv, LoginTypes
  <2> QED BY <1>2, <2>1 DEF Login!Sessions, Login!NoKey
<1>5. /\ made \subseteq Tokens /\ ended \subseteq made
      /\ mem \in [Tokens -> Login!Sessions] /\ rows \in [Tokens -> Login!Sessions]
      /\ fails' \in [Clients -> Nat] /\ \A d \in Clients : fails'[d] \in {fails[d], 0}
  BY <1>1 DEF LoginInv, LoginTypes
<1>6. CASE /\ mem' = [Login!Unexpired(mem) EXCEPT ![t] = s]
           /\ rows' = [Login!Unexpired(rows) EXCEPT ![t] = s]
           /\ made' = made \union {t} /\ UNCHANGED <<calls, limits, errors, ended>>
  <2>1. mem' \in [Tokens -> Login!Sessions] /\ rows' \in [Tokens -> Login!Sessions]
    BY <1>4, <1>6, UnexpiredIs
  <2>2. Login!CacheBacked' BY <1>6, UnexpiredIs DEF Login!CacheBacked
  <2>3. LoginTypes' BY <1>1, <1>3, <1>5, <1>6, <2>1 DEF LoginInv, LoginTypes
  <2>4. \A u \in made : Gone(u) => Gone(u)' BY <1>1, <1>5, <1>6, UnexpiredIs DEF Gone
  <2>5. CallSound(r)' BY <1>3, <1>6, IdleCall DEF CallSound, Asking
  <2> QED BY <1>3, <1>5, <1>6, <2>2, <2>3, <2>4, <2>5, IdleCall, LoginFrame
<1>7. ASSUME NEW left \in {rows, Login!Unexpired(rows)}, mem' = Login!Unexpired(mem), Login!StoreFails(r, left)
      PROVE  LoginInv'
  <2>1. rows' = left /\ calls' = [calls EXCEPT ![r] = Login!Idle] /\ UNCHANGED <<made, ended>>
    BY <1>7 DEF Login!StoreFails, Login!Answer
  <2>2. /\ calls' \in [Requests -> CallSet] /\ calls'[r] = Login!Idle
        /\ \A q \in Requests \ {r} : calls'[q] = calls[q]
    BY <2>1, IdleCall DEF LoginInv, LoginTypes
  <2>3. mem' \in [Tokens -> Login!Sessions] /\ rows' \in [Tokens -> Login!Sessions]
    BY <1>5, <1>7, <2>1, UnexpiredIs
  <2>4. Login!CacheBacked' BY <1>7, <2>1, UnexpiredIs DEF Login!CacheBacked
  <2>5. LoginTypes' BY <1>3, <1>5, <2>1, <2>2, <2>3 DEF LoginInv, LoginTypes
  <2>6. \A u \in made : Gone(u) => Gone(u)' BY <1>5, <1>7, <2>1, UnexpiredIs DEF Gone
  <2>7. CallSound(r)' BY <2>2, IdleCall DEF CallSound, Asking
  <2> QED BY <1>5, <2>1, <2>2, <2>4, <2>5, <2>6, <2>7, IdleCall, LoginFrame
<1> QED BY <1>1, <1>2, <1>6, <1>7 DEF Login!Create

\* An administrator revokes a session.
LEMMA RevokeKeeps == ASSUME LoginInv, NEW r \in Requests, Login!RevokeManagedSession(r) PROVE LoginInv'
<1>1. calls[r].pc = "admin" /\ UNCHANGED <<now, keys, fails>> BY DEF Login!RevokeManagedSession, Login!Admin
<1>2. PICK t \in made :
        LET kept == [Login!Unexpired(mem) EXCEPT ![t] = Login!None]
            left == [Login!Unexpired(rows) EXCEPT ![t] = Login!None] IN
        \/ /\ mem' = kept /\ rows' = left
           /\ calls' = [calls EXCEPT ![r] =
                IF Login!Live(mem[t]) \/ Login!Live(rows[t])
                  THEN [calls[r] EXCEPT !.pc = "clear", !.token = t] ELSE Login!Idle]
           /\ UNCHANGED <<errors, limits, made, ended>>
        \/ mem' = Login!Unexpired(mem) /\ Login!StoreFails(r, rows)
        \/ mem' = kept /\ Login!StoreFails(r, Login!Unexpired(rows))
  BY DEF Login!RevokeManagedSession
<1>3. /\ made \subseteq Tokens /\ ended \subseteq made /\ t \in Tokens /\ calls[r] \in CallSet
      /\ mem \in [Tokens -> Login!Sessions] /\ rows \in [Tokens -> Login!Sessions]
      /\ ~calls[r].late /\ Login!None \in Login!Sessions
  BY <1>1 DEF LoginInv, LoginTypes, CallSound, Login!Sessions
<1> DEFINE kept == [Login!Unexpired(mem) EXCEPT ![t] = Login!None]
           left == [Login!Unexpired(rows) EXCEPT ![t] = Login!None]
<1>4. /\ kept \in [Tokens -> Login!Sessions] /\ left \in [Tokens -> Login!Sessions]
      /\ kept[t] = Login!None /\ left[t] = Login!None
      /\ \A u \in Tokens : kept[u] = Login!None \/ (kept[u] = left[u] /\ kept[u] = Login!Unexpired(rows)[u])
      /\ \A u \in Tokens : Gone(u) => kept[u] = Login!None /\ left[u] = Login!None
  BY <1>3, UnexpiredIs DEF Gone
<1>5. CASE /\ mem' = kept /\ rows' = left
           /\ calls' = [calls EXCEPT ![r] =
                IF Login!Live(mem[t]) \/ Login!Live(rows[t])
                  THEN [calls[r] EXCEPT !.pc = "clear", !.token = t] ELSE Login!Idle]
           /\ UNCHANGED <<errors, limits, made, ended>>
  <2>1. PICK call \in CallSet :
          /\ calls' = [calls EXCEPT ![r] = call]
          /\ call = Login!Idle \/ (call.pc = "clear" /\ call.token = t /\ call.late = calls[r].late)
    <3>1. CASE Login!Live(mem[t]) \/ Login!Live(rows[t])
      <4> DEFINE call == [calls[r] EXCEPT !.pc = "clear", !.token = t]
      <4>1. calls' = [calls EXCEPT ![r] = call] BY <1>5, <3>1
      <4>2. call \in CallSet /\ call.pc = "clear" /\ call.token = t /\ call.late = calls[r].late
        BY <1>3 DEF CallSet, Pcs
      <4> QED BY <4>1, <4>2
    <3>2. CASE ~(Login!Live(mem[t]) \/ Login!Live(rows[t]))
      <4>1. calls' = [calls EXCEPT ![r] = Login!Idle] BY <1>5, <3>2
      <4> QED BY <4>1, IdleCall
    <3> QED BY <3>1, <3>2
  <2> HIDE DEF kept, left
  <2>2. mem' \in [Tokens -> Login!Sessions] /\ rows' \in [Tokens -> Login!Sessions] BY <1>4, <1>5
  <2>3. Login!CacheBacked' BY <1>4, <1>5 DEF Login!CacheBacked
  <2>4. \A u \in Tokens : Gone(u) => Gone(u)' BY <1>4, <1>5 DEF Gone
  <2>5. Gone(t)' BY <1>3, <1>4, <1>5 DEF Gone
  <2> QED BY <1>1, <1>3, <1>5, <2>1, <2>2, <2>3, <2>4, <2>5, IdleCall, WritingKeeps DEF Asking
<1>6. CASE mem' = Login!Unexpired(mem) /\ Login!StoreFails(r, rows)
  <2>1. mem' \in [Tokens -> Login!Sessions] BY <1>6, UnexpiredIs
  <2>2. \A u \in Tokens : mem'[u] = Login!None \/ mem'[u] = rows[u] BY <1>6, UnexpiredIs
  <2>3. \A u \in made : Gone(u) => mem'[u] = Login!None /\ rows[u] = Login!None
    BY <1>3, <1>6, UnexpiredIs DEF Gone
  <2> QED BY <1>1, <1>3, <1>6, <2>1, <2>2, <2>3, Failed
<1>7. CASE mem' = kept /\ Login!StoreFails(r, Login!Unexpired(rows))
  <2>1. mem' \in [Tokens -> Login!Sessions] /\ Login!Unexpired(rows) \in [Tokens -> Login!Sessions]
    BY <1>4, <1>7, UnexpiredIs
  <2>2. \A u \in Tokens : mem'[u] = Login!None \/ mem'[u] = Login!Unexpired(rows)[u] BY <1>4, <1>7
  <2>3. \A u \in made : Gone(u) => mem'[u] = Login!None /\ Login!Unexpired(rows)[u] = Login!None
    BY <1>3, <1>4, <1>7, UnexpiredIs DEF Gone
  <2> QED BY <1>1, <1>7, <2>1, <2>2, <2>3, Failed
<1> QED BY <1>2, <1>5, <1>6, <1>7

\* Every step.
LEMMA LoginStepKeeps == ASSUME LoginInv, Login!Next PROVE LoginInv'
<1>1. CASE Login!Tick \/ Login!KeyRemoved BY <1>1, OutsideKeeps
<1>2. CASE Login!Restart BY <1>2, RestartKeeps
<1>3. ASSUME NEW r \in Requests, Login!Guess(r) \/ Login!RecordFailedAttempt(r) \/ Login!LogIn(r) PROVE LoginInv'
  BY <1>3, GuessKeeps, RecordKeeps, LogInKeeps
<1>4. ASSUME NEW r \in Requests,
             \/ Login!Ask(r) \/ Login!GetCached(r) \/ Login!GetPersisted(r)
             \/ Login!Delete(r) \/ Login!ClearSessionState(r)
      PROVE  LoginInv'
  BY <1>4, AskKeeps, GetCachedKeeps, GetPersistedKeeps, DeleteKeeps, ClearKeeps
<1>5. ASSUME NEW r \in Requests,
             \/ Login!FindActiveKey(r) \/ Login!AdminAnswered(r)
             \/ Login!ListManagedSessions(r) \/ Login!RevokeManagedSession(r)
      PROVE  LoginInv'
  BY <1>5, FindKeeps, AnsweredKeeps, ListKeeps, RevokeKeeps
<1> QED BY <1>1, <1>2, <1>3, <1>4, <1>5 DEF Login!Next

\* No step.
LEMMA LoginStutters == ASSUME LoginInv, UNCHANGED loginVars, UNCHANGED <<now, rows>> PROVE LoginInv'
<1>1. UNCHANGED <<now, keys, mem, rows, calls, fails, made, ended>> BY DEF loginVars
<1>2. LoginTypes' BY <1>1 DEF LoginInv, LoginTypes
<1>3. Login!CacheBacked' BY <1>1 DEF LoginInv, Login!CacheBacked
<1>4. \A r \in Requests : CallSound(r)' BY <1>1 DEF LoginInv, CallSound, Gone
<1>5. GuessesBounded' BY <1>1 DEF LoginInv, GuessesBounded, Wrong
<1> QED BY <1>1, <1>2, <1>3, <1>4, <1>5 DEF LoginInv, Gone

\* What the invariant is for.
LEMMA LoginSafe == LoginInv => Login!CacheBacked /\ Login!EndedStaysEnded /\ Login!AttemptsBounded
<1> SUFFICES ASSUME LoginInv PROVE Login!EndedStaysEnded /\ Login!AttemptsBounded BY DEF LoginInv
<1>1. Login!EndedStaysEnded BY DEF LoginInv, CallSound, Login!EndedStaysEnded, Login!Admin, Login!Viewer
<1>2. ASSUME NEW c \in Clients PROVE fails[c] < MaxFailedLoginAttempts + Cardinality(Requests)
  <2>1. fails[c] + Cardinality(Wrong(c)) <= MaxFailedLoginAttempts - 1 + Cardinality(Requests)
    BY DEF LoginInv, GuessesBounded
  <2>2. fails[c] \in Nat BY DEF LoginInv, LoginTypes
  <2> QED BY <2>1, <2>2, SessionBounds, WrongFinite
<1>3. Login!Cardinality(Requests) = Cardinality(Requests) BY DEF Login!Cardinality, Cardinality
<1> QED BY <1>1, <1>2, <1>3 DEF Login!AttemptsBounded

-----------------------------------------------------------------------------
(* All of them.                                                             *)

\* The inductive invariant of MCContent.
ContentInv ==
  /\ part = "identities" => IdInv /\ MirrorInv
  /\ part = "keys" => KeyInv
  /\ part = "prices" => PriceInv /\ PreviewInv
  /\ part = "login" => LoginInv
  /\ MidnightsAtWholeHours /\ part = "queries" => QueryInv

\* It holds at the start.
LEMMA ContentInvInit == ContentInit => ContentInv
<1> SUFFICES ASSUME ContentInit PROVE ContentInv OBVIOUS
<1>1. part = "identities" => IdInv /\ MirrorInv BY IdInvInit, MirrorInit DEF ContentInit
<1>2. part = "keys" => KeyInv BY KeyInvInit DEF ContentInit
<1>3. part = "prices" => PriceInv /\ PreviewInv BY PriceInvInit, PreviewInit DEF ContentInit
<1>4. part = "login" => LoginInv BY LoginInvInit DEF ContentInit
<1>5. part = "queries" => QueryInv BY QueryInvInit DEF ContentInit
<1> QED BY <1>1, <1>2, <1>3, <1>4, <1>5 DEF ContentInv

\* Every step keeps it, and keeps to what the identities promise of their steps.
LEMMA ContentStepKeeps ==
  ASSUME ContentInv, [ContentNext]_contentVars
  PROVE  ContentInv' /\ (part = "identities" => IdStep)
<1>1. CASE IdentityStep
  <2>1. part' = part /\ part = "identities" /\ Identities!Next BY <1>1 DEF IdentityStep
  <2>2. IdInv' /\ MirrorInv' /\ IdStep BY <2>1, IdStepKeeps, MirrorStepKeeps DEF ContentInv
  <2> QED BY <2>1, <2>2 DEF ContentInv
<1>2. CASE KeyStep
  <2>1. part' = part /\ part = "keys" /\ ApiKeys!Next BY <1>2 DEF KeyStep
  <2>2. KeyInv' BY <2>1, KeyStepKeeps DEF ContentInv
  <2> QED BY <2>1, <2>2 DEF ContentInv
<1>3. CASE PriceStep
  <2>1. part' = part /\ part = "prices" /\ Prices!Next BY <1>3 DEF PriceStep
  <2>2. PriceInv' /\ PreviewInv' BY <2>1, PriceStepKeeps, PreviewStepKeeps DEF ContentInv
  <2> QED BY <2>1, <2>2 DEF ContentInv
<1>4. CASE LoginStep
  <2>1. part' = part /\ part = "login" /\ Login!Next BY <1>4 DEF LoginStep
  <2>2. LoginInv' BY <2>1, LoginStepKeeps DEF ContentInv
  <2> QED BY <2>1, <2>2 DEF ContentInv
<1>5. CASE QueryStep
  <2>1. part' = part /\ part = "queries" /\ Next BY <1>5 DEF QueryStep
  <2>2. MidnightsAtWholeHours => QueryInv' BY <2>1, QueryStepKeeps DEF ContentInv
  <2> QED BY <2>1, <2>2 DEF ContentInv
<1>6. CASE UNCHANGED contentVars
  <2>1. part' = part /\ UNCHANGED <<identityVars, keyVars, priceVars, loginVars, now, rows, queryVars>>
    BY <1>6 DEF contentVars
  <2>2. part = "identities" => IdInv' /\ MirrorInv' /\ IdStep BY <2>1, IdStutters, MirrorStutters DEF ContentInv
  <2>3. part = "keys" => KeyInv' BY <2>1, KeyStutters DEF ContentInv
  <2>4. part = "prices" => PriceInv' /\ PreviewInv' BY <2>1, PriceStutters, PreviewStutters DEF ContentInv
  <2>5. part = "login" => LoginInv' BY <2>1, LoginStutters DEF ContentInv
  <2>6. UNCHANGED <<now, rows, offered, queue, worker, held, cached, delivered, counted, query>>
    BY <2>1 DEF queryVars
  <2>7. MidnightsAtWholeHours /\ part = "queries" => QueryInv' BY <2>6, QueryStutters DEF ContentInv
  <2> QED BY <2>1, <2>2, <2>3, <2>4, <2>5, <2>7 DEF ContentInv
<1> QED BY <1>1, <1>2, <1>3, <1>4, <1>5, <1>6 DEF ContentNext

\* The invariant is one.
LEMMA ContentInvariant == ContentSpec => []ContentInv
BY ContentInvInit, ContentStepKeeps, PTL DEF ContentSpec

(* A key has one row, however creates, updates, deletions and              *)
(* synchronisations overlap, and a key a user made or changed survives the *)
(* lists that do not name it (cpa_api_key.go).                             *)
THEOREM KeysAreKept == ContentSpec => []ApiKeysKept
<1>1. ContentInv => ApiKeysKept BY KeySafe DEF ContentInv, ApiKeysKept, OneRowPerKey, UserKeysSurvive
<1> QED BY <1>1, ContentInvariant, PTL

(* After a synchronisation without an error the identities users see are   *)
(* the ones CPA listed, with its types, and their pages neither repeat nor *)
(* skip one (SyncMetadata, ListActiveUsageIdentitiesPage).                 *)
THEOREM IdentitiesAreShown == ContentSpec => []IdentitiesShown
<1>1. ContentInv => IdentitiesShown
  <2> SUFFICES ASSUME ContentInv, part = "identities" PROVE Identities!MirrorsCpa /\ Identities!PagesCover
    BY DEF IdentitiesShown, MirrorsCpa, PagesCover
  <2>1. IdInv /\ MirrorInv BY DEF ContentInv
  <2>2. rows \in Seq(IdRow) BY <2>1 DEF IdInv, RowsSound
  <2> QED BY <2>1, <2>2, MirrorSafe, PagesSafe
<1> QED BY <1>1, ContentInvariant, PTL

(* A preview proposes the best price there is for each of its models, and  *)
(* leaves one without only if none can be used                             *)
(* (matchPricingCatalogCandidates, buildPricingSyncMatchFromCandidates).   *)
THEOREM BestIsProposed == ContentSpec => []BestProposal
<1>1. ContentInv => BestProposal BY PreviewSafe DEF ContentInv, BestProposal
<1> QED BY <1>1, ContentInvariant, PTL

(* At whatever prices users and previews leave, no token is charged twice, *)
(* no event costs less than nothing, and one without tokens costs nothing  *)
(* (UpdatePricing, usage_cost.go).                                         *)
THEOREM ChargesAreSound == ContentSpec => []ChargedSoundly
<1>1. ContentInv => ChargedSoundly BY PriceSafe DEF ContentInv, ChargedSoundly
<1> QED BY <1>1, ContentInvariant, PTL

(* A session in memory is the one in the table; a token whose removal was  *)
(* answered admits no later request, not after a restart either; guessing  *)
(* is limited (auth/session.go, api/auth.go).                              *)
THEOREM SessionsAreKept == ContentSpec => []SessionsKept
<1>1. ContentInv => SessionsKept
  BY LoginSafe DEF ContentInv, SessionsKept, CacheBacked, EndedStaysEnded, AttemptsBounded
<1> QED BY <1>1, ContentInvariant, PTL

(* An event is read the way its identity counts tokens, also of a deleted  *)
(* identity, unless it was revived between the two reads                   *)
(* (buildUsageEventTypeResolver).                                          *)
THEOREM EventsAreTyped == ContentSpec => []TypedBySteadyIdentity
<1>1. ContentInv => TypedBySteadyIdentity BY IdSafe DEF ContentInv, TypedBySteadyIdentity
<1> QED BY <1>1, ContentInvariant, PTL

(* An identity that comes back is the same row, with its name and its      *)
(* requests, and a failed request deletes no identity                      *)
(* (syncUsageIdentities, ReplaceUsageIdentitiesForProviderTypes).          *)
THEOREM IdentitiesOutlast == ContentSpec => IdentitiesLast
<1>1. ContentInv /\ [ContentNext]_contentVars => [part = "identities" => Identities!KeepsIdentity]_contentVars
  BY ContentStepKeeps DEF IdStep
<1>2. ContentInv /\ [ContentNext]_contentVars => [part = "identities" => Identities!DeletesOnlyUnlisted]_contentVars
  BY ContentStepKeeps DEF IdStep
<1>3. ContentSpec => IdentityKept BY <1>1, ContentInvariant, PTL DEF ContentSpec, IdentityKept
<1>4. ContentSpec => OnlyUnlistedDeleted BY <1>2, ContentInvariant, PTL DEF ContentSpec, OnlyUnlistedDeleted
<1> QED BY <1>3, <1>4 DEF IdentitiesLast

(* No answer counts an event twice, whatever is committed, aggregated and  *)
(* cached while its statements run, where midnights are at whole hours     *)
(* (usageOverviewRawEventWindows, usageOverviewFullDayWindow,              *)
(* sumLongUsageWindowTokenStats).                                          *)
THEOREM AnswersAddUp ==
  ASSUME MidnightsAtWholeHours
  PROVE  ContentSpec => []AnswersCountOnce
<1>1. ContentInv => AnswersCountOnce BY QuerySafe DEF ContentInv, AnswersCountOnce
<1> QED BY <1>1, ContentInvariant, PTL

(* No answer counts an event outside the range it was asked for            *)
(* (usageOverviewEffectiveFilter, loadUsageOverviewRawEventWindows-        *)
(* WithFilter).                                                            *)
THEOREM AnswersKeepToTheirRange ==
  ASSUME MidnightsAtWholeHours
  PROVE  ContentSpec => []AnswersStayInside
<1>1. ContentInv => AnswersStayInside BY QuerySafe DEF ContentInv, AnswersStayInside
<1> QED BY <1>1, ContentInvariant, PTL

(* Where days have 24 hours, too, an answer has every event in its range   *)
(* that the statistics and the cache had when its query started            *)
(* (buildUsageOverviewFromStats, BuildAnalysisWithFilter,                  *)
(* loadUsageWindowTokenStats, buildUsageOverviewRealtime).                 *)
THEOREM AnswersMissNothing ==
  ASSUME MidnightsAtWholeHours, DaysOf24Hours
  PROVE  ContentSpec => []AnswersAreComplete
<1>1. ContentInv => AnswersAreComplete BY QuerySafe DEF ContentInv, AnswersAreComplete
<1> QED BY <1>1, ContentInvariant, PTL

=============================================================================
