-------------------------- MODULE UsageIdentitySync --------------------------
(***************************************************************************)
(* The table usage_identities, what SyncService.SyncMetadata makes of it   *)
(* from the lists of CPA, and the look-up of an identity's type by which   *)
(* the ingest normalises the tokens of an event.                           *)
(*                                                                         *)
(* An identity is a pair of its kind, "oauth" for an auth file or "apikey" *)
(* for the key of an AI provider, and its auth index.  The id of a row is  *)
(* its position in the table.  CPA may change its lists at any moment, and *)
(* any of the seven requests of a synchronisation may fail.                *)
(***************************************************************************)
EXTENDS Integers, Sequences, FiniteSets, SequencesExt

CONSTANTS
  AuthFiles,      \* auth indexes of auth files
  ProviderKeys,   \* auth indexes of provider keys
  FileTypes,      \* what an auth file may be: "codex", "claude", ...
  ProviderTypes,  \* the provider lists, in the order they are fetched
  Fallback,       \* the type of an event nothing is known of ("openai")
  EventProvider,  \* the provider an event names itself
  FirstLists,     \* what CPA may list when the application starts
  FirstRows,      \* tables an earlier run of the application may have left
  Aliases,        \* display names a user gives; None takes the name away
  PageSize,       \* rows on a page
  MaxChanges,     \* bound: changes of CPA's lists
  MaxEvents       \* bound: events ingested

VARIABLES
  cpa,      \* external: what CPA lists: the type of each file, the keys of each provider
  changes,  \* changes of CPA so far
  rows,     \* the table
  sync,     \* the synchronisation
  lookup,   \* the ingest resolving the type of an event
  events    \* stored events: whose, and the type each was normalised by
vars == <<cpa, changes, rows, sync, lookup, events>>

None == "none"
Types == Range(ProviderTypes)
Keys == ({"oauth"} \X AuthFiles) \union ({"apikey"} \X ProviderKeys)

\* A table an earlier run left has each identity once, and counts no event of this run.
IdentityConstants ==
  /\ ProviderTypes \in Seq(Types) /\ ProviderTypes # <<>> /\ IsInjective(ProviderTypes)
  /\ None \notin FileTypes \union Types
  /\ IsFiniteSet(AuthFiles) /\ IsFiniteSet(ProviderKeys) /\ PageSize \in Nat \ {0}
  /\ FirstLists \subseteq [files : [AuthFiles -> FileTypes \union {None}],
                            lists : [Types -> SUBSET ProviderKeys]]
  /\ \A table \in FirstRows :
       /\ table \in Seq([key : Keys, type : FileTypes \union Types, deleted : BOOLEAN,
                         alias : Aliases \union {None}, total : {0}])
       /\ \A i, j \in DOMAIN table : table[i].key = table[j].key => i = j
       /\ \A i \in DOMAIN table : table[i].key[1] = "apikey" => table[i].type \in Types

Row(key, type) == [key |-> key, type |-> type, deleted |-> FALSE, alias |-> None, total |-> 0]
RowsOf(key) == {i \in DOMAIN rows : rows[i].key = key}
TypeOf(key) == IF RowsOf(key) = {} THEN None ELSE rows[CHOOSE i \in RowsOf(key) : TRUE].type

NoLists == [t \in Types |-> {}]
NoFiles == [f \in AuthFiles |-> None]
Idle == [pc |-> "idle", files |-> NoFiles, gotFiles |-> FALSE, lists |-> NoLists,
         fetched |-> {}, asked |-> {}, upserted |-> TRUE]
NoLookup == [pc |-> "idle", key |-> None, found |-> None,
             known |-> {}, steady |-> TRUE]

Init ==
  /\ cpa \in FirstLists
  /\ changes = 0
  /\ rows \in FirstRows
  /\ sync = Idle /\ lookup = NoLookup /\ events = <<>>

-----------------------------------------------------------------------------
(* CPA: a file comes, goes or changes its type; a provider lists a key or no *)
(* longer does.                                                              *)
CpaChanges ==
  /\ changes < MaxChanges /\ changes' = changes + 1
  /\ \/ \E f \in AuthFiles, t \in FileTypes \union {None} :
          cpa' = [cpa EXCEPT !.files[f] = t]
     \/ \E t \in Types, keys \in SUBSET ProviderKeys :
          cpa' = [cpa EXCEPT !.lists[t] = keys]
  /\ UNCHANGED <<rows, sync, lookup, events>>

-----------------------------------------------------------------------------
(* A synchronisation fetches everything first. *)
SyncStarts ==
  /\ sync.pc \in {"idle", "done"}
  /\ sync' = [Idle EXCEPT !.pc = "files"]
  /\ UNCHANGED <<cpa, changes, rows, lookup, events>>

FetchAuthFiles ==
  /\ sync.pc = "files"
  /\ \/ sync' = [sync EXCEPT !.pc = "lists", !.files = cpa.files, !.gotFiles = TRUE]
     \/ sync' = [sync EXCEPT !.pc = "lists"]
  /\ UNCHANGED <<cpa, changes, rows, lookup, events>>

\* The five lists of the providers, one after the other, each failing alone.
ListsLeft == {i \in DOMAIN ProviderTypes : ProviderTypes[i] \notin sync.asked}

FetchProviderList ==
  /\ sync.pc = "lists"
  /\ LET t == ProviderTypes[Min(ListsLeft)]
         asked == [sync EXCEPT !.asked = @ \union {t},
                               !.pc = IF ListsLeft = {Min(ListsLeft)} THEN "writeFiles" ELSE "lists"]
     IN  \/ sync' = [asked EXCEPT !.fetched = @ \union {t}, !.lists[t] = cpa.lists[t]]
         \/ sync' = asked
  /\ UNCHANGED <<cpa, changes, rows, lookup, events>>

\* flattenProviderMetadata: of two lists with the same key the first counts.
FlatType(key) ==
  LET listing == {i \in DOMAIN ProviderTypes : key \in sync.lists[ProviderTypes[i]]}
  IN  IF listing = {} THEN None ELSE ProviderTypes[Min(listing)]

\* The identities a synchronisation brings: those of the files (authFileUsageIdentity),
\* and those of the providers' keys (providerMetadataUsageIdentities).
FileRows == {Row(<<"oauth", f>>, sync.files[f]) : f \in {f \in AuthFiles : sync.files[f] # None}}
ProviderRows ==
  {Row(<<"apikey", p>>, FlatType(p)) : p \in {p \in ProviderKeys : FlatType(p) # None}}
KeysOf(incoming) == {r.key : r \in incoming}

\* Faulty: deleted rows are not revived.
UpsertedActive(incoming) ==
  LET Updated(row) ==
        IF row.key \in KeysOf(incoming) /\ ~row.deleted
        THEN LET new == CHOOSE r \in incoming : r.key = row.key
             IN  [row EXCEPT !.type = new.type]
        ELSE row
      created == {r \in incoming : RowsOf(r.key) = {}}
  IN  [i \in DOMAIN rows |-> Updated(rows[i])] \o SetToSeq(created)

\* Faulty: the alias is among the columns that are updated.
UpsertedWithAlias(incoming) ==
  LET Updated(row) ==
        IF row.key \in KeysOf(incoming)
        THEN CHOOSE r \in incoming : r.key = row.key
        ELSE row
      created == {r \in incoming : RowsOf(r.key) = {}}
  IN  [i \in DOMAIN rows |-> Updated(rows[i])] \o SetToSeq(created)

\* syncUsageIdentities with usageIdentityMetadataUpdates: a row takes over what
\* CPA says and is active again; alias and statistics are left alone.
Upserted(incoming) ==
  LET Updated(row) ==
        IF row.key \in KeysOf(incoming)
        THEN LET new == CHOOSE r \in incoming : r.key = row.key
             IN  [row EXCEPT !.type = new.type, !.deleted = FALSE]
        ELSE row
      created == {r \in incoming : RowsOf(r.key) = {}}
  IN  [i \in DOMAIN rows |-> Updated(rows[i])] \o SetToSeq(created)

\* markStaleUsageIdentityRowsDeleted, over the rows in the scope
StaleDeleted(table, scope, incoming) ==
  [i \in DOMAIN table |->
     IF i \in scope /\ table[i].key \notin KeysOf(incoming)
     THEN [table[i] EXCEPT !.deleted = TRUE] ELSE table[i]]

\* Faulty: a provider whose list could not be fetched counts as one without keys.
StaleOfAllTypes(table) == {i \in DOMAIN table : table[i].key[1] = "apikey"}

\* The provider rows of the types fetched, as they are after the update.
StaleScope(table) ==
  {i \in DOMAIN table : table[i].key[1] = "apikey" /\ table[i].type \in sync.fetched}

\* syncAuthFiles: ReplaceUsageIdentitiesForAuthType in one transaction
WriteAuthFiles ==
  /\ sync.pc = "writeFiles"
  /\ \/ /\ sync.gotFiles
        /\ rows' = StaleDeleted(Upserted(FileRows),
                                {i \in DOMAIN rows : rows[i].key[1] = "oauth"}, FileRows)
        /\ sync' = [sync EXCEPT !.pc = "writeKeys"]
     \/ /\ sync' = [sync EXCEPT !.pc = "writeKeys", !.upserted = FALSE]   \* no list, or no write
        /\ UNCHANGED rows
  /\ UNCHANGED <<cpa, changes, lookup, events>>

\* syncManagementAPIKeys, as far as it decides whether statistics follow
WriteApiKeys ==
  /\ sync.pc = "writeKeys"
  /\ \E ok \in BOOLEAN : sync' = [sync EXCEPT !.pc = "writeProviders", !.upserted = @ /\ ok]
  /\ UNCHANGED <<cpa, changes, rows, lookup, events>>

\* syncProviderMetadata: ReplaceUsageIdentitiesForProviderTypes in one
\* transaction.  Lists that could not be fetched are only a warning.
WriteProviders ==
  /\ sync.pc = "writeProviders"
  /\ \/ /\ LET table == Upserted(ProviderRows)
           IN  rows' = StaleDeleted(table, StaleScope(table), ProviderRows)
        /\ sync' = [sync EXCEPT !.pc = "aggregate"]
     \/ /\ sync' = [sync EXCEPT !.pc = "aggregate", !.upserted = FALSE]
        /\ UNCHANGED rows
  /\ UNCHANGED <<cpa, changes, lookup, events>>

EventsOf(key) == Cardinality({e \in DOMAIN events : events[e].key = key})
Aggregated == [i \in DOMAIN rows |-> [rows[i] EXCEPT !.total = EventsOf(rows[i].key)]]

\* Statistics follow only when all three sources were written.
AggregateIdentities ==
  /\ sync.pc = "aggregate"
  /\ sync' = [sync EXCEPT !.pc = "done"]
  /\ rows' = IF sync.upserted THEN Aggregated ELSE rows
  /\ UNCHANGED <<cpa, changes, lookup, events>>

-----------------------------------------------------------------------------
(* A user names an identity (UpdateUsageIdentityAlias); only an active one. *)
UpdateAlias ==
  \E i \in DOMAIN rows, alias \in Aliases :
    /\ ~rows[i].deleted /\ alias # rows[i].alias
    /\ rows' = [rows EXCEPT ![i].alias = alias]
    /\ UNCHANGED <<cpa, changes, sync, lookup, events>>

-----------------------------------------------------------------------------
(* The ingest, on a goroutine of its own: buildUsageEventTypeResolver reads  *)
(* the active rows, then the deleted rows for what it did not find.          *)
RowsOfLookup(key, deleted) == {i \in RowsOf(key) : rows[i].deleted = deleted}
FoundType(key, deleted) == IF RowsOfLookup(key, deleted) = {} THEN None ELSE TypeOf(key)

LookUpActive ==
  /\ lookup.pc = "idle" /\ Len(events) < MaxEvents
  /\ \E key \in Keys :
       lookup' = [pc |-> IF FoundType(key, FALSE) = None THEN "deleted" ELSE "store",
                  key |-> key, found |-> FoundType(key, FALSE),
                  known |-> {TypeOf(key)} \ {None}, steady |-> TRUE]
  /\ UNCHANGED <<cpa, changes, rows, sync, events>>

\* Faulty: deleted identities are not looked up.
SkipDeleted ==
  /\ lookup.pc = "deleted"
  /\ lookup' = [lookup EXCEPT !.pc = "store", !.steady = RowsOfLookup(lookup.key, FALSE) = {}]
  /\ UNCHANGED <<cpa, changes, rows, sync, events>>

LookUpDeleted ==
  /\ lookup.pc = "deleted"
  /\ lookup' = [lookup EXCEPT !.pc = "store", !.found = FoundType(lookup.key, TRUE),
                  !.known = IF @ = {} THEN {} ELSE @ \union {TypeOf(lookup.key)},
                  !.steady = RowsOfLookup(lookup.key, FALSE) = {}]
  /\ UNCHANGED <<cpa, changes, rows, sync, events>>

\* resolveUsageEventType: without an identity the event of a file is of its
\* provider's type, the event of a key of the common one.
ResolvedType ==
  IF lookup.found # None THEN lookup.found
  ELSE IF lookup.key[1] = "oauth" THEN EventProvider ELSE Fallback

\* The event is stored, and the statistics brought up to date.
StoreEvent ==
  /\ lookup.pc = "store"
  /\ events' = Append(events, [key |-> lookup.key, type |-> ResolvedType,
                               known |-> lookup.known, steady |-> lookup.steady])
  /\ lookup' = NoLookup
  /\ UNCHANGED <<cpa, changes, rows, sync>>

IngestAggregates ==
  /\ rows # Aggregated
  /\ rows' = Aggregated
  /\ UNCHANGED <<cpa, changes, sync, lookup, events>>

-----------------------------------------------------------------------------
Sync == \/ SyncStarts \/ FetchAuthFiles \/ FetchProviderList \/ WriteAuthFiles \/ WriteApiKeys
        \/ WriteProviders \/ AggregateIdentities
Ingest == LookUpActive \/ LookUpDeleted \/ StoreEvent \/ IngestAggregates
Next == CpaChanges \/ Sync \/ UpdateAlias \/ Ingest
Spec == Init /\ [][Next]_vars

-----------------------------------------------------------------------------
(***************************************************************************)
(* The page of identities (ListActiveUsageIdentitiesPage).                 *)
(***************************************************************************)
Shown(types) == {i \in DOMAIN rows : ~rows[i].deleted /\ (types = {} \/ rows[i].type \in types)}

\* applyUsageIdentityPageSort: most requests first, then the older row
ListedBefore(i, j) == rows[i].total > rows[j].total \/ (rows[i].total = rows[j].total /\ i < j)
Sorted(shown) ==
  [k \in 1 .. Cardinality(shown) |->
     CHOOSE i \in shown : Cardinality({j \in shown : ListedBefore(j, i)}) = k - 1]

\* Faulty: pages are counted from 0.
PageFromZero(types, n) ==
  LET all == Sorted(Shown(types))
  IN  SubSeq(all, n * PageSize + 1, IF (n + 1) * PageSize < Len(all) THEN (n + 1) * PageSize ELSE Len(all))

Page(types, n) ==
  LET all == Sorted(Shown(types))
  IN  SubSeq(all, (n - 1) * PageSize + 1, IF n * PageSize < Len(all) THEN n * PageSize ELSE Len(all))

\* totalPages: how many pages a client is told there are
TotalPages(types) == (Cardinality(Shown(types)) + PageSize - 1) \div PageSize

-----------------------------------------------------------------------------
TypeOK ==
  /\ cpa.files \in [AuthFiles -> FileTypes \union {None}]
  /\ cpa.lists \in [Types -> SUBSET ProviderKeys]
  /\ changes \in 0 .. MaxChanges
  /\ \A i \in DOMAIN rows :
       rows[i] \in [key : Keys, type : FileTypes \union Types, deleted : BOOLEAN,
                    alias : Aliases \union {None}, total : 0 .. MaxEvents]
  /\ sync.pc \in {"idle", "files", "lists", "writeFiles", "writeKeys", "writeProviders",
                  "aggregate", "done"}
  /\ sync.fetched \subseteq Types /\ sync.upserted \in BOOLEAN
  /\ lookup.pc \in {"idle", "deleted", "store"}

(* An identity that disappears from CPA and comes back is the same row, with *)
(* the name its user gave it and all its requests: a synchronisation never   *)
(* makes a second row, never writes an alias, and never takes from a total.  *)
KeepsIdentity ==
  /\ \A i, j \in DOMAIN rows' : rows'[i].key = rows'[j].key => i = j
  /\ \A i \in DOMAIN rows :
       /\ rows'[i].key = rows[i].key /\ rows'[i].total >= rows[i].total
       /\ rows'[i].alias # rows[i].alias => sync' = sync
IdentityKept == [][KeepsIdentity]_vars

(* After a synchronisation without an error in the database, the active     *)
(* identities are the ones CPA listed, with the types CPA gave them.  What  *)
(* belongs to a list that could not be fetched is not judged.               *)
MirrorsCpa ==
  sync.pc = "done" /\ sync.upserted =>
    /\ \A f \in AuthFiles :
         FoundType(<<"oauth", f>>, FALSE) = sync.files[f]
    /\ \A p \in ProviderKeys :
         \/ FoundType(<<"apikey", p>>, FALSE) = FlatType(p)
         \/ FlatType(p) = None /\ TypeOf(<<"apikey", p>>) \in Types \ sync.fetched

(* A failed request deletes nothing: an identity is marked deleted only by  *)
(* a synchronisation that got the list of its type, and did not find it.    *)
DeletesOnlyUnlisted ==
  \A i \in DOMAIN rows :
    ~rows[i].deleted /\ rows'[i].deleted =>
      IF rows[i].key[1] = "oauth"
      THEN sync.gotFiles /\ sync.files[rows[i].key[2]] = None
      ELSE rows[i].type \in sync.fetched /\ FlatType(rows[i].key[2]) = None
OnlyUnlistedDeleted == [][DeletesOnlyUnlisted]_vars

(* The tokens of an event are read the way the identity they belong to      *)
(* counts them, also when the identity is deleted, unless it was revived    *)
(* between the two reads.                                                   *)
TypedBySteadyIdentity ==
  \A e \in Range(events) : e.known # {} /\ e.steady => e.type \in e.known

(* TestProcessRedisUsageInboxFallsBackToDeletedUsageIdentityType: an event  *)
(* of a deleted identity is normalised by that identity's type.             *)
TypedByKnownIdentity ==
  \A e \in Range(events) : e.known # {} => e.type \in e.known

(* Pages neither repeat nor skip an active identity, whatever ties there    *)
(* are in the numbers they are sorted by: read one after another they show  *)
(* all of them, each after those with more requests.                        *)
PagesCover ==
  \A types \in {{}} \union {{t} : t \in FileTypes} :
    LET pages == [n \in 1 .. TotalPages(types) |-> Page(types, n)]
        places == {p \in (DOMAIN pages) \X (1 .. PageSize) : p[2] <= Len(pages[p[1]])}
        At(p) == pages[p[1]][p[2]]
    IN  /\ {At(p) : p \in places} = Shown(types)
        /\ \A p, q \in places :
             p[1] < q[1] \/ (p[1] = q[1] /\ p[2] < q[2]) => ListedBefore(At(p), At(q))

=============================================================================
