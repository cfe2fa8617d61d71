----------------------------- MODULE CpaApiKeys -----------------------------
(***************************************************************************)
(* The table cpa_api_keys (internal/repository/cpa_api_key.go): the keys   *)
(* CPA accepts, brought by the synchronisation, and those users keep here  *)
(* by hand.  Two requests that both write a key may overlap each other and *)
(* a synchronisation; a transaction of the database does not.              *)
(*                                                                         *)
(* The id of a row is its position.  Of last_synced_at only counts whether *)
(* it is set.                                                              *)
(***************************************************************************)
EXTENDS Naturals, Sequences, FiniteSets, SequencesExt

CONSTANTS
  ApiKeys,     \* values of keys
  Names,       \* display names users give
  MaxChanges,  \* bound: changes of CPA's list
  MaxEdits     \* bound: requests of users

ApiKeyConstants ==
  /\ IsFiniteSet(ApiKeys) /\ MaxChanges \in Nat /\ MaxEdits \in Nat

VARIABLES
  listed,   \* external: the keys CPA lists
  changes,  \* its changes so far
  used,     \* keys with usage events
  table,    \* the rows
  fetched,  \* the list a synchronisation is about to write, or Nothing
  create,   \* a request to create a key that has looked for it, or NoCreate
  edits,    \* requests so far
  mine      \* history: rows a user made or changed last, and no list has named since
vars == <<listed, changes, used, table, fetched, create, edits, mine>>

NoName == "none"
Nothing == {"nothing"}
NoCreate == [key |-> NoName, name |-> NoName, found |-> 0]

Row(key, name, synced) == [key |-> key, name |-> name, deleted |-> FALSE, synced |-> synced]
Find(key) == {i \in DOMAIN table : table[i].key = key}

Init ==
  /\ listed \in SUBSET ApiKeys /\ changes = 0
  /\ used = {} /\ table = <<>> /\ fetched = Nothing
  /\ create = NoCreate /\ edits = 0 /\ mine = {}

-----------------------------------------------------------------------------
(* CPA, and the events the ingest stores. *)
CpaChanges ==
  /\ changes < MaxChanges /\ changes' = changes + 1
  /\ listed' \in SUBSET ApiKeys
  /\ UNCHANGED <<used, table, fetched, create, edits, mine>>

KeyUsed ==
  /\ \E key \in ApiKeys \ used : used' = used \union {key}
  /\ UNCHANGED <<listed, changes, table, fetched, create, edits, mine>>

-----------------------------------------------------------------------------
(* The synchronisation: the list is fetched, and written later. *)
FetchManagementAPIKeys ==
  /\ fetched = Nothing
  /\ fetched' = listed
  /\ UNCHANGED <<listed, changes, used, table, create, edits, mine>>

\* Faulty: a row that was never synchronised is compared with the list as well.
StaleUnsynced(incoming) ==
  {i \in DOMAIN table : ~table[i].deleted /\ table[i].key \notin incoming \union used}

\* Rows to delete: once synchronised, no longer listed, and without any usage.
Stale(incoming) ==
  {i \in DOMAIN table : /\ ~table[i].deleted /\ table[i].synced
                        /\ table[i].key \notin incoming \union used}

\* Faulty: only active rows are looked for.
ExistingActive(key) == {i \in Find(key) : ~table[i].deleted}

Existing(key) == Find(key)

SyncCPAAPIKeys ==
  /\ fetched # Nothing
  /\ LET created == {key \in fetched : Existing(key) = {}}
         Synced(i) ==
           IF table[i].key \in fetched THEN [table[i] EXCEPT !.deleted = FALSE, !.synced = TRUE]
           ELSE IF i \in Stale(fetched) THEN [table[i] EXCEPT !.deleted = TRUE]
           ELSE table[i]
     IN  table' = [i \in DOMAIN table |-> Synced(i)]
                    \o SetToSeq({Row(key, NoName, TRUE) : key \in created})
  /\ mine' = {i \in mine : table[i].key \notin fetched}
  /\ fetched' = Nothing
  /\ UNCHANGED <<listed, changes, used, create, edits>>

\* The list cannot be fetched, or not be written.
SyncFails ==
  /\ fetched # Nothing
  /\ fetched' = Nothing
  /\ UNCHANGED <<listed, changes, used, table, create, edits, mine>>

-----------------------------------------------------------------------------
(* The requests of users. CreateCPAAPIKey looks for the key and writes in   *)
(* two statements; the others are one statement or one transaction.         *)
Edit == edits < MaxEdits /\ edits' = edits + 1

FindKeyToCreate ==
  /\ Edit /\ create = NoCreate
  /\ \E key \in ApiKeys, name \in Names :
       /\ \A i \in Find(key) : table[i].deleted      \* else: already exists
       /\ create' = [key |-> key, name |-> name,
                     found |-> IF Find(key) = {} THEN 0 ELSE CHOOSE i \in Find(key) : TRUE]
  /\ UNCHANGED <<listed, changes, used, table, fetched, mine>>

\* A deleted row is made active again, and is the user's own from now on.
ReviveKey ==
  /\ create.found # 0
  /\ table' = [table EXCEPT ![create.found].name = create.name,
                            ![create.found].deleted = FALSE, ![create.found].synced = FALSE]
  /\ mine' = mine \union {create.found}
  /\ create' = NoCreate
  /\ UNCHANGED <<listed, changes, used, fetched, edits>>

\* A new row, unless the unique index on api_key refuses it.
InsertKey ==
  /\ create # NoCreate /\ create.found = 0
  /\ IF Find(create.key) = {}
     THEN /\ table' = Append(table, Row(create.key, create.name, FALSE))
          /\ mine' = mine \union {Len(table) + 1}
     ELSE UNCHANGED <<table, mine>>
  /\ create' = NoCreate
  /\ UNCHANGED <<listed, changes, used, fetched, edits>>

\* Faulty: a changed key keeps the time of its old value's synchronisation.
SyncedWhateverKey(i, key) == table[i].synced

SyncedAfterUpdate(i, key) == table[i].synced /\ table[i].key = key

UpdateCPAAPIKey ==
  /\ Edit
  /\ \E i \in DOMAIN table, key \in ApiKeys, name \in Names :
       /\ ~table[i].deleted
       /\ Find(key) \subseteq {i}                    \* else: already exists, deleted or not
       /\ table' = [table EXCEPT ![i].key = key, ![i].name = name,
                                 ![i].synced = SyncedAfterUpdate(i, key)]
       /\ mine' = IF table[i].key = key THEN mine ELSE mine \union {i}
  /\ UNCHANGED <<listed, changes, used, fetched, create>>

UpdateCPAAPIKeyAlias ==
  /\ Edit
  /\ \E i \in DOMAIN table, name \in Names \union {NoName} :
       /\ ~table[i].deleted
       /\ table' = [table EXCEPT ![i].name = name]
  /\ UNCHANGED <<listed, changes, used, fetched, create, mine>>

DeleteCPAAPIKey ==
  /\ Edit
  /\ \E i \in DOMAIN table :
       /\ ~table[i].deleted
       /\ table' = [table EXCEPT ![i].deleted = TRUE]
       /\ mine' = mine \ {i}
  /\ UNCHANGED <<listed, changes, used, fetched, create>>

-----------------------------------------------------------------------------
UserEdits == \/ FindKeyToCreate \/ ReviveKey \/ InsertKey
             \/ UpdateCPAAPIKey \/ UpdateCPAAPIKeyAlias \/ DeleteCPAAPIKey
Sync == FetchManagementAPIKeys \/ SyncCPAAPIKeys \/ SyncFails
Next == CpaChanges \/ KeyUsed \/ Sync \/ UserEdits
Spec == Init /\ [][Next]_vars

-----------------------------------------------------------------------------
TypeOK ==
  /\ listed \subseteq ApiKeys /\ used \subseteq ApiKeys
  /\ fetched \in {Nothing} \union SUBSET ApiKeys
  /\ table \in Seq([key : ApiKeys, name : Names \union {NoName},
                    deleted : BOOLEAN, synced : BOOLEAN])
  /\ mine \subseteq DOMAIN table

(* No write but the insert of a create relies on the unique index of        *)
(* api_key: however creates, updates, deletions and synchronisations        *)
(* overlap, a value has one row.                                            *)
OneRowPerKey == \A i, j \in DOMAIN table : table[i].key = table[j].key => i = j

(* TestManualCPAAPIKeyRowsCanBeCreatedUpdatedDeletedAndSurviveSync: a key a *)
(* user made, revived or changed stays until a list of CPA has named it or  *)
(* the user deletes it, even if the list being written is older than the    *)
(* user's request.                                                          *)
UserKeysSurvive == \A i \in mine : ~table[i].deleted

(* What a create has answered: the row that was made active has the key     *)
(* that was asked for.                                                      *)
AnswersTruly ==
  create.found # 0 /\ create' = NoCreate /\ edits' = edits => table'[create.found].key = create.key
CreatedKeyExists == [][AnswersTruly]_vars

=============================================================================
