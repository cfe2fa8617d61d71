------------------------------ MODULE MCContent ------------------------------
(***************************************************************************)
(* Small instances of what requests of users read and change in the        *)
(* database: the identities and the API keys of CPA, which the             *)
(* synchronisation writes too, the prices, the sessions, and the answers   *)
(* about usage.  No step of one writes a table of another, so a behaviour  *)
(* is of one of them, "part", and the variables of the others keep the     *)
(* value Unused.                                                           *)
(***************************************************************************)
EXTENDS MCUsageOverview, TLC

CONSTANTS
  Parts,                                              \* the parts a run looks at
  AuthFiles, ProviderKeys, FileTypes, ProviderTypes,  \* of the identities
  Fallback, EventProvider, FirstLists, FirstRows, Aliases, PageSize, MaxChanges, MaxEvents,
  KeyValues, Names, MaxKeyEdits,                      \* of the API keys of CPA
  Models, ProviderIds, Family, Official, CommonRank,  \* of the prices
  Entries, CatalogSize, Inputs, Users, MaxEdits, RawTokens,
  Tokens, ApiKeyIds, Clients, Requests, Ttl,          \* of the sessions
  MaxFailedLoginAttempts, MaxNow, MaxErrors, MaxFails

VARIABLES part, cpa, changes, sync, lookup, events,
          listed, used, table, fetched, create, edits, mine,
          settings, nextId, requests, preview,
          keys, mem, calls, limits, fails, errors, made, ended

Unused == "unused"
QueryEventTimes == {8, 15, 20}     \* a day's first and last tick, and now
Symmetric == Permutations(Tokens) \union Permutations(Requests)

-----------------------------------------------------------------------------
(* Two provider lists, of which the one may come to name the key of the     *)
(* other; rows of an earlier run, one of them of an identity that is gone.  *)
MCProviderTypes == <<"gemini", "claude">>
MCFirstLists ==
  {[files |-> [f \in AuthFiles |-> "codex"],
    lists |-> ("gemini" :> ProviderKeys) @@ ("claude" :> some)] : some \in SUBSET ProviderKeys}
OldRow(key, type, deleted) ==
  [key |-> key, type |-> type, deleted |-> deleted, alias |-> "none", total |-> 0]
MCFirstRows ==
  {<<>>} \union {<<OldRow(<<"oauth", f>>, "codex", TRUE), OldRow(<<"apikey", p>>, "claude", FALSE)>> :
                   f \in AuthFiles, p \in ProviderKeys}

(* Entries that differ in each of the things a proposal is chosen by.       *)
Entry(provider, id, hits, plan, input, read, claude, deprecated, updated) ==
  [model |-> "gpt", provider |-> provider, id |-> id, hits |-> hits, plan |-> plan,
   input |-> input, output |-> input, read |-> read, write |-> IF claude THEN <<1>> ELSE <<>>,
   claude |-> claude, deprecated |-> deprecated, updated |-> updated]
MCProviderIds == <<"azure", "openai", "openrouter", "zai-coding-plan">>
MCEntries ==
  {Entry("openai", 1, {100, 92}, FALSE, <<2>>, <<1>>, FALSE, FALSE, 1),
   Entry("openai", 2, {92}, FALSE, <<2>>, <<>>, FALSE, TRUE, 2),
   Entry("azure", 1, {100}, FALSE, <<>>, <<>>, FALSE, FALSE, 1),
   Entry("openrouter", 1, {96, 90}, FALSE, <<3>>, <<>>, TRUE, FALSE, 2),
   Entry("openrouter", 3, {100}, FALSE, <<3>>, <<-1>>, TRUE, FALSE, 2),
   Entry("zai-coding-plan", 1, {100}, TRUE, <<0>>, <<>>, FALSE, FALSE, 3)}
MCFamily == "gpt" :> "openai"
MCOfficial == "openai" :> <<"openai", "azure">>
MCCommonRank == [p \in {MCProviderIds[i] : i \in 1..4} |-> IF p = "openrouter" THEN 10 ELSE 100]
Input(style, completion, creation) ==
  [style |-> style, prompt |-> 1, completion |-> completion, cache |-> 0, creation |-> creation]
MCInputs == {Input("claude", 1, 2), Input("openai", -1, 0), Input("other", 1, 0)}
MCRawTokens == [input : {-1, 2}, output : {1}, reasoning : {0, 1}, cached : {0, 1},
                read : {0, 1}, creation : {0, 1}, total : {0, 3}]

-----------------------------------------------------------------------------
Identities == INSTANCE UsageIdentitySync
ApiKeys == INSTANCE CpaApiKeys WITH ApiKeys <- KeyValues, MaxEdits <- MaxKeyEdits
Prices == INSTANCE PricingSettings
Login == INSTANCE Sessions

ASSUME InstancesAllowed ==
  /\ Identities!IdentityConstants /\ ApiKeys!ApiKeyConstants
  /\ Prices!PricingConstants /\ Login!SessionConstants

-----------------------------------------------------------------------------
identityVars == <<cpa, sync, lookup, events>>
keyVars == <<listed, used, table, fetched, create, mine>>
priceVars == <<settings, nextId, requests, preview>>
loginVars == <<keys, mem, calls, limits, fails, errors, made, ended>>
queryVars == <<offered, queue, worker, held, closed, cached, health, lastPrune,
               delivered, dropped, restarts, counted, query>>
contentVars == <<part, identityVars, changes, rows, keyVars, edits, priceVars, now, loginVars,
                 queryVars>>

ContentInit ==
  /\ part \in Parts
  /\ \/ part = "identities" /\ Identities!Init
     \/ /\ part # "identities"
        /\ cpa = Unused /\ sync = Unused /\ lookup = Unused /\ events = Unused
  /\ \/ part = "keys" /\ ApiKeys!Init
     \/ /\ part # "keys"
        /\ listed = Unused /\ used = Unused /\ table = Unused
        /\ fetched = Unused /\ create = Unused /\ mine = Unused
  /\ \/ part = "prices" /\ Prices!Init
     \/ /\ part # "prices"
        /\ settings = Unused /\ nextId = Unused /\ requests = Unused /\ preview = Unused
  /\ \/ part = "login" /\ Login!Init
     \/ /\ part # "login"
        /\ keys = Unused /\ mem = Unused /\ calls = Unused /\ limits = Unused
        /\ fails = Unused /\ errors = Unused /\ made = Unused /\ ended = Unused
  /\ \/ part = "queries" /\ Init
     \/ /\ part # "queries"
        /\ offered = Unused /\ queue = Unused /\ worker = Unused /\ held = Unused
        /\ closed = Unused /\ cached = Unused /\ health = Unused /\ lastPrune = Unused
        /\ delivered = Unused /\ dropped = Unused /\ restarts = Unused
        /\ counted = Unused /\ query = Unused
  /\ part \in {"prices", "login", "queries"} => changes = Unused
  /\ part \in {"identities", "login", "queries"} => edits = Unused
  /\ part \in {"keys", "prices"} => rows = Unused
  /\ part \in {"identities", "keys", "prices"} => now = Unused

IdentityStep ==
  /\ part = "identities" /\ Identities!Next
  /\ UNCHANGED <<part, keyVars, edits, priceVars, now, loginVars, queryVars>>
KeyStep ==
  /\ part = "keys" /\ ApiKeys!Next
  /\ UNCHANGED <<part, identityVars, rows, priceVars, now, loginVars, queryVars>>
PriceStep ==
  /\ part = "prices" /\ Prices!Next
  /\ UNCHANGED <<part, identityVars, changes, rows, keyVars, now, loginVars, queryVars>>
LoginStep ==
  /\ part = "login" /\ Login!Next
  /\ UNCHANGED <<part, identityVars, changes, keyVars, edits, priceVars, queryVars>>
QueryStep ==
  /\ part = "queries" /\ Next
  /\ UNCHANGED <<part, identityVars, changes, keyVars, edits, priceVars, loginVars>>

ContentNext == IdentityStep \/ KeyStep \/ PriceStep \/ LoginStep \/ QueryStep
ContentSpec == ContentInit /\ [][ContentNext]_contentVars

-----------------------------------------------------------------------------
(* What the parts promise; their own modules say it in words.               *)

\* The active identities are the ones CPA listed, with its types (SyncMetadata).
MirrorsCpa == part = "identities" => Identities!MirrorsCpa

\* Tokens are counted as the identity's type asks, also of a deleted identity
\* (buildUsageEventTypeResolver).
TypedBySteadyIdentity == part = "identities" => Identities!TypedBySteadyIdentity

\* Pages neither repeat nor skip an identity (ListUsageIdentitiesPage).
PagesCover == part = "identities" => Identities!PagesCover

\* An identity that comes back is the same row, with its name and its requests
\* (syncUsageIdentities).
IdentityKept == [][part = "identities" => Identities!KeepsIdentity]_contentVars

\* A failed request deletes no identity (ReplaceUsageIdentitiesForProviderTypes).
OnlyUnlistedDeleted == [][part = "identities" => Identities!DeletesOnlyUnlisted]_contentVars

\* A key has one row, however the writers overlap (cpa_api_key.go).
OneRowPerKey == part = "keys" => ApiKeys!OneRowPerKey

\* A key a user made or changed survives the synchronisations that do not list it
\* (SyncCPAAPIKeys).
UserKeysSurvive == part = "keys" => ApiKeys!UserKeysSurvive

\* The preview proposes the best price of the catalog (Preview).
BestProposal == part = "prices" => Prices!BestProposal

\* No token is charged twice, nothing costs less than nothing (usage_cost.go).
ChargedSoundly == part = "prices" => Prices!ChargedSoundly

\* No request is served by a session a restart would forget (auth/session.go).
CacheBacked == part = "login" => Login!CacheBacked

\* A token whose removal was answered admits nobody again (auth/session.go).
EndedStaysEnded == part = "login" => Login!EndedStaysEnded

\* The limit of failed attempts is passed by no more than overlap (api/auth.go).
AttemptsBounded == part = "login" => Login!AttemptsBounded

-----------------------------------------------------------------------------
(* One property for each question.                                          *)

\* What users see is what CPA has: all of its identities, with its types, each on one page.
IdentitiesShown == MirrorsCpa /\ PagesCover

\* An identity outlives failed requests and its own absence.
IdentitiesLast == IdentityKept /\ OnlyUnlistedDeleted

\* The rows of the API keys, written by users and the synchronisation at once, are sound.
ApiKeysKept == OneRowPerKey /\ UserKeysSurvive

\* Sessions outlive the program until they end, and then for good; guessing is limited.
SessionsKept == CacheBacked /\ EndedStaysEnded /\ AttemptsBounded

\* An answer counts no event twice, none outside of its range, and every event the statistics
\* and the cache had when the query started (repository/usage.go).
AnswersCountOnce == part = "queries" => CountedOnce
AnswersStayInside == part = "queries" => OnlyInside
AnswersAreComplete == part = "queries" => SettledCounted

-----------------------------------------------------------------------------
(* Refuted.                                                                 *)

\* sync_test.go, TestProcessRedisUsageInboxFallsBackToDeletedUsageIdentityType: an event of a
\* deleted identity is normalised by the type that identity has.
TypedByKnownIdentity == part = "identities" => Identities!TypedByKnownIdentity

\* A request to create a key is answered with a row of that key.
CreatedKeyExists == [][part = "keys" => ApiKeys!AnswersTruly]_contentVars

=============================================================================
