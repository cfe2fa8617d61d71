-------------------------- MODULE PricingSettings --------------------------
(***************************************************************************)
(* The prices of models: the settings users keep                           *)
(* (internal/repository/pricing.go), the prices proposed from the catalog  *)
(* of Models.dev (internal/service/pricing_metadata_sync.go), and what an  *)
(* event costs at the prices kept when it is asked for.                    *)
(*                                                                         *)
(* A catalog entry is found for a model by its whole name, by its name     *)
(* without a prefix, or by one of the two normalised: the scores of the    *)
(* ways it is found are data of the entry ("hits").  Providers stand in    *)
(* the order of their ids.                                                 *)
(***************************************************************************)
EXTENDS TokenBilling, Sequences, FiniteSets, SequencesExt

CONSTANTS
  Models,       \* names of models
  ProviderIds,  \* providers of the catalog, sorted
  Family,       \* the family of a model
  Official,     \* the official providers of a family, the best first
  CommonRank,   \* the rank of a provider for the models of others
  Entries,      \* entries the catalog may have
  CatalogSize,  \* bound: entries of a catalog
  Inputs,       \* settings users ask for
  Users,        \* requests that may overlap
  MaxEdits,     \* bound: requests to change settings
  RawTokens     \* token counts providers report

\* An entry of the catalog is found in some way, and is of a known provider.
PricingConstants ==
  /\ RawTokens \subseteq TokenCounts /\ MaxEdits \in Nat /\ CatalogSize \in Nat
  /\ ProviderIds \in Seq(Range(ProviderIds))
  /\ \A m \in Models : Official[Family[m]] \in Seq(Range(ProviderIds))
  /\ \A p \in Range(ProviderIds) : CommonRank[p] \in Int
  /\ IsFiniteSet(Entries)
  /\ \A e \in Entries :
       /\ e.hits \subseteq Nat /\ IsFiniteSet(e.hits) /\ e.hits # {}
       /\ e.provider \in Range(ProviderIds) /\ e.id \in Int /\ e.updated \in Int
       /\ e.plan \in BOOLEAN /\ e.deprecated \in BOOLEAN

VARIABLES
  settings,  \* model |-> its row, or NoSetting
  nextId,    \* ids of rows
  requests,  \* user |-> the request under way
  edits,     \* requests so far
  preview    \* the last preview
vars == <<settings, nextId, requests, edits, preview>>

Nil == <<>>            \* a price the catalog does not give; others are <<price>>
Catalogs == {c \in SUBSET Entries : Cardinality(c) <= CatalogSize}
NoSetting == [id |-> 0]
NoRequest == [pc |-> "idle"]
NoPreview == [models |-> {}, catalog |-> {}, matches |-> <<>>]

Init ==
  /\ settings = [m \in Models |-> NoSetting] /\ nextId = 1
  /\ requests = [u \in Users |-> NoRequest] /\ edits = 0
  /\ preview = NoPreview

-----------------------------------------------------------------------------
(* Matching a model with the catalog. *)

Rank(provider) == CHOOSE i \in DOMAIN ProviderIds : ProviderIds[i] = provider

\* pricingProviderRankForModel
ProviderRank(model, provider) ==
  LET official == Official[Family[model]]
  IN  IF provider \in Range(official)
      THEN CHOOSE i \in DOMAIN official : official[i] = provider
      ELSE 100 + CommonRank[provider]

\* isPlanZeroPricingCandidate: part of a subscription, hence without a price
PlanZero(entry) == entry.plan /\ entry.input = <<0>> /\ entry.output = <<0>>

\* matchPricingCatalogCandidates, the best way each entry is found
Candidates(model, catalog) ==
  {[entry |-> e, score |-> CHOOSE s \in e.hits : \A other \in e.hits : s >= other] :
     e \in {e \in catalog : e.model = model}}

\* Faulty: the provider counts more than how well the name fits.
ProviderFirst(model, c, d) ==
  LET cRank == ProviderRank(model, c.entry.provider)
      dRank == ProviderRank(model, d.entry.provider)
  IN  cRank < dRank \/ (cRank = dRank /\ c.score > d.score)

\* pricingCandidateLess
CandidateLess(model, c, d) ==
  LET cRank == ProviderRank(model, c.entry.provider)
      dRank == ProviderRank(model, d.entry.provider)
  IN  IF c.score # d.score THEN c.score > d.score
      ELSE IF PlanZero(c.entry) # PlanZero(d.entry) THEN ~PlanZero(c.entry)
      ELSE IF cRank # dRank THEN cRank < dRank
      ELSE IF c.entry.deprecated # d.entry.deprecated THEN ~c.entry.deprecated
      ELSE IF c.entry.updated # d.entry.updated THEN c.entry.updated > d.entry.updated
      ELSE IF c.entry.provider # d.entry.provider
           THEN Rank(c.entry.provider) < Rank(d.entry.provider)
      ELSE c.entry.id < d.entry.id

\* sortedUniquePricingCandidates, as far as it is used: what the sort puts first
First(model, some) == CHOOSE c \in some : \A d \in some : ~CandidateLess(model, d, c)

\* buildPricingSyncMatch: the setting an entry proposes.  Without a price of
\* its own a cached token costs as much as another.
StyleOf(entry) == IF entry.claude THEN "claude" ELSE "openai"
Proposal(entry) ==
  [style |-> StyleOf(entry), prompt |-> entry.input[1], completion |-> entry.output[1],
   cache |-> IF entry.read # Nil THEN entry.read[1]
             ELSE IF entry.claude THEN 0 ELSE entry.input[1],
   creation |-> IF entry.claude /\ entry.write # Nil THEN entry.write[1] ELSE 0]

Priced(entry) == entry.input # Nil /\ entry.output # Nil
NonNegative(setting) ==
  {setting.prompt, setting.completion, setting.cache, setting.creation} \subseteq Nat
Usable(c) == Priced(c.entry) /\ NonNegative(Proposal(c.entry))

\* buildPricingSyncMatchFromCandidates: the first that can be used
Useful(model, catalog) == {c \in Candidates(model, catalog) : Usable(c)}
Match(model, catalog) == First(model, Useful(model, catalog))

-----------------------------------------------------------------------------
(* Requests. The models of a preview are CPA's, or those of stored events    *)
(* when CPA does not answer (effectiveModels): some models, either way; the  *)
(* catalog is what Models.dev sends, some entries.                           *)
PreviewPricingSync ==
  /\ \E models \in SUBSET Models, catalog \in Catalogs :
       preview' = [models |-> models, catalog |-> catalog,
                   matches |-> [m \in {m \in models : Useful(m, catalog) # {}} |-> Match(m, catalog)]]
  /\ UNCHANGED <<settings, nextId, requests, edits>>

\* What users send: settings of their own, or what a preview proposed.
Asked(model) ==
  Inputs \union (IF model \in DOMAIN preview.matches
                 THEN {Proposal(preview.matches[model].entry)} ELSE {})

\* Faulty: prices are taken as they come.
AnyPrice(setting) == setting.style \in Styles

\* UpdatePricing refuses an unknown style and a negative price.
Accepted(setting) == setting.style \in Styles /\ NonNegative(setting)

\* UpsertModelPriceSetting reads the row of the model first ...
FindSetting(u) ==
  /\ requests[u] = NoRequest /\ edits < MaxEdits /\ edits' = edits + 1
  /\ \E m \in Models : \E setting \in Asked(m) :
       /\ Accepted(setting)
       /\ requests' = [requests EXCEPT ![u] = [pc |-> "save", model |-> m, found |-> settings[m].id,
                                               setting |-> setting]]
  /\ UNCHANGED <<settings, nextId, preview>>

\* ... and saves what it has read: over the row with the same id, or as a new
\* row, which another row of the model refuses (a row deleted meanwhile is back).
SaveSetting(u) ==
  /\ requests[u].pc = "save"
  /\ LET r == requests[u]
         id == IF r.found = 0 THEN nextId ELSE r.found
         free == settings[r.model].id \in {0, r.found}
     IN  IF free
         THEN /\ settings' = [settings EXCEPT ![r.model] = [id |-> id, price |-> r.setting]]
              /\ nextId' = IF r.found = 0 THEN nextId + 1 ELSE nextId
         ELSE UNCHANGED <<settings, nextId>>
  /\ requests' = [requests EXCEPT ![u] = NoRequest]
  /\ UNCHANGED <<edits, preview>>

DeleteModelPriceSetting ==
  /\ edits < MaxEdits /\ edits' = edits + 1
  /\ \E m \in Models : settings' = [settings EXCEPT ![m] = NoSetting]
  /\ UNCHANGED <<nextId, requests, preview>>

Next ==
  \/ PreviewPricingSync \/ DeleteModelPriceSetting
  \/ \E u \in Users : FindSetting(u) \/ SaveSetting(u)
Spec == Init /\ [][Next]_vars

-----------------------------------------------------------------------------
TypeOK ==
  /\ \A m \in Models : settings[m] = NoSetting \/ settings[m].id \in 1 .. nextId - 1
  /\ nextId \in 1 .. MaxEdits + 1
  /\ \A u \in Users : requests[u].pc \in {"idle", "save"}
  /\ preview.catalog \subseteq Entries
  /\ DOMAIN preview.matches \subseteq preview.models

(* The preview proposes the best price there is: no entry with a usable     *)
(* price fits the name better, none of those that fit as well is from a     *)
(* more official provider, a subscription's price of nothing is the last    *)
(* resort, and a model stays unmatched only if no entry is usable.          *)
BestProposal ==
  \A m \in preview.models :
    LET better(c, d) == \/ c.score > d.score
                        \/ c.score = d.score /\ ~PlanZero(c.entry) /\ PlanZero(d.entry)
                        \/ /\ c.score = d.score /\ PlanZero(c.entry) = PlanZero(d.entry)
                           /\ ProviderRank(m, c.entry.provider) < ProviderRank(m, d.entry.provider)
        usable == {c \in Candidates(m, preview.catalog) : Usable(c)}
    IN  IF m \in DOMAIN preview.matches
        THEN \A c \in usable : ~better(c, preview.matches[m])
        ELSE usable = {}

(* At whatever settings users and previews have left, an event whose counts *)
(* make sense is charged for each token once, none costs less than nothing, *)
(* and one without tokens costs nothing.                                    *)
ChargedSoundly ==
  \A m \in Models : settings[m] # NoSetting =>
    \A type \in TokenTypes, raw \in RawTokens :
      LET stored == Normalized(type, raw)
      IN  /\ WellFormed(type, raw) => ChargedOnce(type, settings[m].price.style, raw)
          /\ Cost(stored, settings[m].price) >= 0
          /\ ~RequiresPricing(stored) => Cost(stored, settings[m].price) = 0

=============================================================================
