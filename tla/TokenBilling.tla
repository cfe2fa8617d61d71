---------------------------- MODULE TokenBilling ----------------------------
(***************************************************************************)
(* The token counts of an event: how the ingest brings what a provider     *)
(* reports into one form (internal/service/flatten.go), and which of them  *)
(* the price of a model is multiplied with (internal/helper/usage_cost.go).*)
(***************************************************************************)
EXTENDS Integers

TokenTypes == {"claude", "gemini", "openai"}   \* how a provider counts
Styles == {"openai", "claude"}                 \* how a model is priced

TokenCounts == [input : Int, output : Int, reasoning : Int, cached : Int,
           read : Int, creation : Int, total : Int]

AtLeastZero(n) == IF n < 0 THEN 0 ELSE n

\* clampTokenStats
Clamped(t) ==
  [input |-> AtLeastZero(t.input), output |-> AtLeastZero(t.output),
   reasoning |-> AtLeastZero(t.reasoning), cached |-> AtLeastZero(t.cached),
   read |-> AtLeastZero(t.read), creation |-> AtLeastZero(t.creation),
   total |-> AtLeastZero(t.total)]

\* fillCodexStyleTotalTokens
WithTotal(t) ==
  [t EXCEPT !.total = IF t.total # 0 THEN t.total
                      ELSE IF t.input + t.output # 0 THEN t.input + t.output
                      ELSE t.cached]

\* shouldFoldReasoningIntoOutput: the total tells whether the output has it already
ReasoningApart(t) ==
  /\ t.reasoning > 0
  /\ \/ t.total = 0
     \/ t.input + t.output # t.total /\ t.input + t.output + t.reasoning = t.total

\* normalizeGeminiTokens
GeminiTokens(t) ==
  WithTotal([t EXCEPT !.output = IF ReasoningApart(t) THEN t.output + t.reasoning ELSE t.output])

\* Faulty: what was read from a cache is taken for a part of the input already.
ClaudeTokensUnsummed(t) == WithTotal([t EXCEPT !.cached = t.read])

\* normalizeClaudeTokens: cache reads and writes come on top of the input
ClaudeTokens(t) ==
  WithTotal([t EXCEPT !.input = t.input + t.read + t.creation, !.cached = t.read])

\* NormalizeUsageEventTokens; every other type counts as OpenAI does
Normalized(type, t) ==
  IF type = "claude" THEN ClaudeTokens(Clamped(t))
  ELSE IF type = "gemini" THEN GeminiTokens(Clamped(t))
  ELSE WithTotal(Clamped(t))

\* UsageTokenInputRequiresPricing
RequiresPricing(t) ==
  t.input > 0 \/ t.output > 0 \/ t.cached > 0 \/ t.read > 0 \/ t.creation > 0

\* Faulty: the cached part of the input is charged as input too.
OpenAIBilledTwice(t) ==
  [prompt |-> t.input, completion |-> t.output, cache |-> t.cached, creation |-> 0]

\* calculateOpenAIStyleUsageTokenCostBreakdown: cached tokens are part of the input
OpenAIBilled(t) ==
  [prompt |-> AtLeastZero(t.input - t.cached), completion |-> t.output,
   cache |-> t.cached, creation |-> 0]

\* calculateClaudeUsageTokenCostBreakdown: so are cache reads and writes
ClaudeBilled(t) ==
  [prompt |-> AtLeastZero(t.input - t.read - t.creation), completion |-> t.output,
   cache |-> t.read, creation |-> t.creation]

\* CalculateUsageTokenCostBreakdown: tokens charged at each of the four prices
Billed(style, t) ==
  IF style = "claude" THEN ClaudeBilled(Clamped(t)) ELSE OpenAIBilled(Clamped(t))

\* CalculateUsageTokenCost
Cost(t, setting) ==
  LET b == Billed(setting.style, t)
  IN  b.prompt * setting.prompt + b.completion * setting.completion
        + b.cache * setting.cache + b.creation * setting.creation

-----------------------------------------------------------------------------
\* What providers report: counts, and where the cache is a part of the input,
\* no more of it than there is input.
WellFormed(type, t) ==
  /\ t \in TokenCounts
  /\ \A n \in {t.input, t.output, t.reasoning, t.cached, t.read, t.creation, t.total} : n >= 0
  /\ type # "claude" => t.cached <= t.input /\ t.read + t.creation <= t.input

\* The tokens a request took in.
TakenIn(type, t) == IF type = "claude" THEN t.input + t.read + t.creation ELSE t.input

(* Every token of the input is charged once, at one of the prices, whatever *)
(* the provider counts as input and in whichever style its model is priced; *)
(* and what was generated is charged as output.                             *)
ChargedOnce(type, style, t) ==
  LET b == Billed(style, Normalized(type, t))
  IN  /\ b.prompt + b.cache + b.creation = TakenIn(type, t)
      /\ b.completion = t.output + (IF type = "gemini" /\ ReasoningApart(t) THEN t.reasoning ELSE 0)

=============================================================================
