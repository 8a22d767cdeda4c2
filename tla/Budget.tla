------------------------------- MODULE Budget -------------------------------
(***************************************************************************)
(* The budget guard of the LLM client, packages/llm/src/budget.ts, with    *)
(* the prices of packages/llm/src/pricing.ts: the in-memory ledger of one  *)
(* accountant, and the two moments at which a request touches it.  It is   *)
(* admitted, with its estimate reserved, before the provider is asked, and *)
(* settled when the answer or the failure is known.                        *)
(*                                                                         *)
(* Amounts are micro-USD.                                                  *)
(***************************************************************************)
EXTENDS Integers, FiniteSets

CONSTANTS
    Rates,          \* createPricingResolver: model -> [input, output], micro-USD per
                    \* Million tokens; other models have no price
    Million,        \* TOKENS_PER_MILLION
    Scopes,         \* the names resolveScope may give
    BudgetOptions   \* [perRequest, accumulated, unknownPricing]: caps, or NoCap

NoCap == -1

\* normalizeBudgetOptions
BudgetOptionsOK(o) ==
    /\ {o.perRequest, o.accumulated} \subseteq Nat \cup {NoCap}
    /\ {o.perRequest, o.accumulated} # {NoCap}
    /\ o.unknownPricing \in {"allow", "reject"}

\* normalizePricingRow
RateOK(rate) == {rate.input, rate.output} \subseteq Nat

ASSUME BudgetAssumption ==
    /\ BudgetOptionsOK(BudgetOptions)
    /\ \A model \in DOMAIN Rates : RateOK(Rates[model])
    /\ Million \in Nat \ {0}
    /\ IsFiniteSet(Scopes)

VARIABLES
    committed,      \* committed[s]: what has been spent in scope s
    reserved        \* reserved[s]: the estimates of the requests on their way

budgetVars == <<committed, reserved>>

BudgetInit ==
    /\ committed = [s \in Scopes |-> 0]
    /\ reserved = [s \in Scopes |-> 0]

\* tokenCostMicroUsd: rounded half up.
TokenCost(tokens, rate) == (2 * tokens * rate + Million) \div (2 * Million)

Priced(r) == r.model \in DOMAIN Rates

\* calculateCost of a response, and estimateCost of a request.  A response
\* without a price costs nothing.
Cost(r) ==
    IF Priced(r)
    THEN TokenCost(r.inputTokens, Rates[r.model].input) + TokenCost(r.outputTokens, Rates[r.model].output)
    ELSE 0

\* Mutant: what is on its way does not count.
AllowedBesideOthers(s, estimate) ==
    /\ BudgetOptions.perRequest # NoCap => estimate <= BudgetOptions.perRequest
    /\ BudgetOptions.accumulated # NoCap => committed[s] + estimate <= BudgetOptions.accumulated

\* evaluateBudget.  A request that costs nothing is refused when the cap is
\* used up.
Allowed(s, estimate) ==
    LET remaining == BudgetOptions.accumulated - committed[s] - reserved[s] IN
    /\ BudgetOptions.perRequest # NoCap => estimate <= BudgetOptions.perRequest
    /\ BudgetOptions.accumulated # NoCap =>
        /\ remaining >= 0
        /\ estimate = 0 => remaining # 0
        /\ estimate <= remaining

Guarded(r) == Priced(r) /\ BudgetOptions.accumulated # NoCap

\* What request r holds of its scope while it is on its way.
Reservation(r) == IF Guarded(r) THEN Cost(r) ELSE 0

\* execute, up to next().
Admit(r) ==
    /\ IF Priced(r) THEN Allowed(r.scope, Cost(r)) ELSE BudgetOptions.unknownPricing = "allow"
    /\ reserved' = [reserved EXCEPT ![r.scope] = @ + Reservation(r)]
    /\ UNCHANGED committed

Refuse(r) ==
    /\ IF Priced(r) THEN ~Allowed(r.scope, Cost(r)) ELSE BudgetOptions.unknownPricing = "reject"
    /\ UNCHANGED budgetVars

\* Mutant: the spending is entered, the reservation stays.
SettleOnlyCommits(r, actual) ==
    /\ committed' = [committed EXCEPT ![r.scope] = IF Guarded(r) THEN @ + actual ELSE @]
    /\ UNCHANGED reserved

\* recordActualCost, or the catch of execute with actual = 0.
Settle(r, actual) ==
    LET left == reserved[r.scope] - Reservation(r) IN
    IF Guarded(r)
    THEN /\ reserved' = [reserved EXCEPT ![r.scope] = IF left > 0 THEN left ELSE 0]
         /\ committed' = [committed EXCEPT ![r.scope] = @ + actual]
    ELSE UNCHANGED budgetVars
=============================================================================
