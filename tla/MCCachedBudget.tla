--------------------------- MODULE MCCachedBudget ---------------------------
(* Three keys for two places, of which two share a scope; an estimate that *)
(* is met, passed and missed by the answers; and a model without a price.  *)
EXTENDS CachedBudget

MCCacheOptions == [ttl |-> 1, maxEntries |-> 2, cacheNull |-> FALSE, cacheUndefined |-> TRUE]
MCBudgetOptions == [perRequest |-> 3, accumulated |-> 4, unknownPricing |-> "allow"]
MCRates == [m \in {"small"} |-> [input |-> 1, output |-> 3]]

MCRequest(key, scope, model, inputTokens, outputTokens) ==
    [key |-> key, scope |-> scope, model |-> model,
     inputTokens |-> inputTokens, outputTokens |-> outputTokens]

\* Estimates of 3, 1, 4 (more than perRequest) and none.
MCRequests == {
    MCRequest("k1", "s1", "small", 1, 1),
    MCRequest("k2", "s1", "small", 2, 0),
    MCRequest("k2", "s1", "small", 2, 2),
    MCRequest("k3", "s2", "other", 1, 1) }

MCResponse(kind, model, inputTokens, outputTokens) ==
    [kind |-> kind, model |-> model, inputTokens |-> inputTokens, outputTokens |-> outputTokens]

\* Costs of 3 (as estimated), 4 and none.
MCResponses == {
    MCResponse("value", "small", 1, 1),
    MCResponse("value", "small", 3, 1),
    MCResponse("null", "none", 0, 0) }

\* The options that normalizeOptions accepts are those of CacheOptionsOK.
JS == INSTANCE MCOptions
ASSUME OptionsCovered ==
    JS!ForCacheOptions(LAMBDA arg :
        JS!CacheAccepts(arg) /\ JS!AllWhole(JS!CacheOptionsRead(arg)) =>
            CacheOptionsOK(JS!CacheStudied(JS!CacheOptionsRead(arg))))

MCSymmetry == Permutations(Calls)
=============================================================================
