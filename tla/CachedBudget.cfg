SPECIFICATION Spec
CONSTANTS
    CacheOptions <- MCCacheOptions
    MaxTime = 2
    Rates <- MCRates
    Million = 2
    Scopes = {"s1", "s2"}
    BudgetOptions <- MCBudgetOptions
    Calls = {c1, c2, c3, c4}
    Requests <- MCRequests
    Responses <- MCResponses
SYMMETRY MCSymmetry
INVARIANTS
    LedgerBalances
    SpendCapped
PROPERTIES
    HitIsCurrent
    LiveEntriesStay
\* When every call is over, and the clock stops, so does the system.
CHECK_DEADLOCK FALSE
