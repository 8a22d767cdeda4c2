SPECIFICATION Spec
CONSTANTS
    Registrations <- MCRegistrations
    Calls = {"c1"}
    Users = {"u1", "u2", "u3"}
    MaxRetries = 2
    Subscriptions <- MCSubscriptions
    HandlerOf <- MCHandlerOf
    TypeOf <- MCTypeOf
    MaxNesting = 1
INVARIANTS
    DependenciesLive
    StatsAreExact
PROPERTIES
    SubscriptionsHold
    DispatchIsExact
\* A client that is destroyed and unused does nothing.
CHECK_DEADLOCK FALSE
