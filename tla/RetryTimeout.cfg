SPECIFICATION FairSpec
CONSTANTS
    MaxAttempts = 3
    Delays <- MCDelays
    MaxTotalDelay = 2
INVARIANTS
    AbandonedIsTold
    ValueIsCurrent
PROPERTIES
    CallEnds
    DeadlineFreesAll
\* A call that is over stops.
CHECK_DEADLOCK FALSE
