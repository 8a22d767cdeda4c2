\* One call with every combination of abortLosers and the deadline.  A call
\* that is settled, with its attempts ended, stops: no deadlock check.
SPECIFICATION HedgeFairSpec
CHECK_DEADLOCK FALSE
INVARIANTS
    NeverStranded
    WatchesParent
    LosersAreAborted
    FailsExhausted
PROPERTIES
    SettledForGood
    HedgeRescues
