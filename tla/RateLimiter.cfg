\* Three callers for two permits; timers and continuations may run late in
\* some of the configurations.
SPECIFICATION FairSpec
CONSTANTS
    c1 = c1  c2 = c2  c3 = c3
    Calls <- MCCalls
    Options <- MCOptions
INVARIANTS
    RateRespected
    SleepSuffices
    WaitsAddUp
PROPERTY WaiterAnswered
