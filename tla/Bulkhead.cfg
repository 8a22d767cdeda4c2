\* Two slots, two places in the queue and five callers of one key: every
\* outcome of acquire occurs with the pool full; a sixth caller uses another
\* key, whose entry comes and goes.
SPECIFICATION FairSpec
CONSTANTS
    c1 = c1  c2 = c2  c3 = c3  c4 = c4  c5 = c5  c6 = c6
    busy = busy  quiet = quiet
    Calls <- MCCalls
    Keys <- MCKeys
    KeyOf <- MCKeyOf
    MaxConcurrent = 2
    MaxQueue = 2
    Timed = TRUE
INVARIANTS
    SlotsAccounted
    NoIdleSlotWhileQueued
    EntriesMatchUse
PROPERTIES
    AbstractSpec
    WaiterAnswered
