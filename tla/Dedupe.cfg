\* Four callers: an owner and joiners of one entry, and a caller that meets
\* the entry that supersedes it.
SPECIFICATION FairSpec
CONSTANTS
    c1 = c1  c2 = c2  c3 = c3  c4 = c4
    e1 = e1  e2 = e2  e3 = e3
    None = None
    Callers <- MCCallers
    Entries <- MCEntries
INVARIANTS
    OneInFlight
    CountIsSubscribers
    WaitersAttached
PROPERTIES
    UnusedWorkIsAborted
    CallersAnswered
