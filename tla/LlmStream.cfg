SPECIFICATION FairSpec
CONSTANTS
    MaxAttempts = 3
    MaxFrames = 2
    Errors <- MCErrors
    Providers = {"rejects", "ends", "deaf"}
    RetryOn = FALSE
INVARIANTS
    PumpsAreStopped
PROPERTIES
    Implements
    RetriesAreJustified
    StreamSettles
\* A stream that is over stops.
CHECK_DEADLOCK FALSE
