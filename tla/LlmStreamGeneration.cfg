SPECIFICATION FairSpec
CONSTANTS
    MaxAttempts = 2
    MaxFrames = 2
    Errors <- MCErrors
    Providers = {"rejects"}
    RetryOn = TRUE
PROPERTIES
    OneGeneration
CHECK_DEADLOCK FALSE
