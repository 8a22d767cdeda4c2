\* Three callers: one can be left over from the closed state while two probe.
SPECIFICATION FairSpec
CONSTANTS
    c1 = c1  c2 = c2  c3 = c3
    Calls <- MCCalls
    Options <- MCOptions
    MaxSamples = 3
INVARIANTS
    ClosedWindowIsHealthy
    PermitsHaveProbes
PROPERTIES
    OpenPeriodIsFixed
    NoTrap
