\* The documented cap on concurrent probes, against calls left over from
\* earlier periods.
SPECIFICATION Spec
CONSTANTS
    c1 = c1  c2 = c2  c3 = c3
    Calls <- MCCalls
    Options <- MCOptions
    MaxSamples = 3
INVARIANT ProbesWithinLimit
