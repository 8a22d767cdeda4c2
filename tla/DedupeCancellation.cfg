\* The documented isolation of cancellations, against callers that join an
\* execution whose abort is already issued.
SPECIFICATION Spec
CONSTANTS
    c1 = c1  c2 = c2  c3 = c3  c4 = c4
    e1 = e1  e2 = e2  e3 = e3
    None = None
    Callers <- MCCallers
    Entries <- MCEntries
INVARIANT CancellationIsOwn
