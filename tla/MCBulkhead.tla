----------------------------- MODULE MCBulkhead -----------------------------
(* Bulkhead on one busy key and one key with a single caller.              *)
EXTENDS Bulkhead

CONSTANTS c1, c2, c3, c4, c5, c6, busy, quiet

MCCalls == {c1, c2, c3, c4, c5, c6}
MCKeys == {busy, quiet}
MCKeyOf == [c \in MCCalls |-> IF c = c6 THEN quiet ELSE busy]

\* The options that normalizeOptions accepts are those of BulkheadAssumption.
JS == INSTANCE MCOptions
ASSUME OptionsCovered ==
    JS!ForBulkheadOptions(LAMBDA arg :
        JS!BulkheadAccepts(arg) =>
        LET o == JS!BulkheadStudied(JS!BulkheadOptions(arg)) IN
        /\ o.maxConcurrent \in Nat \ {0}
        /\ o.maxQueue \in Nat
        /\ o.timed => o.maxQueue > 0)
=============================================================================
