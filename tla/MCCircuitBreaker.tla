-------------------------- MODULE MCCircuitBreaker --------------------------
(* Two configurations of CircuitBreaker: a count window with slow calls    *)
(* and two probes, and a time window with a single probe.                  *)
EXTENDS CircuitBreaker, MCOutcomes

CONSTANTS c1, c2, c3

MCCalls == {c1, c2, c3}

CountWindow ==
    [window |-> "count", width |-> 3, failureRate |-> 50,
     slowCall |-> 2, slowRate |-> 100, minimum |-> 2,
     reset |-> 1, maxProbes |-> 2, successes |-> 2]

TimeWindow ==
    [window |-> "time", width |-> 2, failureRate |-> 60,
     slowCall |-> 0, slowRate |-> 100, minimum |-> 2,
     reset |-> 2, maxProbes |-> 1, successes |-> 1]

MCOptions == {CountWindow, TimeWindow}

\* The options that normalizeOptions accepts are those of OptionOK, when they
\* are whole numbers.
JS == INSTANCE MCOptions
ASSUME OptionsCovered ==
    JS!ForBreakerOptions(LAMBDA arg :
        JS!BreakerAccepts(arg) /\ JS!AllWhole(JS!BreakerOptions(arg)) =>
            OptionOK(JS!BreakerStudied(JS!BreakerOptions(arg))))
=============================================================================
