--------------------------- MODULE CircuitBreaker ---------------------------
(***************************************************************************)
(* The circuit-breaker policy: policies/circuit-breaker/index.ts, for one  *)
(* key.  The circuits of different keys share no state.                    *)
(*                                                                         *)
(* beforeCall and the handlers of a finished call (afterSuccess,           *)
(* afterError) are synchronous, so each is one action per branch; between  *)
(* them the operation runs and other calls come and go.  A permit does not *)
(* say in which state it was granted: a call admitted while the circuit    *)
(* was closed may finish while it is open or half-open, and is recorded by *)
(* the state it meets then.                                                *)
(*                                                                         *)
(* Time stamps are replaced by the time elapsed since, up to the option    *)
(* they are compared with; Tick lets one unit pass.  What the classifier   *)
(* says of an outcome is any Boolean, unless it throws.                    *)
(***************************************************************************)
EXTENDS Naturals, Sequences, FiniteSets

CONSTANTS
    Calls,       \* call sites; each runs one call after another
    Options,     \* the configurations under study
    MaxSamples   \* bound: samples and calls that may meet in a time window

\* What normalizeOptions accepts.  A count window has a size, a time window
\* a duration; both are "width".
OptionOK(o) ==
    /\ o.window \in {"count", "time"}
    /\ o.width \in Nat \ {0}
    /\ o.failureRate \in 1..100
    /\ o.slowCall \in Nat
    /\ o.slowRate \in 1..100
    /\ o.minimum \in Nat \ {0}
    /\ o.window = "count" => o.minimum <= o.width
    /\ o.reset \in Nat \ {0}
    /\ o.maxProbes \in Nat \ {0}
    /\ o.successes \in 1..o.maxProbes

ASSUME BreakerAssumption ==
    /\ IsFiniteSet(Calls)
    /\ MaxSamples \in Nat \ {0}
    /\ \A o \in Options : OptionOK(o)

VARIABLES
    opt,         \* the configuration, fixed by create
    state,       \* "closed", "open" or "half_open"
    openedFor,   \* time since openedAt, up to resetTimeoutMs
    active,      \* halfOpenActive
    successes,   \* halfOpenSuccesses
    samples,     \* the window, oldest first
    inflight,    \* the calls that run their operation
    elapsed,     \* elapsed[c]: time since c was admitted, up to slowCallDurationMs
    probes,      \* history: running calls admitted in this half-open period
    lost         \* history: those of them that have ended without a record

breaker == <<state, openedFor, active, successes, samples>>
vars == <<opt, breaker, inflight, elapsed, probes, lost>>

Sample == [failure : BOOLEAN, slow : BOOLEAN, age : Nat]

Init ==
    /\ opt \in Options
    /\ state = "closed"
    /\ openedFor = 0
    /\ active = 0
    /\ successes = 0
    /\ samples = <<>>
    /\ inflight = {}
    /\ elapsed = [c \in Calls |-> 0]
    /\ probes = {}
    /\ lost = 0
-----------------------------------------------------------------------------
(* Time *)

\* One unit more, up to the option the duration is compared with.
Later(n, limit) == IF n < limit THEN n + 1 ELSE n

\* Only a time window looks at the age of a sample.
SampleLimit == IF opt.window = "time" THEN opt.width ELSE 0

Tick ==
    /\ openedFor' = IF state = "open" THEN Later(openedFor, opt.reset) ELSE openedFor
    /\ samples' = [i \in DOMAIN samples |->
                    [samples[i] EXCEPT !.age = Later(@, SampleLimit)]]
    /\ elapsed' = [c \in Calls |->
                    IF c \in inflight THEN Later(elapsed[c], opt.slowCall) ELSE elapsed[c]]
    /\ UNCHANGED <<opt, state, active, successes, inflight, probes, lost>>
-----------------------------------------------------------------------------
(* beforeCall *)

Start(c) ==
    /\ inflight' = inflight \cup {c}
    /\ elapsed' = [elapsed EXCEPT ![c] = 0]

\* The bound of the model: with a time window any number of calls could
\* finish within one unit of time.
RoomInWindow ==
    opt.window = "time" =>
        Cardinality({i \in DOMAIN samples : samples[i].age < opt.width})
            + Cardinality(inflight) < MaxSamples

AdmitClosed(c) ==
    /\ c \notin inflight
    /\ state = "closed"
    /\ RoomInWindow
    /\ Start(c)
    /\ UNCHANGED <<opt, breaker, probes, lost>>

\* Mutant: the reset timeout is not awaited.
AdmitFirstProbeAtOnce(c) ==
    /\ c \notin inflight
    /\ state = "open"
    /\ state' = "half_open"
    /\ active' = 1
    /\ successes' = 0
    /\ probes' = {c}
    /\ Start(c)
    /\ UNCHANGED <<opt, openedFor, samples, lost>>

\* The reset timeout is over: the call that notices becomes the first probe.
AdmitFirstProbe(c) ==
    /\ c \notin inflight
    /\ state = "open"
    /\ openedFor >= opt.reset
    /\ state' = "half_open"
    /\ active' = 1
    /\ successes' = 0
    /\ probes' = {c}
    /\ Start(c)
    /\ UNCHANGED <<opt, openedFor, samples, lost>>

AdmitProbe(c) ==
    /\ c \notin inflight
    /\ state = "half_open"
    /\ active < opt.maxProbes
    /\ active' = active + 1
    /\ probes' = probes \cup {c}
    /\ Start(c)
    /\ UNCHANGED <<opt, state, openedFor, successes, samples, lost>>

\* CircuitOpenError: the circuit and the caller are where they were.
RejectCall(c) ==
    /\ c \notin inflight
    /\ \/ state = "open" /\ openedFor < opt.reset
       \/ state = "half_open" /\ active >= opt.maxProbes
    /\ UNCHANGED vars
-----------------------------------------------------------------------------
(* afterSuccess, afterError *)

IsSlow(c) == opt.slowCall > 0 /\ elapsed[c] >= opt.slowCall

Finish(c) ==
    /\ c \in inflight
    /\ inflight' = inflight \ {c}
    /\ probes' = probes \ {c}
    /\ UNCHANGED <<opt, elapsed>>

Decremented(n) == IF n > 0 THEN n - 1 ELSE 0

\* #open; the window is kept.
Open ==
    /\ state' = "open"
    /\ openedFor' = 0
    /\ active' = 0
    /\ successes' = 0
    /\ lost' = 0

\* Mutant: a failed probe is dropped and its permit is never given back.
ProbeFailsUnnoticed(c, failure) ==
    /\ Finish(c)
    /\ state = "half_open"
    /\ failure \/ IsSlow(c)
    /\ UNCHANGED <<breaker, lost>>

\* Half-open: one failure or slow call reopens.
ProbeFails(c, failure) ==
    /\ Finish(c)
    /\ state = "half_open"
    /\ failure \/ IsSlow(c)
    /\ Open
    /\ UNCHANGED samples

\* Mutant: a passed probe keeps its permit.
ProbePassesKeepsPermit(c, failure) ==
    /\ Finish(c)
    /\ state = "half_open"
    /\ ~failure /\ ~IsSlow(c)
    /\ successes + 1 < opt.successes
    /\ successes' = successes + 1
    /\ UNCHANGED <<state, openedFor, active, samples, lost>>

ProbePasses(c, failure) ==
    /\ Finish(c)
    /\ state = "half_open"
    /\ ~failure /\ ~IsSlow(c)
    /\ successes + 1 < opt.successes
    /\ active' = Decremented(active)
    /\ successes' = successes + 1
    /\ UNCHANGED <<state, openedFor, samples, lost>>

\* Mutant: closing keeps the window that opened the circuit.
ProbeClosesKeepsWindow(c, failure) ==
    /\ Finish(c)
    /\ state = "half_open"
    /\ ~failure /\ ~IsSlow(c)
    /\ successes + 1 >= opt.successes
    /\ state' = "closed"
    /\ openedFor' = 0
    /\ active' = 0
    /\ successes' = 0
    /\ lost' = 0
    /\ UNCHANGED samples

\* #close: counters and window start over.
ProbeCloses(c, failure) ==
    /\ Finish(c)
    /\ state = "half_open"
    /\ ~failure /\ ~IsSlow(c)
    /\ successes + 1 >= opt.successes
    /\ state' = "closed"
    /\ openedFor' = 0
    /\ active' = 0
    /\ successes' = 0
    /\ lost' = 0
    /\ samples' = <<>>

\* Open: the result of a call admitted earlier is dropped.
LateResult(c, failure) ==
    /\ Finish(c)
    /\ state = "open"
    /\ UNCHANGED <<breaker, lost>>

\* The classifier throws at an error, or at a value and then at its own error:
\* the call ends unrecorded, and a permit that it holds stays taken.
ResultUnrecorded(c) ==
    /\ Finish(c)
    /\ lost' = IF state = "half_open" /\ c \in probes THEN lost + 1 ELSE lost
    /\ UNCHANGED breaker

\* #trimSamples: a count window keeps the newest, a time window drops from
\* the front what has grown too old.
Trimmed(s) ==
    LET expired == {i \in DOMAIN s : \A j \in 1..i : s[j].age >= opt.width}
        surplus == IF Len(s) > opt.width THEN Len(s) - opt.width ELSE 0
        dropped == IF opt.window = "count" THEN surplus ELSE Cardinality(expired)
    IN  SubSeq(s, dropped + 1, Len(s))

Share(s, Test(_)) == 100 * Cardinality({i \in DOMAIN s : Test(s[i])})

IsFailed(sample) == sample.failure
IsSlowSample(sample) == sample.slow

\* #evaluateClosed
Trips(s) ==
    /\ Len(s) >= opt.minimum
    /\ \/ Share(s, IsFailed) >= opt.failureRate * Len(s)
       \/ opt.slowCall > 0 /\ Share(s, IsSlowSample) >= opt.slowRate * Len(s)

\* Closed: the outcome enters the window, which decides.
Recorded(c, failure) ==
    Trimmed(Append(samples, [failure |-> failure, slow |-> IsSlow(c), age |-> 0]))

RecordStaysClosed(c, failure) ==
    /\ Finish(c)
    /\ state = "closed"
    /\ samples' = Recorded(c, failure)
    /\ ~Trips(Recorded(c, failure))
    /\ UNCHANGED <<state, openedFor, active, successes, lost>>

RecordOpens(c, failure) ==
    /\ Finish(c)
    /\ state = "closed"
    /\ samples' = Recorded(c, failure)
    /\ Trips(Recorded(c, failure))
    /\ Open

Result(c, failure) ==
    \/ ProbeFails(c, failure) \/ ProbePasses(c, failure) \/ ProbeCloses(c, failure)
    \/ LateResult(c, failure)
    \/ RecordStaysClosed(c, failure) \/ RecordOpens(c, failure)

Probe(c) == AdmitFirstProbe(c) \/ AdmitProbe(c)

Next ==
    \/ Tick
    \/ \E c \in Calls : AdmitClosed(c) \/ Probe(c) \/ RejectCall(c)
    \/ \E c \in Calls, failure \in BOOLEAN : Result(c, failure)
    \/ \E c \in Calls : ResultUnrecorded(c)

Spec == Init /\ [][Next]_vars

\* Time passes, running operations finish (a timeout inside the breaker
\* sees to it) and callers keep trying a circuit that would admit them.
Fairness ==
    /\ WF_vars(Tick)
    /\ \A c \in Calls : WF_vars(\E failure \in BOOLEAN : Result(c, failure))
    /\ WF_vars(\E c \in Calls : Probe(c))

FairSpec == Spec /\ Fairness
-----------------------------------------------------------------------------
(* Properties *)

TypeOK ==
    /\ opt \in Options
    /\ state \in {"closed", "open", "half_open"}
    /\ openedFor \in 0..opt.reset
    /\ active \in 0..opt.maxProbes
    /\ successes \in 0..(opt.successes - 1)
    /\ samples \in Seq(Sample)
    /\ inflight \subseteq Calls
    /\ elapsed \in [Calls -> Nat]
    /\ probes \subseteq inflight
    /\ lost \in Nat

\* A closed circuit is never one whose window would open it: the window is
\* judged at every result and starts empty after a recovery, so old failures
\* do not come back (#recordResult, #evaluateClosed, #close).
ClosedWindowIsHealthy == state = "closed" => ~Trips(samples)

\* A half-open permit in use has a running probe behind it, however results
\* of older calls are counted, unless the classifier threw at the result of
\* its probe: nothing else leaves permits that nobody will give back.  Outside
\* half-open no permit is in use.
PermitsHaveProbes ==
    /\ active <= Cardinality(probes) + lost
    /\ state # "half_open" => active = 0 /\ successes = 0 /\ lost = 0

\* What happens to calls admitted earlier neither prolongs nor shortens an
\* open period: openedAt stays, and only the end of the reset timeout leads
\* out of it, to half-open (beforeCall, #recordResult).
OpenPeriodIsFixed ==
    [][state = "open" =>
        \/ state' = "open" /\ openedFor' >= openedFor
        \/ state' = "half_open" /\ openedFor = opt.reset]_vars

\* All permits are taken, some of them by probes at whose results the
\* classifier threw, and no probe is running: every further call is rejected.
\* docs/INTERNAL_DESIGN.md:202 would have the permit released in a finally.
Saturated == lost > 0 /\ active = opt.maxProbes /\ probes = {}

\* With traffic, an open circuit is probed again and a half-open one is
\* decided: neither state is a trap (beforeCall, #recordResult), as long as
\* permits are not lost to a classifier that throws.
NoTrap ==
    /\ state = "open" ~> state = "half_open"
    /\ state = "half_open" ~> state # "half_open" \/ Saturated

\* docs/core/circuit-breaker.md:71: "While half-open, it admits up to
\* halfOpenMaxCalls concurrent probes and rejects the rest".  Calls admitted
\* in this half-open period and still running are at most that many.
ProbesWithinLimit ==
    state = "half_open" => Cardinality(probes) <= opt.maxProbes
=============================================================================
