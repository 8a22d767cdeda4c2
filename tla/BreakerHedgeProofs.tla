------------------------- MODULE BreakerHedgeProofs -------------------------
(***************************************************************************)
(* Proofs about CircuitBreaker for any finite set of callers and every     *)
(* configuration that normalizeOptions accepts, count or time window; and  *)
(* about Hedge, for every order of its callbacks.  The two policies share  *)
(* neither state nor names.                                                *)
(***************************************************************************)
EXTENDS CircuitBreaker, Hedge, FiniteSetTheorems, SequenceTheorems, TLAPS

-----------------------------------------------------------------------------
(* Type correctness *)

\* What a configuration in use satisfies.
LEMMA OptionType ==
    ASSUME opt \in Options
    PROVE  OptionOK(opt)
BY BreakerAssumption

\* Dropping samples from the front of a window leaves a window.
LEMMA TrimmedType ==
    ASSUME opt \in Options, NEW s \in Seq(Sample)
    PROVE  Trimmed(s) \in Seq(Sample)
<1>1. OptionOK(opt)
  BY OptionType
<1>2. ASSUME NEW n \in Nat PROVE SubSeq(s, n + 1, Len(s)) \in Seq(Sample)
  BY <1>2
<1>3. Cardinality({i \in DOMAIN s : \A j \in 1..i : s[j].age >= opt.width}) \in Nat
  <2>1. DOMAIN s = 1..Len(s) /\ Len(s) \in Nat
    OBVIOUS
  <2>2. IsFiniteSet(1..Len(s))
    BY <2>1, FS_Interval
  <2>3. IsFiniteSet({i \in DOMAIN s : \A j \in 1..i : s[j].age >= opt.width})
    BY <2>1, <2>2, FS_Subset
  <2>. QED  BY <2>3, FS_CardinalityType
<1>4. (IF Len(s) > opt.width THEN Len(s) - opt.width ELSE 0) \in Nat
  BY <1>1 DEF OptionOK
<1>5. CASE opt.window = "count"
  BY <1>2, <1>4, <1>5 DEF Trimmed
<1>6. CASE opt.window # "count"
  BY <1>2, <1>3, <1>6 DEF Trimmed
<1>. QED  BY <1>5, <1>6

\* The window after a result is a window.
LEMMA RecordedType ==
    ASSUME TypeOK, NEW c \in Calls, NEW failure \in BOOLEAN
    PROVE  Recorded(c, failure) \in Seq(Sample)
<1>1. [failure |-> failure, slow |-> IsSlow(c), age |-> 0] \in Sample
  <2>1. IsSlow(c) \in BOOLEAN
    BY DEF IsSlow
  <2>. QED  BY <2>1 DEF Sample
<1>2. Append(samples, [failure |-> failure, slow |-> IsSlow(c), age |-> 0]) \in Seq(Sample)
  BY <1>1 DEF TypeOK
<1>. QED  BY <1>2, TrimmedType DEF Recorded, TypeOK

\* Time, admission and every kind of result keep the state well formed.
LEMMA TypeStep == TypeOK /\ [Next]_vars => TypeOK'
<1>. SUFFICES ASSUME TypeOK, [Next]_vars PROVE TypeOK'
  OBVIOUS
<1>o. OptionOK(opt)
  BY OptionType DEF TypeOK
<1>1. CASE Tick
  <2>1. /\ openedFor' \in 0..opt.reset
        /\ elapsed' \in [Calls -> Nat]
    BY <1>1, <1>o DEF TypeOK, Tick, Later, OptionOK
  <2>2. samples' \in Seq(Sample)
    <3>1. /\ Len(samples) \in Nat
          /\ DOMAIN samples = 1..Len(samples)
      BY DEF TypeOK
    <3>2. SampleLimit \in Nat
      BY <1>o DEF OptionOK, SampleLimit
    <3>3. ASSUME NEW i \in DOMAIN samples
          PROVE  [samples[i] EXCEPT !.age = Later(@, SampleLimit)] \in Sample
      <4>1. samples[i] \in Sample
        BY DEF TypeOK
      <4>2. samples[i].age \in Nat
        BY <4>1 DEF Sample
      <4>3. Later(samples[i].age, SampleLimit) \in Nat
        BY <4>2 DEF Later
      <4>. QED  BY <4>1, <4>3 DEF Sample
    <3>4. samples' \in [1..Len(samples) -> Sample]
      BY <1>1, <3>1, <3>3 DEF Tick
    <3>. QED  BY <3>1, <3>4
  <2>. QED  BY <1>1, <2>1, <2>2 DEF Tick, TypeOK
<1>2. ASSUME NEW c \in Calls, AdmitClosed(c) PROVE TypeOK'
  BY <1>2 DEF TypeOK, AdmitClosed, Start, breaker
<1>3. ASSUME NEW c \in Calls, AdmitFirstProbe(c) PROVE TypeOK'
  <2>1. /\ opt.maxProbes \in Nat \ {0} /\ opt.successes \in Nat \ {0}
    BY <1>o DEF OptionOK
  <2>2. state' = "half_open" /\ active' = 1 /\ successes' = 0
    BY <1>3 DEF AdmitFirstProbe
  <2>3. active' \in 0..opt.maxProbes /\ successes' \in 0..(opt.successes - 1)
    BY <2>1, <2>2
  <2>4. elapsed' \in [Calls -> Nat] /\ inflight' \subseteq Calls /\ probes' \subseteq inflight'
    BY <1>3 DEF TypeOK, AdmitFirstProbe, Start
  <2>5. UNCHANGED <<opt, openedFor, samples>>
    BY <1>3 DEF AdmitFirstProbe
  <2>6. lost' = lost
    BY <1>3 DEF AdmitFirstProbe
  <2>. QED  BY <2>2, <2>3, <2>4, <2>5, <2>6 DEF TypeOK
<1>4. ASSUME NEW c \in Calls, AdmitProbe(c) PROVE TypeOK'
  <2>1. /\ active' \in 0..opt.maxProbes
        /\ UNCHANGED <<opt, state, openedFor, successes, samples, lost>>
    BY <1>4, <1>o DEF TypeOK, AdmitProbe, OptionOK
  <2>2. elapsed' \in [Calls -> Nat] /\ inflight' \subseteq Calls /\ probes' \subseteq inflight'
    BY <1>4 DEF TypeOK, AdmitProbe, Start
  <2>. QED  BY <2>1, <2>2 DEF TypeOK
<1>5. ASSUME NEW c \in Calls, RejectCall(c) PROVE TypeOK'
  BY <1>5 DEF TypeOK, RejectCall, vars, breaker
<1>6. ASSUME NEW c \in Calls, NEW failure \in BOOLEAN,
             ProbeFails(c, failure) \/ ProbeCloses(c, failure) \/ LateResult(c, failure)
      PROVE  TypeOK'
  <2>1. /\ opt' = opt
        /\ probes' = probes \ {c}
        /\ inflight' = inflight \ {c}
        /\ elapsed' = elapsed
    BY <1>6 DEF ProbeFails, ProbeCloses, LateResult, Finish
  <2>2. CASE ProbeFails(c, failure) \/ ProbeCloses(c, failure)
    <3>1. 0 \in 0..opt.reset /\ 0 \in 0..opt.maxProbes /\ 0 \in 0..(opt.successes - 1)
      BY <1>o DEF OptionOK
    <3>2. <<>> \in Seq(Sample)
      OBVIOUS
    <3>3. /\ state' \in {"closed", "open"}
          /\ openedFor' = 0 /\ active' = 0 /\ successes' = 0 /\ lost' = 0
          /\ samples' = samples \/ samples' = <<>>
      BY <2>2 DEF ProbeFails, ProbeCloses, Open
    <3>. QED  BY <2>1, <3>1, <3>2, <3>3 DEF TypeOK
  <2>3. CASE LateResult(c, failure)
    BY <2>1, <2>3 DEF TypeOK, LateResult, breaker
  <2>. QED  BY <1>6, <2>2, <2>3
<1>7. ASSUME NEW c \in Calls, NEW failure \in BOOLEAN, ProbePasses(c, failure)
      PROVE  TypeOK'
  <2>1. /\ opt.maxProbes \in Nat /\ opt.successes \in Nat
    BY <1>o DEF OptionOK
  <2>2. active' \in 0..opt.maxProbes
    BY <1>7, <2>1 DEF TypeOK, ProbePasses, Decremented
  <2>3. successes' \in 0..(opt.successes - 1)
    BY <1>7, <2>1 DEF TypeOK, ProbePasses
  <2>4. UNCHANGED <<opt, state, openedFor, samples, elapsed, lost>>
    BY <1>7 DEF ProbePasses, Finish
  <2>5. inflight' \subseteq Calls /\ probes' \subseteq inflight'
    BY <1>7 DEF TypeOK, ProbePasses, Finish
  <2>. QED  BY <2>2, <2>3, <2>4, <2>5 DEF TypeOK
<1>8. ASSUME NEW c \in Calls, NEW failure \in BOOLEAN,
             RecordStaysClosed(c, failure) \/ RecordOpens(c, failure)
      PROVE  TypeOK'
  <2>1. samples' \in Seq(Sample)
    BY <1>8, RecordedType DEF RecordStaysClosed, RecordOpens
  <2>2. /\ opt' = opt /\ elapsed' = elapsed
        /\ inflight' \subseteq Calls /\ probes' \subseteq inflight'
    BY <1>8 DEF TypeOK, RecordStaysClosed, RecordOpens, Finish
  <2>3. 0 \in 0..opt.reset /\ 0 \in 0..opt.maxProbes /\ 0 \in 0..(opt.successes - 1)
    BY <1>o DEF OptionOK
  <2>4. /\ state' \in {"closed", "open"}
        /\ openedFor' = openedFor \/ openedFor' = 0
        /\ active' = active \/ active' = 0
        /\ successes' = successes \/ successes' = 0
        /\ lost' = lost \/ lost' = 0
    BY <1>8 DEF RecordStaysClosed, RecordOpens, Open
  <2>. QED  BY <2>1, <2>2, <2>3, <2>4 DEF TypeOK
<1>9. CASE UNCHANGED vars
  BY <1>9 DEF TypeOK, vars, breaker
<1>10. ASSUME NEW c \in Calls, ResultUnrecorded(c) PROVE TypeOK'
  BY <1>10 DEF TypeOK, ResultUnrecorded, Finish, breaker
<1>. QED
  BY <1>1, <1>2, <1>3, <1>4, <1>5, <1>6, <1>7, <1>8, <1>9, <1>10 DEF Next, Probe, Result

\* Every state of the circuit is well formed, its counters within the limits
\* of the configuration.
THEOREM TypeCorrect == Spec => []TypeOK
<1>1. Init => TypeOK
  <2>. SUFFICES ASSUME Init PROVE TypeOK
    OBVIOUS
  <2>1. OptionOK(opt)
    BY OptionType DEF Init
  <2>. QED  BY <2>1 DEF Init, TypeOK, OptionOK
<1>. QED  BY <1>1, TypeStep, PTL DEF Spec
-----------------------------------------------------------------------------
(* Permits *)

\* Probes are finitely many, and one more or less counts as one.
LEMMA ProbeCount ==
    ASSUME TypeOK
    PROVE  /\ Cardinality(probes) \in Nat
           /\ \A c : c \notin probes => Cardinality(probes \cup {c}) = Cardinality(probes) + 1
           /\ \A c : c \in probes => Cardinality(probes \ {c}) = Cardinality(probes) - 1
           /\ \A c : c \notin probes => probes \ {c} = probes
<1>1. probes \in SUBSET Calls
  BY DEF TypeOK
<1>2. IsFiniteSet(probes)
  BY <1>1, FS_Subset, BreakerAssumption
<1>. QED  BY <1>2, FS_CardinalityType, FS_AddElement, FS_RemoveElement

\* A result takes at most one probe away, and the permit of one with it.
LEMMA PermitStep == TypeOK /\ PermitsHaveProbes /\ [Next]_vars => PermitsHaveProbes'
<1>. SUFFICES ASSUME TypeOK, PermitsHaveProbes, [Next]_vars PROVE PermitsHaveProbes'
  OBVIOUS
<1>n. /\ active \in Nat
      /\ lost \in Nat
      /\ Cardinality(probes) \in Nat
      /\ Cardinality(probes') \in Nat
  <2>1. OptionOK(opt)
    BY OptionType DEF TypeOK
  <2>2. TypeOK'
    BY TypeStep
  <2>3. probes' \in SUBSET Calls
    BY <2>2 DEF TypeOK
  <2>4. IsFiniteSet(probes')
    BY <2>3, FS_Subset, BreakerAssumption
  <2>. QED  BY <2>1, <2>4, ProbeCount, FS_CardinalityType DEF TypeOK, OptionOK
<1>1. CASE Tick
  BY <1>1 DEF Tick, PermitsHaveProbes
<1>2. ASSUME NEW c \in Calls, AdmitClosed(c) \/ RejectCall(c) PROVE PermitsHaveProbes'
  BY <1>2 DEF AdmitClosed, RejectCall, vars, breaker, PermitsHaveProbes
<1>3. ASSUME NEW c \in Calls, AdmitFirstProbe(c) PROVE PermitsHaveProbes'
  <2>1. Cardinality({c}) = 1
    BY FS_Singleton
  <2>. QED  BY <1>3, <2>1 DEF AdmitFirstProbe, PermitsHaveProbes
<1>4. ASSUME NEW c \in Calls, AdmitProbe(c) PROVE PermitsHaveProbes'
  <2>1. c \notin probes
    BY <1>4 DEF AdmitProbe, TypeOK
  <2>. QED  BY <1>4, <1>n, <2>1, ProbeCount DEF AdmitProbe, PermitsHaveProbes
<1>5. ASSUME NEW c \in Calls, NEW failure \in BOOLEAN,
             ProbeFails(c, failure) \/ ProbeCloses(c, failure) \/ RecordOpens(c, failure)
      PROVE  PermitsHaveProbes'
  BY <1>5, <1>n DEF ProbeFails, ProbeCloses, RecordOpens, Open, PermitsHaveProbes
<1>6. ASSUME NEW c \in Calls, NEW failure \in BOOLEAN,
             LateResult(c, failure) \/ RecordStaysClosed(c, failure)
      PROVE  PermitsHaveProbes'
  BY <1>6, <1>n DEF LateResult, RecordStaysClosed, breaker, PermitsHaveProbes
<1>7. ASSUME NEW c \in Calls, NEW failure \in BOOLEAN, ProbePasses(c, failure)
      PROVE  PermitsHaveProbes'
  <2>1. /\ active' = Decremented(active)
        /\ state' = "half_open" /\ lost' = lost
        /\ probes' = probes \ {c}
    BY <1>7 DEF ProbePasses, Finish
  <2>2. CASE c \in probes
    <3>1. Cardinality(probes') = Cardinality(probes) - 1
      BY <2>1, <2>2, ProbeCount
    <3>. QED  BY <1>n, <2>1, <3>1 DEF Decremented, PermitsHaveProbes
  <2>3. CASE c \notin probes
    <3>1. probes' = probes
      BY <2>1, <2>3
    <3>. QED  BY <1>n, <2>1, <3>1 DEF Decremented, PermitsHaveProbes
  <2>. QED  BY <2>2, <2>3
<1>8. CASE UNCHANGED vars
  BY <1>8 DEF vars, breaker, PermitsHaveProbes
<1>9. ASSUME NEW c \in Calls, ResultUnrecorded(c) PROVE PermitsHaveProbes'
  <2>1. UNCHANGED <<state, active, successes>> /\ probes' = probes \ {c}
    BY <1>9 DEF ResultUnrecorded, Finish, breaker
  <2>2. CASE c \in probes /\ state = "half_open"
    <3>1. Cardinality(probes') = Cardinality(probes) - 1 /\ lost' = lost + 1
      BY <1>9, <2>1, <2>2, ProbeCount DEF ResultUnrecorded
    <3>. QED  BY <1>n, <2>1, <2>2, <3>1 DEF PermitsHaveProbes
  <2>3. CASE c \in probes /\ state # "half_open"
    <3>1. lost' = lost
      BY <1>9, <2>3 DEF ResultUnrecorded
    <3>. QED  BY <1>n, <2>1, <2>3, <3>1 DEF PermitsHaveProbes
  <2>4. CASE c \notin probes
    <3>1. probes' = probes /\ lost' = lost
      BY <1>9, <2>1, <2>4 DEF ResultUnrecorded
    <3>. QED  BY <2>1, <3>1 DEF PermitsHaveProbes
  <2>. QED  BY <2>2, <2>3, <2>4
<1>. QED
  BY <1>1, <1>2, <1>3, <1>4, <1>5, <1>6, <1>7, <1>8, <1>9 DEF Next, Probe, Result

\* A permit in use has a running probe behind it, or one at whose result the
\* classifier threw: nothing else can saturate a half-open circuit.
THEOREM PermitsAreHeld == Spec => []PermitsHaveProbes
<1>1. Init => PermitsHaveProbes
  BY FS_EmptySet DEF Init, PermitsHaveProbes
<1>. QED  BY <1>1, PermitStep, TypeCorrect, PTL DEF Spec
-----------------------------------------------------------------------------
(* The window of a closed circuit *)

\* Ageing leaves what the thresholds look at.
LEMMA TripsIgnoresAge ==
    ASSUME TypeOK, Tick
    PROVE  Trips(samples)' <=> Trips(samples)
<1>1. /\ opt' = opt
      /\ Len(samples) \in Nat
      /\ DOMAIN samples = 1..Len(samples)
      /\ samples' = [i \in 1..Len(samples) |->
                        [samples[i] EXCEPT !.age = Later(@, SampleLimit)]]
  BY DEF Tick, TypeOK
<1>2. /\ DOMAIN samples' = DOMAIN samples
      /\ Len(samples') = Len(samples)
  BY <1>1
<1>3. ASSUME NEW i \in DOMAIN samples
      PROVE  /\ samples'[i].failure = samples[i].failure
             /\ samples'[i].slow = samples[i].slow
  <2>1. samples[i] \in Sample
    BY DEF TypeOK
  <2>. QED  BY <1>1, <2>1 DEF Sample
<1>4. /\ {i \in DOMAIN samples' : samples'[i].failure} = {i \in DOMAIN samples : samples[i].failure}
      /\ {i \in DOMAIN samples' : samples'[i].slow} = {i \in DOMAIN samples : samples[i].slow}
  BY <1>2, <1>3
<1>. QED  BY <1>1, <1>2, <1>4 DEF Trips, Share, IsFailed, IsSlowSample

\* Results are judged when they are recorded, and recovery empties the window.
LEMMA HealthStep == TypeOK /\ ClosedWindowIsHealthy /\ [Next]_vars => ClosedWindowIsHealthy'
<1>. SUFFICES ASSUME TypeOK, ClosedWindowIsHealthy, [Next]_vars PROVE ClosedWindowIsHealthy'
  OBVIOUS
<1>1. CASE Tick
  <2>1. state' = state
    BY <1>1 DEF Tick
  <2>2. Trips(samples)' <=> Trips(samples)
    BY <1>1, TripsIgnoresAge
  <2>. QED  BY <2>1, <2>2 DEF ClosedWindowIsHealthy
<1>2. ASSUME opt' = opt, samples' = samples, state' = state PROVE ClosedWindowIsHealthy'
  <2>1. Trips(samples)' <=> Trips(samples)
    BY <1>2 DEF Trips, Share, IsFailed, IsSlowSample
  <2>. QED  BY <1>2, <2>1 DEF ClosedWindowIsHealthy
<1>3. ASSUME state' # "closed" PROVE ClosedWindowIsHealthy'
  BY <1>3 DEF ClosedWindowIsHealthy
<1>4. ASSUME NEW c \in Calls, AdmitClosed(c) \/ RejectCall(c) PROVE ClosedWindowIsHealthy'
  BY <1>2, <1>4 DEF AdmitClosed, RejectCall, vars, breaker
<1>5. ASSUME NEW c \in Calls, Probe(c) PROVE ClosedWindowIsHealthy'
  BY <1>3, <1>5 DEF Probe, AdmitFirstProbe, AdmitProbe
<1>6. ASSUME NEW c \in Calls, NEW failure \in BOOLEAN,
             ProbeFails(c, failure) \/ ProbePasses(c, failure) \/ LateResult(c, failure)
                \/ RecordOpens(c, failure)
      PROVE  ClosedWindowIsHealthy'
  BY <1>3, <1>6 DEF ProbeFails, ProbePasses, LateResult, RecordOpens, Open, breaker
<1>7. ASSUME NEW c \in Calls, NEW failure \in BOOLEAN, ProbeCloses(c, failure)
      PROVE  ClosedWindowIsHealthy'
  <2>1. opt' = opt /\ Len(samples') = 0
    BY <1>7 DEF ProbeCloses, Finish
  <2>2. opt.minimum \in Nat \ {0}
    BY OptionType DEF TypeOK, OptionOK
  <2>. QED  BY <2>1, <2>2 DEF ClosedWindowIsHealthy, Trips
<1>8. ASSUME NEW c \in Calls, NEW failure \in BOOLEAN, RecordStaysClosed(c, failure)
      PROVE  ClosedWindowIsHealthy'
  <2>1. opt' = opt /\ samples' = Recorded(c, failure) /\ ~Trips(Recorded(c, failure))
    BY <1>8 DEF RecordStaysClosed, Finish
  <2>2. Trips(samples)' <=> Trips(Recorded(c, failure))
    BY <2>1 DEF Trips, Share, IsFailed, IsSlowSample
  <2>. QED  BY <2>1, <2>2 DEF ClosedWindowIsHealthy
<1>9. CASE UNCHANGED vars
  BY <1>2, <1>9 DEF vars, breaker
<1>10. ASSUME NEW c \in Calls, ResultUnrecorded(c) PROVE ClosedWindowIsHealthy'
  BY <1>2, <1>10 DEF ResultUnrecorded, Finish, breaker
<1>. QED
  BY <1>1, <1>4, <1>5, <1>6, <1>7, <1>8, <1>9, <1>10 DEF Next, Result

\* A closed circuit never has a window that would open it.
THEOREM ClosedIsHealthy == Spec => []ClosedWindowIsHealthy
<1>1. Init => ClosedWindowIsHealthy
  <2>. SUFFICES ASSUME Init PROVE ~Trips(samples)
    BY DEF ClosedWindowIsHealthy
  <2>1. opt.minimum \in Nat \ {0} /\ Len(samples) = 0
    BY OptionType DEF Init, OptionOK
  <2>. QED  BY <2>1 DEF Trips
<1>. QED  BY <1>1, HealthStep, TypeCorrect, PTL DEF Spec
-----------------------------------------------------------------------------
(* Open periods *)

\* An open period runs its reset timeout, whatever results arrive meanwhile,
\* and ends in a half-open one.
THEOREM OpenPeriods == Spec => OpenPeriodIsFixed
<1>. DEFINE Fixed ==
        state = "open" =>
            \/ state' = "open" /\ openedFor' >= openedFor
            \/ state' = "half_open" /\ openedFor = opt.reset
<1>1. ASSUME TypeOK, [Next]_vars PROVE [Fixed]_vars
  <2>. SUFFICES ASSUME state = "open", Next PROVE Fixed
    BY <1>1
  <2>o. /\ opt.reset \in Nat
        /\ openedFor \in 0..opt.reset
    BY <1>1, OptionType DEF TypeOK, OptionOK
  <2>1. CASE Tick
    BY <2>1, <2>o DEF Tick, Later
  <2>2. ASSUME NEW c \in Calls, AdmitFirstProbe(c) PROVE Fixed
    BY <2>2, <2>o DEF AdmitFirstProbe
  <2>3. ASSUME NEW c \in Calls, RejectCall(c) PROVE Fixed
    BY <2>3, <2>o DEF RejectCall, vars, breaker
  <2>4. ASSUME NEW c \in Calls, NEW failure \in BOOLEAN, LateResult(c, failure) PROVE Fixed
    BY <2>4, <2>o DEF LateResult, breaker
  <2>5. ASSUME NEW c \in Calls PROVE ~AdmitClosed(c) /\ ~AdmitProbe(c)
    BY DEF AdmitClosed, AdmitProbe
  <2>6. ASSUME NEW c \in Calls, NEW failure \in BOOLEAN
        PROVE  /\ ~ProbeFails(c, failure) /\ ~ProbePasses(c, failure) /\ ~ProbeCloses(c, failure)
               /\ ~RecordStaysClosed(c, failure) /\ ~RecordOpens(c, failure)
    BY DEF ProbeFails, ProbePasses, ProbeCloses, RecordStaysClosed, RecordOpens
  <2>7. ASSUME NEW c \in Calls, ResultUnrecorded(c) PROVE Fixed
    BY <2>7, <2>o DEF ResultUnrecorded, breaker
  <2>. HIDE DEF Fixed
  <2>. QED  BY <2>1, <2>2, <2>3, <2>4, <2>5, <2>6, <2>7 DEF Next, Probe, Result
<1>. QED  BY <1>1, TypeCorrect, PTL DEF Spec, OpenPeriodIsFixed
-----------------------------------------------------------------------------
(* The hedge *)

\* A coordinator that was not executed has started nothing, and can only have
\* found its parent aborted.
NotCalled ==
    ~Called =>
        /\ stage[Second] = "none" /\ ~timer /\ ~listening
        /\ outcome \in {"none", "aborted"}

\* While the call is unsettled, #hedgePossible says that the timer is armed,
\* and a hedge that was neither made nor planned did not fit.
HedgeToCome ==
    Called /\ outcome = "none" =>
        /\ hedgePossible <=> timer
        /\ timer => stage[Second] = "none"
        /\ stage[Second] = "none" => (timer <=> hedgeFits)

\* The inductive invariant.  NeverStranded alone is not: that the last failure
\* settles the call rests on #hedgePossible agreeing with the timer.
HedgeInv ==
    /\ HedgeTypeOK
    /\ NotCalled
    /\ HedgeToCome
    /\ NeverStranded
    /\ WatchesParent
    /\ LosersAreAborted
    /\ FailsExhausted

\* Every callback of the coordinator preserves all seven parts together.
LEMMA HedgeStep == HedgeInv /\ [HedgeNext]_hedgeVars => HedgeInv'
<1>. SUFFICES ASSUME HedgeInv, [HedgeNext]_hedgeVars PROVE HedgeInv'
  OBVIOUS
<1>. USE DEF HedgeInv, HedgeTypeOK, NotCalled, HedgeToCome, Called,
        NeverStranded, WatchesParent, LosersAreAborted, FailsExhausted,
        options, Active, ActiveAttempts, Attempts, Original, Second, Stages
<1>1. CASE ParentAborts
  BY <1>1 DEF ParentAborts, CleanupTerminal, NoCleanup, Abort
<1>2. CASE Execute
  BY <1>2 DEF Execute, Advance
<1>3. CASE ExecuteAborted
  BY <1>3 DEF ExecuteAborted, NoCleanup
<1>4. CASE TimerFires
  BY <1>4 DEF TimerFires, Advance
<1>5. ASSUME NEW a \in Attempts, CallNext(a) PROVE HedgeInv'
  BY <1>5 DEF CallNext, Advance, NoCleanup
<1>6. ASSUME NEW a \in Attempts, Wins(a) PROVE HedgeInv'
  BY <1>6 DEF Wins, Advance, CleanupTerminal, Abort
<1>7. ASSUME NEW a \in Attempts, Fails(a) PROVE HedgeInv'
  BY <1>7 DEF Fails, Advance, CleanupTerminal, NoCleanup, Exhausted
<1>8. ASSUME NEW a \in Attempts, EndsLate(a) PROVE HedgeInv'
  BY <1>8 DEF EndsLate, Advance, NoCleanup
<1>9. ASSUME NEW a \in Attempts, Release(a) PROVE HedgeInv'
  BY <1>9 DEF Release, Advance, NoCleanup
<1>10. CASE UNCHANGED hedgeVars
  BY <1>10 DEF hedgeVars
<1>. QED
  BY <1>1, <1>2, <1>3, <1>4, <1>5, <1>6, <1>7, <1>8, <1>9, <1>10 DEF HedgeNext, Ends

\* The coordinator stays in HedgeInv, whatever the order of its callbacks.
THEOREM HedgeInvariant == HedgeSpec => []HedgeInv
<1>1. HedgeInit => HedgeInv
  BY DEF HedgeInit, HedgeInv, HedgeTypeOK, NotCalled, HedgeToCome, Called, NeverStranded,
         WatchesParent, LosersAreAborted, FailsExhausted, Attempts, Original,
         Second, Stages, Active, ActiveAttempts
<1>. QED  BY <1>1, HedgeStep, PTL DEF HedgeSpec

\* An unsettled call is never left with neither a running attempt nor a hedge
\* to come, whatever order failures and timer take.
THEOREM HedgeNeverStrands == HedgeSpec => []NeverStranded
<1>1. HedgeInv => NeverStranded
  BY DEF HedgeInv
<1>. QED  BY <1>1, HedgeInvariant, PTL

\* No cancellation of the parent is missed, and no timer or listener outlives
\* the call.
THEOREM HedgeWatchesParent == HedgeSpec => []WatchesParent
<1>1. HedgeInv => WatchesParent
  BY DEF HedgeInv
<1>. QED  BY <1>1, HedgeInvariant, PTL

\* Losers are aborted unless the option leaves them, and nobody is aborted
\* before the call is settled.
THEOREM HedgeAbortsLosers == HedgeSpec => []LosersAreAborted
<1>1. HedgeInv => LosersAreAborted
  BY DEF HedgeInv
<1>. QED  BY <1>1, HedgeInvariant, PTL

\* A call fails only when every attempt it could make was made and ended.
THEOREM HedgeFailsLast == HedgeSpec => []FailsExhausted
<1>1. HedgeInv => FailsExhausted
  BY DEF HedgeInv
<1>. QED  BY <1>1, HedgeInvariant, PTL

\* A settled call keeps its answer and starts nothing new.
THEOREM HedgeSettlesOnce == HedgeSpec => SettledForGood
<1>. DEFINE Kept ==
        outcome # "none" =>
            /\ outcome' = outcome /\ winner' = winner
            /\ \A a \in Attempts : stage[a] = "none" => stage'[a] = "none"
<1>1. ASSUME HedgeInv, [HedgeNext]_hedgeVars PROVE [Kept]_hedgeVars
  <2>. SUFFICES ASSUME outcome # "none", HedgeNext PROVE Kept
    BY <1>1
  <2>1. ASSUME NEW a \in Attempts, NEW from, NEW to, Advance(a, from, to), from # "none"
        PROVE  \A b \in Attempts : stage[b] = "none" => stage'[b] = "none"
    BY <1>1, <2>1 DEF Advance, HedgeInv, HedgeTypeOK
  <2>2. CASE ParentAborts
    BY <2>2 DEF ParentAborts
  <2>3. ASSUME NEW a \in Attempts, CallNext(a) \/ EndsLate(a) \/ Release(a) PROVE Kept
    BY <2>1, <2>3 DEF CallNext, EndsLate, Release
  <2>4. /\ ~Execute /\ ~ExecuteAborted /\ ~TimerFires
        /\ \A a \in Attempts : ~Wins(a) /\ ~Fails(a)
    BY DEF Execute, ExecuteAborted, TimerFires, Wins, Fails
  <2>. QED  BY <2>2, <2>3, <2>4 DEF HedgeNext, Ends
<1>. QED  BY <1>1, HedgeInvariant, PTL DEF HedgeSpec, SettledForGood
=============================================================================
