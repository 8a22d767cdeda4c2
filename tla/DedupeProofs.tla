---------------------------- MODULE DedupeProofs ----------------------------
(***************************************************************************)
(* Proofs about Dedupe for any finite set of callers and entries and both  *)
(* values of abortSharedWhenUnused.  The invariants are layered: each is   *)
(* preserved given those proved before it.                                 *)
(***************************************************************************)
EXTENDS Dedupe, FiniteSetTheorems, TLAPS

-----------------------------------------------------------------------------
(* Type correctness *)

\* The state is well formed after every step of a caller or an entry.
LEMMA TypeStep == TypeOK /\ [Next]_vars => TypeOK'
<1>. SUFFICES ASSUME TypeOK, [Next]_vars PROVE TypeOK'
  OBVIOUS
<1>. USE DedupeAssumption
<1>1. ASSUME NEW c \in Callers, NEW e \in Entries, Own(c, e) PROVE TypeOK'
  BY <1>1 DEF TypeOK, Own, Register, Attach, Stages, Phases, Results
<1>2. ASSUME NEW c \in Callers, NEW e \in Entries, SettleAborted(c, e)
      PROVE  /\ subscribers' \in [Entries -> SUBSET Callers]
             /\ activeSubscriberCount' \in [Entries -> Nat]
             /\ sharedAbortIssued' \in [Entries -> BOOLEAN]
             /\ phase' \in [Callers -> Phases]
  <2>1. CountWithout(c, e) \in Nat
    BY DEF TypeOK, CountWithout, Decremented
  <2>2. /\ subscribers' \in [Entries -> SUBSET Callers]
        /\ activeSubscriberCount' \in [Entries -> Nat]
        /\ phase' \in [Callers -> Phases]
    BY <1>2, <2>1 DEF TypeOK, SettleAborted, Detach, Phases
  <2>3. sharedAbortIssued' \in [Entries -> BOOLEAN]
    <3>1. (sharedAbortIssued[e] \/ (abortSharedWhenUnused /\ CountWithout(c, e) = 0))
            \in BOOLEAN
      OBVIOUS
    <3>. QED  BY <1>2, <3>1 DEF TypeOK, SettleAborted, AbortIfUnused
  <2>. QED  BY <2>2, <2>3
<1>3. ASSUME NEW c \in Callers, NEW e \in Entries, OwnAborted(c, e) PROVE TypeOK'
  BY <1>3, <1>2 DEF TypeOK, OwnAborted, Register, Stages
<1>4. ASSUME NEW c \in Callers, NEW e \in Entries, Join(c, e) PROVE TypeOK'
  BY <1>4 DEF TypeOK, Join, Attach, Phases
<1>5. ASSUME NEW c \in Callers, NEW e \in Entries,
             JoinAborted(c, e) \/ CallerAborts(c, e)
      PROVE  TypeOK'
  BY <1>5, <1>2 DEF TypeOK, JoinAborted, CallerAborts
<1>6. ASSUME NEW c \in Callers, Refuse(c) \/ Return(c) PROVE TypeOK'
  BY <1>6 DEF TypeOK, Refuse, Return, Phases
<1>7. ASSUME NEW e \in Entries, OperationStarts(e) PROVE TypeOK'
  BY <1>7 DEF TypeOK, OperationStarts, Stages
<1>8. ASSUME NEW e \in Entries, NEW answer \in Phases, Answer(e, answer)
      PROVE  /\ subscribers' \in [Entries -> SUBSET Callers]
             /\ activeSubscriberCount' \in [Entries -> Nat]
             /\ phase' \in [Callers -> Phases]
  BY <1>8 DEF TypeOK, Answer
<1>9. ASSUME NEW e \in Entries, NEW result \in Results, Settle(e, result) PROVE TypeOK'
  BY <1>9, <1>8 DEF TypeOK, Settle, Stages, Phases
<1>10. ASSUME NEW e \in Entries, Cleanup(e) PROVE TypeOK'
  <2>1. Answer(e, "aborted")
    BY <1>10 DEF Cleanup, Discard
  <2>. QED
    BY <1>10, <1>8, <2>1 DEF TypeOK, Cleanup, Discard, Stages, Phases, Decremented
<1>11. CASE UNCHANGED vars
  BY <1>11 DEF TypeOK, vars
<1>. QED
  BY <1>1, <1>3, <1>4, <1>5, <1>6, <1>7, <1>9, <1>10, <1>11
  DEF Next, CallerStep, EntryStep

\* Every state of the policy is well formed.
THEOREM TypeCorrect == Spec => []TypeOK
<1>1. Init => TypeOK
  BY DedupeAssumption DEF Init, TypeOK, Stages, Phases
<1>. QED  BY <1>1, TypeStep, PTL DEF Spec
-----------------------------------------------------------------------------
(* One execution in flight *)

\* Registration finds no unsettled entry, and cleanup spares a successor.
LEMMA OneInFlightStep == TypeOK /\ OneInFlight /\ [Next]_vars => OneInFlight'
<1>. SUFFICES ASSUME TypeOK, OneInFlight, [Next]_vars PROVE OneInFlight'
  OBVIOUS
<1>. USE DEF TypeOK, OneInFlight, Unsettled
<1>1. ASSUME NEW e \in Entries, Register(e) PROVE OneInFlight'
  <2>1. \A f \in Entries : ~Unsettled(f)
    BY <1>1 DEF Register, Joinable
  <2>. QED  BY <1>1, <2>1 DEF Register
<1>2. ASSUME NEW c \in Callers, NEW e \in Entries,
             Join(c, e) \/ JoinAborted(c, e) \/ CallerAborts(c, e)
      PROVE  OneInFlight'
  BY <1>2 DEF Join, JoinAborted, CallerAborts
<1>3. ASSUME NEW c \in Callers, Refuse(c) \/ Return(c) PROVE OneInFlight'
  BY <1>3 DEF Refuse, Return
<1>4. ASSUME NEW e \in Entries, OperationStarts(e) PROVE OneInFlight'
  BY <1>4 DEF OperationStarts
<1>5. ASSUME NEW e \in Entries, NEW result \in Results, Settle(e, result) PROVE OneInFlight'
  BY <1>5 DEF Settle
<1>6. ASSUME NEW e \in Entries, Cleanup(e) PROVE OneInFlight'
  BY <1>6 DEF Cleanup, Discard
<1>7. CASE UNCHANGED vars
  BY <1>7 DEF vars
<1>. QED
  BY <1>1, <1>2, <1>3, <1>4, <1>5, <1>6, <1>7
  DEF Next, CallerStep, EntryStep, Own, OwnAborted

\* At most one execution of the key is in flight, and newcomers find it.
THEOREM SingleExecution == Spec => []OneInFlight
<1>1. Init => OneInFlight
  BY DEF Init, OneInFlight, Unsettled
<1>. QED  BY <1>1, OneInFlightStep, TypeCorrect, PTL DEF Spec
-----------------------------------------------------------------------------
(* Waiting callers *)

\* Attaching, detaching and answering keep waiting callers and subscribers
\* the same.
LEMMA WaitersStep == TypeOK /\ WaitersAttached /\ [Next]_vars => WaitersAttached'
<1>. SUFFICES ASSUME TypeOK, WaitersAttached, [Next]_vars PROVE WaitersAttached'
  OBVIOUS
<1>. USE DEF TypeOK, WaitersAttached, Unsettled
<1>1. ASSUME NEW c \in Callers, NEW e \in Entries, Own(c, e) PROVE WaitersAttached'
  BY <1>1 DEF Own, Register, Attach
<1>2. ASSUME NEW c \in Callers, NEW e \in Entries, OwnAborted(c, e) PROVE WaitersAttached'
  BY <1>2 DEF OwnAborted, Register, SettleAborted, Detach
<1>3. ASSUME NEW c \in Callers, NEW e \in Entries, Join(c, e) PROVE WaitersAttached'
  BY <1>3 DEF Join, Joinable, Attach
<1>4. ASSUME NEW c \in Callers, NEW e \in Entries, JoinAborted(c, e) PROVE WaitersAttached'
  BY <1>4 DEF JoinAborted, SettleAborted, Detach
<1>5. ASSUME NEW c \in Callers, NEW e \in Entries, CallerAborts(c, e) PROVE WaitersAttached'
  BY <1>5 DEF CallerAborts, SettleAborted, Detach
<1>6. ASSUME NEW c \in Callers, Refuse(c) \/ Return(c) PROVE WaitersAttached'
  BY <1>6 DEF Refuse, Return
<1>7. ASSUME NEW e \in Entries, OperationStarts(e) PROVE WaitersAttached'
  BY <1>7 DEF OperationStarts
<1>8. ASSUME NEW e \in Entries, NEW result \in Results, Settle(e, result) PROVE WaitersAttached'
  BY <1>8 DEF Settle, Answer, Results
<1>9. ASSUME NEW e \in Entries, Cleanup(e) PROVE WaitersAttached'
  <2>1. subscribers[e] = {}
    BY <1>9 DEF Cleanup, Discard
  <2>. QED  BY <1>9, <2>1 DEF Cleanup, Discard, Answer
<1>10. CASE UNCHANGED vars
  BY <1>10 DEF vars
<1>. QED
  BY <1>1, <1>2, <1>3, <1>4, <1>5, <1>6, <1>7, <1>8, <1>9, <1>10
  DEF Next, CallerStep, EntryStep

\* A waiting caller is attached to exactly one execution that will settle.
THEOREM NobodyWaitsInVain == Spec => []WaitersAttached
<1>1. Init => WaitersAttached
  BY DEF Init, WaitersAttached, Unsettled
<1>. QED  BY <1>1, WaitersStep, TypeCorrect, PTL DEF Spec
-----------------------------------------------------------------------------
(* Counting subscribers *)

\* The subscribers of an entry are finitely many; one more or one less
\* changes their number by one.
LEMMA SubscriberCount ==
    ASSUME TypeOK, NEW e \in Entries
    PROVE  /\ IsFiniteSet(subscribers[e])
           /\ Cardinality(subscribers[e]) \in Nat
           /\ Cardinality(subscribers[e]) = 0 <=> subscribers[e] = {}
           /\ \A c : c \notin subscribers[e] =>
                Cardinality(subscribers[e] \cup {c}) = Cardinality(subscribers[e]) + 1
           /\ \A c : c \in subscribers[e] =>
                /\ Cardinality(subscribers[e]) > 0
                /\ Cardinality(subscribers[e] \ {c}) = Cardinality(subscribers[e]) - 1
<1>1. subscribers[e] \in SUBSET Callers
  BY DEF TypeOK
<1>2. IsFiniteSet(subscribers[e])
  BY <1>1, FS_Subset, DedupeAssumption
<1>3. Cardinality(subscribers[e]) \in Nat
  BY <1>2, FS_CardinalityType
<1>4. Cardinality(subscribers[e]) = 0 <=> subscribers[e] = {}
  BY <1>2, FS_EmptySet
<1>5. \A c : c \notin subscribers[e] =>
        Cardinality(subscribers[e] \cup {c}) = Cardinality(subscribers[e]) + 1
  BY <1>2, FS_AddElement
<1>6. \A c : c \in subscribers[e] =>
        Cardinality(subscribers[e] \ {c}) = Cardinality(subscribers[e]) - 1
  BY <1>2, FS_RemoveElement
<1>. QED  BY <1>2, <1>3, <1>4, <1>5, <1>6

\* The count after settleSubscriber of an aborted caller is the number of
\* those who stay, attached or not as the caller was.
LEMMA CountWithoutCaller ==
    ASSUME TypeOK, CountIsSubscribers, NEW c \in Callers, NEW e \in Entries
    PROVE  CountWithout(c, e) = Cardinality(subscribers[e] \ {c})
<1>1. CASE c \in subscribers[e]
  BY <1>1, SubscriberCount DEF CountWithout, Decremented, CountIsSubscribers
<1>2. CASE c \notin subscribers[e]
  <2>1. subscribers[e] \ {c} = subscribers[e]
    BY <1>2
  <2>. QED  BY <1>2, <2>1 DEF CountWithout, CountIsSubscribers
<1>. QED  BY <1>1, <1>2

\* Every way of coming and going keeps the counts exact.
LEMMA CountStep ==
    TypeOK /\ WaitersAttached /\ CountIsSubscribers /\ [Next]_vars => CountIsSubscribers'
<1>. SUFFICES ASSUME TypeOK, WaitersAttached, CountIsSubscribers, [Next]_vars
              PROVE  CountIsSubscribers'
  OBVIOUS
<1>1. ASSUME NEW c \in Callers, NEW e \in Entries, phase[c] = "idle", Attach(c, e)
      PROVE  CountIsSubscribers'
  <2>1. c \notin subscribers[e]
    BY <1>1 DEF WaitersAttached
  <2>2. Cardinality(subscribers[e] \cup {c}) = activeSubscriberCount[e] + 1
    BY <2>1, SubscriberCount DEF CountIsSubscribers
  <2>. QED  BY <1>1, <2>2 DEF Attach, CountIsSubscribers, TypeOK
<1>2. ASSUME NEW c \in Callers, NEW e \in Entries, SettleAborted(c, e)
      PROVE  CountIsSubscribers'
  BY <1>2, CountWithoutCaller DEF SettleAborted, Detach, CountIsSubscribers, TypeOK
<1>3. ASSUME NEW c \in Callers, NEW e \in Entries,
             OwnAborted(c, e) \/ JoinAborted(c, e) \/ CallerAborts(c, e)
      PROVE  CountIsSubscribers'
  BY <1>3, <1>2 DEF OwnAborted, JoinAborted, CallerAborts
<1>4. ASSUME NEW c \in Callers, NEW e \in Entries, Own(c, e) \/ Join(c, e)
      PROVE  CountIsSubscribers'
  BY <1>4, <1>1 DEF Own, Join
<1>5. ASSUME NEW e \in Entries, NEW answer, Answer(e, answer)
      PROVE  CountIsSubscribers'
  <2>1. Cardinality({}) = 0
    BY FS_EmptySet
  <2>. QED  BY <1>5, <2>1 DEF Answer, CountIsSubscribers, TypeOK
<1>6. ASSUME NEW e \in Entries, NEW result \in Results, Settle(e, result)
      PROVE  CountIsSubscribers'
  BY <1>6, <1>5 DEF Settle
<1>7. ASSUME NEW e \in Entries, Cleanup(e) PROVE CountIsSubscribers'
  BY <1>7, <1>5 DEF Cleanup, Discard
<1>8. ASSUME UNCHANGED <<subscribers, activeSubscriberCount>> PROVE CountIsSubscribers'
  BY <1>8 DEF CountIsSubscribers
<1>9. ASSUME NEW c \in Callers, Refuse(c) \/ Return(c) PROVE CountIsSubscribers'
  BY <1>9, <1>8 DEF Refuse, Return
<1>10. ASSUME NEW e \in Entries, OperationStarts(e) PROVE CountIsSubscribers'
  BY <1>10, <1>8 DEF OperationStarts
<1>11. CASE UNCHANGED vars
  BY <1>11, <1>8 DEF vars
<1>. QED
  BY <1>3, <1>4, <1>6, <1>7, <1>9, <1>10, <1>11 DEF Next, CallerStep, EntryStep

\* activeSubscriberCount is the number of attached callers.
THEOREM CountsAreExact == Spec => []CountIsSubscribers
<1>1. Init => CountIsSubscribers
  BY FS_EmptySet DEF Init, CountIsSubscribers
<1>. QED  BY <1>1, CountStep, NobodyWaitsInVain, TypeCorrect, PTL DEF Spec
-----------------------------------------------------------------------------
(* Unused work *)

\* Work loses its last caller only in settleSubscriber, which aborts it then.
LEMMA UnusedStep ==
    TypeOK /\ CountIsSubscribers /\ WaitersAttached /\ UnusedIsAborted /\ [Next]_vars
        => UnusedIsAborted'
<1>. SUFFICES ASSUME TypeOK, CountIsSubscribers, WaitersAttached, UnusedIsAborted,
                     [Next]_vars
              PROVE  UnusedIsAborted'
  OBVIOUS
<1>. USE DEF TypeOK, UnusedIsAborted, Unsettled
<1>1. ASSUME NEW c \in Callers, NEW e \in Entries, SettleAborted(c, e),
             abortSharedWhenUnused' = abortSharedWhenUnused,
             \A f \in Entries \ {e} : stage'[f] = stage[f]
      PROVE  UnusedIsAborted'
  <2>1. subscribers'[e] = subscribers[e] \ {c}
    BY <1>1 DEF SettleAborted, Detach
  <2>2. subscribers[e] \ {c} = {} => CountWithout(c, e) = 0
    BY CountWithoutCaller, FS_EmptySet
  <2>3. subscribers'[e] = {} /\ abortSharedWhenUnused => sharedAbortIssued'[e]
    BY <1>1, <2>1, <2>2 DEF SettleAborted, AbortIfUnused
  <2>4. \A f \in Entries \ {e} :
            /\ subscribers'[f] = subscribers[f]
            /\ sharedAbortIssued'[f] = sharedAbortIssued[f]
    BY <1>1 DEF SettleAborted, Detach, AbortIfUnused
  <2>. QED  BY <1>1, <2>3, <2>4
<1>2. ASSUME NEW c \in Callers, NEW e \in Entries,
             OwnAborted(c, e) \/ JoinAborted(c, e) \/ CallerAborts(c, e)
      PROVE  UnusedIsAborted'
  BY <1>2, <1>1 DEF OwnAborted, JoinAborted, CallerAborts, Register
<1>3. ASSUME NEW c \in Callers, NEW e \in Entries, Own(c, e) PROVE UnusedIsAborted'
  BY <1>3 DEF Own, Register, Attach
<1>4. ASSUME NEW c \in Callers, NEW e \in Entries, Join(c, e) PROVE UnusedIsAborted'
  BY <1>4 DEF Join, Attach
<1>5. ASSUME NEW c \in Callers, Refuse(c) \/ Return(c) PROVE UnusedIsAborted'
  BY <1>5 DEF Refuse, Return
<1>6. ASSUME NEW e \in Entries, OperationStarts(e) PROVE UnusedIsAborted'
  BY <1>6 DEF OperationStarts
<1>7. ASSUME NEW e \in Entries, NEW result \in Results, Settle(e, result)
      PROVE  UnusedIsAborted'
  BY <1>7 DEF Settle, Answer
<1>8. ASSUME NEW e \in Entries, Cleanup(e) PROVE UnusedIsAborted'
  BY <1>8 DEF Cleanup, Discard, Answer
<1>9. CASE UNCHANGED vars
  BY <1>9 DEF vars
<1>. QED
  BY <1>2, <1>3, <1>4, <1>5, <1>6, <1>7, <1>8, <1>9 DEF Next, CallerStep, EntryStep

\* Nobody but the last caller to leave aborts the work, and only in
\* settleSubscriber.
LEMMA AbortStep ==
    TypeOK /\ CountIsSubscribers /\ [Next]_vars => [AbortsOnlyUnused]_vars
<1>. SUFFICES ASSUME TypeOK, CountIsSubscribers, [Next]_vars
              PROVE  AbortsOnlyUnused
  OBVIOUS
<1>. USE DEF TypeOK, AbortsOnlyUnused, Unsettled
<1>1. ASSUME NEW c \in Callers, NEW e \in Entries, SettleAborted(c, e),
             stage'[e] \in {"scheduled", "running"}
      PROVE  AbortsOnlyUnused
  <2>1. subscribers'[e] = subscribers[e] \ {c}
    BY <1>1 DEF SettleAborted, Detach
  <2>2. CountWithout(c, e) = 0 => subscribers[e] \ {c} = {}
    <3>1. IsFiniteSet(subscribers[e] \ {c})
      BY FS_Subset, DedupeAssumption
    <3>. QED  BY <3>1, CountWithoutCaller, FS_EmptySet
  <2>3. /\ \A f \in Entries \ {e} : sharedAbortIssued'[f] = sharedAbortIssued[f]
        /\ sharedAbortIssued'[e] /\ ~sharedAbortIssued[e] =>
              abortSharedWhenUnused /\ CountWithout(c, e) = 0
    BY <1>1 DEF SettleAborted, AbortIfUnused
  <2>. QED  BY <1>1, <2>1, <2>2, <2>3
<1>2. ASSUME \A e \in Entries : sharedAbortIssued'[e] => sharedAbortIssued[e]
      PROVE  AbortsOnlyUnused
  BY <1>2
<1>3. ASSUME NEW c \in Callers, NEW e \in Entries, OwnAborted(c, e) PROVE AbortsOnlyUnused
  BY <1>1, <1>3 DEF OwnAborted, Register
<1>4. ASSUME NEW c \in Callers, NEW e \in Entries, JoinAborted(c, e) \/ CallerAborts(c, e)
      PROVE  AbortsOnlyUnused
  BY <1>1, <1>4 DEF JoinAborted, CallerAborts, Joinable
<1>5. ASSUME NEW c \in Callers, NEW e \in Entries, Own(c, e) \/ Join(c, e)
      PROVE  AbortsOnlyUnused
  BY <1>2, <1>5 DEF Own, Join, Attach
<1>6. ASSUME NEW c \in Callers, Refuse(c) \/ Return(c) PROVE AbortsOnlyUnused
  BY <1>2, <1>6 DEF Refuse, Return
<1>7. ASSUME NEW e \in Entries, EntryStep(e) PROVE AbortsOnlyUnused
  BY <1>2, <1>7 DEF EntryStep, OperationStarts, Settle, Cleanup, Discard
<1>8. CASE UNCHANGED vars
  BY <1>2, <1>8 DEF vars
<1>. QED
  BY <1>3, <1>4, <1>5, <1>6, <1>7, <1>8 DEF Next, CallerStep

\* With the option, work that nobody waits for has been told to stop; work that
\* somebody waits for never is, nor any without the option.
THEOREM UnusedWork == Spec => UnusedWorkIsAborted
<1>1. Init => UnusedIsAborted
  BY DEF Init, UnusedIsAborted, Unsettled
<1>. QED
  BY <1>1, UnusedStep, AbortStep, CountsAreExact, NobodyWaitsInVain, TypeCorrect, PTL
  DEF Spec, UnusedWorkIsAborted
-----------------------------------------------------------------------------
(* The gauge *)

InUse == {e \in Entries : stage[e] # "free"}

\* Registration adds one entry in use, cleanup removes one, and nothing else
\* changes which are.
LEMMA GaugeStep == TypeOK /\ GaugeIsEntries /\ [Next]_vars => GaugeIsEntries'
<1>. SUFFICES ASSUME TypeOK, GaugeIsEntries, [Next]_vars PROVE GaugeIsEntries'
  OBVIOUS
<1>1. /\ IsFiniteSet(InUse)
      /\ gauge = Cardinality(InUse)
      /\ gauge \in Nat
  <2>1. InUse \in SUBSET Entries
    BY DEF InUse
  <2>. QED  BY <2>1, FS_Subset, DedupeAssumption DEF GaugeIsEntries, InUse, TypeOK
<1>2. GaugeIsEntries' <=> gauge' = Cardinality(InUse')
  BY DEF GaugeIsEntries, InUse
<1>3. ASSUME NEW e \in Entries, Register(e) PROVE GaugeIsEntries'
  <2>1. InUse' = InUse \cup {e} /\ e \notin InUse
    BY <1>3 DEF Register, InUse, TypeOK
  <2>2. Cardinality(InUse \cup {e}) = Cardinality(InUse) + 1
    BY <1>1, <2>1, FS_AddElement
  <2>. QED  BY <1>1, <1>2, <1>3, <2>1, <2>2 DEF Register
<1>4. ASSUME NEW e \in Entries, Cleanup(e) PROVE GaugeIsEntries'
  <2>1. InUse' = InUse \ {e} /\ e \in InUse
    BY <1>4 DEF Cleanup, Discard, InUse, TypeOK
  <2>2. Cardinality(InUse \ {e}) = Cardinality(InUse) - 1
    BY <1>1, <2>1, FS_RemoveElement
  <2>3. Cardinality(InUse) # 0
    BY <1>1, <2>1, FS_EmptySet
  <2>4. gauge' = gauge - 1
    BY <1>1, <1>4, <2>3 DEF Cleanup, Decremented
  <2>. QED  BY <1>1, <1>2, <2>1, <2>2, <2>4
<1>5. ASSUME gauge' = gauge, InUse' = InUse PROVE GaugeIsEntries'
  BY <1>1, <1>2, <1>5
<1>6. ASSUME NEW c \in Callers, NEW e \in Entries,
             Join(c, e) \/ JoinAborted(c, e) \/ CallerAborts(c, e)
      PROVE  GaugeIsEntries'
  BY <1>6, <1>5 DEF Join, JoinAborted, CallerAborts, InUse
<1>7. ASSUME NEW c \in Callers, Refuse(c) \/ Return(c) PROVE GaugeIsEntries'
  BY <1>7, <1>5 DEF Refuse, Return, InUse
<1>8. ASSUME NEW e \in Entries, OperationStarts(e) PROVE GaugeIsEntries'
  BY <1>8, <1>5 DEF OperationStarts, InUse, TypeOK
<1>9. ASSUME NEW e \in Entries, NEW result \in Results, Settle(e, result)
      PROVE  GaugeIsEntries'
  BY <1>9, <1>5 DEF Settle, InUse, TypeOK
<1>10. CASE UNCHANGED vars
  BY <1>10, <1>5 DEF vars, InUse
<1>. QED
  BY <1>3, <1>4, <1>6, <1>7, <1>8, <1>9, <1>10
  DEF Next, CallerStep, EntryStep, Own, OwnAborted

\* The gauge is the number of entries not yet cleaned up.
THEOREM GaugeIsExact == Spec => []GaugeIsEntries
<1>1. Init => GaugeIsEntries
  <2>1. ASSUME Init PROVE {e \in Entries : stage[e] # "free"} = {}
    BY <2>1 DEF Init
  <2>. QED  BY <2>1, FS_EmptySet DEF Init, GaugeIsEntries
<1>. QED  BY <1>1, GaugeStep, TypeCorrect, PTL DEF Spec
=============================================================================
