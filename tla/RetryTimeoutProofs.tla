------------------------- MODULE RetryTimeoutProofs -------------------------
(***************************************************************************)
(* Proofs about RetryTimeout for any number of attempts, any delays and    *)
(* any budget of delay.  The invariants are layered: each is preserved     *)
(* given those proved before it.                                           *)
(***************************************************************************)
EXTENDS RetryTimeout, TLAPS

-----------------------------------------------------------------------------
(* Contexts *)

\* What an abort does to the two sets of contexts, whichever it reaches.
LEMMA AbortMoves ==
    ASSUME held \subseteq Contexts \ aborted, aborted \subseteq Contexts,
           NEW c, AbortContext(c)
    PROVE  /\ aborted' \subseteq Contexts
           /\ held' \subseteq Contexts \ aborted'
           /\ aborted \subseteq aborted'
           /\ aborted' \cup held' = aborted \cup held
           /\ c \in held => c \in aborted'
<1>1. Reached(c) \subseteq held
  BY DEF Reached
<1>2. c \in held => c \in Reached(c)
  BY DEF Reached
<1>. QED  BY <1>1, <1>2 DEF AbortContext

\* The forks of an attempt add its contexts to one of the two sets.
LEMMA ForkAdds ==
    ASSUME NEW new, ForkAll(new)
    PROVE  /\ aborted \subseteq aborted'
           /\ aborted' \cup held' = aborted \cup held \cup new
           /\ aborted' \subseteq aborted \cup new
  BY DEF ForkAll

LEMMA Kinds ==
    ASSUME NEW n \in Numbers
    PROVE  /\ Child(n) \in Contexts /\ Child(n) # Root
           /\ AttemptContext(n) \in Contexts
           /\ \A m : AttemptContext(n) # Child(m)
           /\ \A m \in Numbers : Child(n) = Child(m) => n = m
           /\ \A m \in Numbers :
                AttemptContext(n) = AttemptContext(m) /\ AttemptContext(n) # Root => n = m
  BY DEF Child, AttemptContext, Contexts, Root, Numbers
-----------------------------------------------------------------------------
(* Type correctness *)

\* Nothing of a later attempt exists yet, and there is room for the next one.
AttemptsInOrder ==
    /\ \A n \in Numbers : n > attempt =>
        /\ op[n] = "none"
        /\ Child(n) \notin aborted \cup held
        /\ AttemptContext(n) # Root => AttemptContext(n) \notin aborted \cup held
    /\ stage \in {"trying", "sleeping"} => attempt < MaxAttempts
    /\ stage \in {"racing", "answered", "sleeping"} => attempt # 0

WellFormed == TypeOK /\ AttemptsInOrder

LEMMA WellFormedInit == Init => WellFormed
<1>. SUFFICES ASSUME Init PROVE WellFormed
  OBVIOUS
<1>. USE RetryAssumption
<1>1. Root \in Contexts /\ aborted \cup held = {Root}
  BY DEF Init, Contexts
<1>2. TypeOK
  BY <1>1 DEF Init, TypeOK, Numbers
<1>3. ASSUME NEW n \in Numbers
      PROVE  /\ Child(n) \notin aborted \cup held
             /\ AttemptContext(n) # Root => AttemptContext(n) \notin aborted \cup held
  BY <1>1, Kinds
<1>4. AttemptsInOrder
  BY <1>3 DEF Init, AttemptsInOrder, Numbers
<1>. QED  BY <1>2, <1>4 DEF WellFormed

\* Steps that abort a context keep the contexts well formed.
LEMMA AbortWellFormed ==
    ASSUME WellFormed, NEW c, AbortContext(c), attempt' = attempt, op' = op,
           \/ stage' = stage
           \/ stage' = "trying" /\ attempt < MaxAttempts
           \/ stage' = "answered" /\ attempt # 0
    PROVE  /\ AttemptsInOrder'
           /\ aborted' \subseteq Contexts
           /\ held' \subseteq Contexts \ aborted'
<1>1. /\ aborted' \subseteq Contexts
      /\ held' \subseteq Contexts \ aborted'
      /\ aborted' \cup held' = aborted \cup held
  BY AbortMoves DEF WellFormed, TypeOK
<1>2. ASSUME NEW n \in Numbers, n > attempt
      PROVE  /\ op[n] = "none"
             /\ Child(n) \notin aborted' \cup held'
             /\ AttemptContext(n) # Root => AttemptContext(n) \notin aborted' \cup held'
  BY <1>1, <1>2 DEF WellFormed, AttemptsInOrder
<1>3. /\ stage' \in {"trying", "sleeping"} => attempt < MaxAttempts
      /\ stage' \in {"racing", "answered", "sleeping"} => attempt # 0
  BY DEF WellFormed, AttemptsInOrder
<1>. QED  BY <1>1, <1>2, <1>3 DEF AttemptsInOrder, Child, AttemptContext, Root, Numbers

\* Steps that leave attempts and contexts alone keep their order.
LEMMA OrderKept ==
    ASSUME AttemptsInOrder, attempt' = attempt, op' = op, aborted' = aborted, held' = held,
           stage' \in {"trying", "sleeping"} => attempt < MaxAttempts,
           stage' \in {"racing", "answered", "sleeping"} => attempt # 0
    PROVE  AttemptsInOrder'
  BY DEF AttemptsInOrder, Child, AttemptContext, Root, Numbers

LEMMA StartWellFormed == WellFormed /\ StartAttempt => WellFormed'
<1>. SUFFICES ASSUME WellFormed, StartAttempt PROVE WellFormed'
  OBVIOUS
<1>. USE RetryAssumption
<1>. DEFINE n == attempt + 1
            new == {AttemptContext(n), Child(n)} \ {Root}
<1>1. /\ attempt \in Nat /\ attempt < MaxAttempts
      /\ n \in Numbers /\ n > attempt
  BY DEF WellFormed, TypeOK, AttemptsInOrder, StartAttempt, Numbers
<1>2. /\ attempt' = n
      /\ ForkAll(new)
      /\ op' = [op EXCEPT ![n] = "scheduled"]
      /\ stage' = "racing" /\ answer' = "none"
      /\ UNCHANGED <<totalDelay, deadline, timedOut, result>>
  BY DEF StartAttempt
<1>3. new \subseteq Contexts /\ new \cap (aborted \cup held) = {}
  BY <1>1, Kinds DEF WellFormed, AttemptsInOrder
<1>. HIDE DEF new
<1>4. aborted' \subseteq Contexts /\ held' \subseteq Contexts \ aborted'
  BY <1>2, <1>3 DEF ForkAll, WellFormed, TypeOK
<1>5. TypeOK'
  <2>1. op' \in [Numbers -> {"none", "scheduled", "running", "done"}]
    BY <1>2 DEF WellFormed, TypeOK
  <2>2. attempt' \in 0..MaxAttempts
    BY <1>1, <1>2
  <2>. QED  BY <1>2, <1>4, <2>1, <2>2 DEF WellFormed, TypeOK
<1>6. ASSUME NEW k \in Numbers, k > n
      PROVE  /\ op'[k] = "none"
             /\ Child(k) \notin aborted' \cup held'
             /\ AttemptContext(k) # Root => AttemptContext(k) \notin aborted' \cup held'
  <2>1. k # n /\ k > attempt
    BY <1>1, <1>6 DEF Numbers
  <2>2. op'[k] = "none"
    BY <1>2, <2>1 DEF WellFormed, TypeOK, AttemptsInOrder
  <2>3. Child(k) \notin new /\ (AttemptContext(k) # Root => AttemptContext(k) \notin new)
    BY <1>1, <2>1, Kinds DEF new
  <2>4. aborted' \cup held' = aborted \cup held \cup new
    BY <1>2, ForkAdds
  <2>. QED  BY <2>1, <2>2, <2>3, <2>4 DEF WellFormed, AttemptsInOrder
<1>7. AttemptsInOrder'
  <2>1. n # 0
    BY <1>1
  <2>. QED
    BY <1>2, <1>6, <2>1 DEF AttemptsInOrder, Child, AttemptContext, Root, Numbers
<1>. QED  BY <1>5, <1>7 DEF WellFormed

LEMMA WellFormedStep == WellFormed /\ [Next]_vars => WellFormed'
<1>. SUFFICES ASSUME WellFormed, [Next]_vars PROVE WellFormed'
  OBVIOUS
<1>. USE RetryAssumption
<1>0. /\ attempt \in 0..MaxAttempts /\ totalDelay \in 0..MaxTotalDelay
      /\ stage = "racing" => attempt \in Numbers
  BY DEF WellFormed, TypeOK, AttemptsInOrder, Numbers
<1>1. ASSUME GiveUp \/ Settle \/ Exhausted PROVE WellFormed'
  <2>1. stage' = "returning" /\ UNCHANGED <<attempt, totalDelay, answer, op, contexts, timedOut>>
    BY <1>1 DEF GiveUp, Settle, Exhausted, Conclude
  <2>2. result' \in {"none", "value", "error", "exceeded", "aborted"}
    BY <1>1 DEF GiveUp, Settle, Exhausted, Conclude, WellFormed, TypeOK
  <2>3. AttemptsInOrder'
    BY <2>1, OrderKept DEF WellFormed, contexts
  <2>. QED  BY <2>1, <2>2, <2>3 DEF WellFormed, TypeOK, contexts
<1>2. CASE StartAttempt
  BY <1>2, StartWellFormed
<1>3. CASE CallNext
  <2>1. attempt \in Numbers /\ op[attempt] = "scheduled"
    BY <1>0, <1>3 DEF CallNext
  <2>2. TypeOK'
    BY <1>3 DEF CallNext, WellFormed, TypeOK, contexts
  <2>3. ASSUME NEW n \in Numbers, n > attempt PROVE op'[n] = "none"
    BY <1>0, <1>3, <2>1, <2>3 DEF CallNext, WellFormed, TypeOK, AttemptsInOrder, Numbers
  <2>4. AttemptsInOrder'
    BY <1>3, <2>3 DEF CallNext, WellFormed, AttemptsInOrder, contexts,
                      Child, AttemptContext, Root, Numbers
  <2>. QED  BY <2>2, <2>4 DEF WellFormed
<1>4. CASE BackOff
  <2>1. PICK d \in Delays : /\ totalDelay + d <= MaxTotalDelay
                            /\ totalDelay' = totalDelay + d
    BY <1>4 DEF BackOff
  <2>2. /\ stage = "answered" /\ stage' \in {"trying", "sleeping"} /\ attempt < MaxAttempts
        /\ UNCHANGED <<attempt, answer, op, contexts, timedOut, result>>
    BY <1>4 DEF BackOff, Retryable
  <2>3. totalDelay' \in 0..MaxTotalDelay
    BY <1>0, <2>1
  <2>4. TypeOK'
    BY <2>2, <2>3 DEF WellFormed, TypeOK, contexts
  <2>5. AttemptsInOrder'
    BY <2>2, OrderKept DEF WellFormed, AttemptsInOrder, contexts
  <2>. QED  BY <2>4, <2>5 DEF WellFormed
<1>5. CASE Return
  <2>1. TypeOK'
    BY <1>5 DEF Return, WellFormed, TypeOK
  <2>2. AttemptsInOrder'
    BY <1>5 DEF Return, WellFormed, AttemptsInOrder, Child, AttemptContext, Root, Numbers
  <2>. QED  BY <2>1, <2>2 DEF WellFormed
<1>6. ASSUME NEW n \in Numbers, NEW outcome \in {"value", "error"}, OpEnds(n, outcome)
      PROVE  WellFormed'
  <2>1. /\ op[n] = "running" /\ op' = [op EXCEPT ![n] = "done"]
        /\ UNCHANGED <<attempt, totalDelay, contexts, timedOut, result>>
        /\ stage' = stage \/ (stage = "racing" /\ stage' = "answered")
        /\ answer' \in {answer, outcome}
    BY <1>6 DEF OpEnds
  <2>2. op' \in [Numbers -> {"none", "scheduled", "running", "done"}]
    BY <2>1 DEF WellFormed, TypeOK
  <2>3. TypeOK'
    BY <2>1, <2>2 DEF WellFormed, TypeOK, contexts
  <2>4. ASSUME NEW k \in Numbers, k > attempt PROVE op'[k] = "none"
    BY <2>1, <2>4 DEF WellFormed, TypeOK, AttemptsInOrder
  <2>5. AttemptsInOrder'
    BY <2>1, <2>4 DEF WellFormed, AttemptsInOrder, contexts,
                      Child, AttemptContext, Root, Numbers
  <2>. QED  BY <2>3, <2>5 DEF WellFormed
<1>7. CASE TimerFires
  <2>1. AttemptsInOrder' /\ aborted' \subseteq Contexts /\ held' \subseteq Contexts \ aborted'
    BY <1>0, <1>7, AbortWellFormed DEF TimerFires, WellFormed, AttemptsInOrder
  <2>2. timedOut' \subseteq Numbers
    BY <1>0, <1>7 DEF TimerFires, WellFormed, TypeOK
  <2>. QED  BY <1>7, <2>1, <2>2 DEF TimerFires, WellFormed, TypeOK
<1>8. CASE SleepEnds
  <2>1. /\ stage = "sleeping" /\ stage' = "trying"
        /\ UNCHANGED <<attempt, totalDelay, answer, op, contexts, timedOut, result>>
    BY <1>8 DEF SleepEnds
  <2>2. AttemptsInOrder'
    BY <2>1, OrderKept DEF WellFormed, AttemptsInOrder, contexts
  <2>. QED  BY <2>1, <2>2 DEF WellFormed, TypeOK, contexts
<1>9. CASE AbortCall
  <2>1. /\ AbortContext(Root)
        /\ stage' = stage \/ (stage' = "trying" /\ attempt < MaxAttempts)
        /\ UNCHANGED <<attempt, totalDelay, answer, op, deadline, timedOut, result>>
    BY <1>9 DEF AbortCall, WellFormed, AttemptsInOrder
  <2>2. AttemptsInOrder' /\ aborted' \subseteq Contexts /\ held' \subseteq Contexts \ aborted'
    BY <2>1, AbortWellFormed
  <2>. QED  BY <2>1, <2>2 DEF WellFormed, TypeOK
<1>10. CASE DeadlinePasses
  <2>1. AttemptsInOrder'
    BY <1>10, OrderKept DEF DeadlinePasses, WellFormed, AttemptsInOrder
  <2>. QED  BY <1>10, <2>1 DEF DeadlinePasses, WellFormed, TypeOK
<1>11. ASSUME NEW c \in Contexts, AbortContext(c),
              UNCHANGED <<stage, attempt, totalDelay, answer, op, deadline, timedOut, result>>
       PROVE  WellFormed'
  <2>1. AttemptsInOrder' /\ aborted' \subseteq Contexts /\ held' \subseteq Contexts \ aborted'
    BY <1>11, AbortWellFormed
  <2>. QED  BY <1>11, <2>1 DEF WellFormed, TypeOK
<1>12. CASE UNCHANGED vars
  <2>1. AttemptsInOrder'
    BY <1>12, OrderKept DEF vars, contexts, WellFormed, AttemptsInOrder
  <2>. QED  BY <1>12, <2>1 DEF vars, contexts, WellFormed, TypeOK
<1>. QED
  BY <1>1, <1>2, <1>3, <1>4, <1>5, <1>6, <1>7, <1>8, <1>9, <1>10, <1>11, <1>12
  DEF Next, Pending, CallerAborts, DeadlineTimer

LEMMA WellFormedAlways == Spec => []WellFormed
<1>. QED  BY WellFormedInit, WellFormedStep, PTL DEF Spec

\* The state of a call, executeWithRetry and executeWithTimeout, is always of
\* its type: in particular an attempt beyond maxAttempts is never made, and
\* the delays never exceed maxTotalDelayMs.
THEOREM TypeCorrect == Spec => []TypeOK
<1>1. WellFormed => TypeOK
  BY DEF WellFormed
<1>. QED  BY <1>1, WellFormedAlways, PTL
-----------------------------------------------------------------------------
(* Abandoned operations *)

\* The context of every operation that was given one is live or aborted.
ChildrenKnown == \A n \in Numbers : op[n] # "none" => Child(n) \in aborted \cup held

\* When the call is aborted, no context of it is left that is not.
AbortIsTotal == Root \in aborted => held = {}

Told == ChildrenKnown /\ AbortIsTotal /\ AbandonedIsTold

\* No context is further from the call than two forks: its abort reaches all.
LEMMA RootReachesAll == ASSUME held \subseteq Contexts PROVE Reached(Root) = held
<1>1. ASSUME NEW c \in Contexts
      PROVE  c = Root \/ Parent(c) = Root \/ Parent(Parent(c)) = Root
  <2>1. CASE c = Root
    BY <2>1
  <2>2. CASE c \in {"attempt", "child"} \X Numbers
    <3>1. PICK k \in {"attempt", "child"}, n \in Numbers : c = <<k, n>>
      BY <2>2
    <3>2. CASE k = "attempt"
      BY <3>1, <3>2 DEF Parent
    <3>3. CASE k = "child"
      <4>1. Parent(c) = AttemptContext(n)
        BY <3>1, <3>3 DEF Parent
      <4>2. AttemptContext(n) = Root \/ AttemptContext(n) = <<"attempt", n>>
        BY DEF AttemptContext
      <4>3. Parent(<<"attempt", n>>) = Root
        BY DEF Parent
      <4>. QED  BY <4>1, <4>2, <4>3
    <3>. QED  BY <3>1, <3>2, <3>3
  <2>. QED  BY <2>1, <2>2 DEF Contexts
<1>. QED  BY <1>1 DEF Reached

\* An abort tells whoever listens, and leaves those told before as they are.
LEMMA AbortTold ==
    ASSUME WellFormed, Told, NEW c, AbortContext(c), op' = op, attempt' = attempt,
           stage = "racing" /\ stage' # "racing" => c = Child(attempt)
    PROVE  Told'
<1>1. /\ aborted \subseteq aborted'
      /\ aborted' \cup held' = aborted \cup held
      /\ c \in held => c \in aborted'
      /\ held' \subseteq held
  BY AbortMoves DEF WellFormed, TypeOK, AbortContext
<1>2. ChildrenKnown'
  BY <1>1 DEF Told, ChildrenKnown, Child
<1>3. AbortIsTotal'
  <2>1. SUFFICES ASSUME Root \in aborted' PROVE held' = {}
    BY DEF AbortIsTotal, Root
  <2>2. CASE Root \in aborted
    BY <1>1, <2>2 DEF Told, AbortIsTotal
  <2>3. CASE Root \notin aborted
    <3>1. Root \in held /\ Root \in Reached(c)
      BY <2>1, <2>3 DEF AbortContext, Reached
    <3>2. held \subseteq Contexts
      BY DEF WellFormed, TypeOK
    <3>3. c = Root
      BY <3>1 DEF Reached, Parent, Root
    <3>. QED  BY <3>2, <3>3, RootReachesAll DEF AbortContext
  <2>. QED  BY <2>2, <2>3
<1>4. ASSUME NEW n \in Numbers, op[n] \in {"scheduled", "running"},
             ~(stage' = "racing" /\ attempt = n) \/ Root \in aborted'
      PROVE  Child(n) \in aborted'
  <2>1. Child(n) \in aborted \cup held
    BY <1>4 DEF Told, ChildrenKnown
  <2>2. CASE Root \in aborted'
    BY <1>1, <1>3, <2>1, <2>2 DEF AbortIsTotal, Root
  <2>3. CASE stage = "racing" /\ attempt = n /\ Root \notin aborted'
    BY <1>1, <1>4, <2>1, <2>3
  <2>4. CASE ~(stage = "racing" /\ attempt = n)
    BY <1>1, <1>4, <2>4 DEF Told, AbandonedIsTold
  <2>. QED  BY <2>2, <2>3, <2>4
<1>5. AbandonedIsTold'
  BY <1>4 DEF AbandonedIsTold, Child, Root
<1>. QED  BY <1>2, <1>3, <1>5 DEF Told

\* Steps that touch no context and give no attempt up.
LEMMA ToldKept ==
    ASSUME Told, aborted' = aborted, held' = held \/ held' = held \ {Root},
           attempt' = attempt, stage' = stage \/ stage # "racing",
           stage' = "racing" => stage = "racing",
           \A n \in Numbers : op'[n] = op[n]
    PROVE  Told'
<1>1. ChildrenKnown'
  BY Kinds DEF Told, ChildrenKnown, Child
<1>2. AbortIsTotal'
  BY DEF Told, AbortIsTotal, Root
<1>3. AbandonedIsTold'
  BY DEF Told, AbandonedIsTold, Child, Root
<1>. QED  BY <1>1, <1>2, <1>3 DEF Told

\* A new attempt leaves those before it told, and its own child is known.
LEMMA StartTold == WellFormed /\ Told /\ StartAttempt => Told'
<1>. SUFFICES ASSUME WellFormed, Told, StartAttempt PROVE Told'
  OBVIOUS
<1>. USE RetryAssumption
<1>. DEFINE n == attempt + 1
            new == {AttemptContext(n), Child(n)} \ {Root}
<1>1. n \in Numbers /\ attempt' = n
  BY DEF WellFormed, TypeOK, AttemptsInOrder, StartAttempt, Numbers
<1>2. /\ ForkAll(new) /\ stage = "trying" /\ Root \notin aborted
      /\ op' = [op EXCEPT ![n] = "scheduled"] /\ op \in [Numbers -> {"none", "scheduled", "running", "done"}]
  BY DEF StartAttempt, WellFormed, TypeOK
<1>3. Child(n) \in new /\ Root \notin new
  BY <1>1, Kinds
<1>. HIDE DEF new
<1>4. /\ aborted \subseteq aborted'
      /\ aborted' \cup held' = aborted \cup held \cup new
      /\ Root \notin aborted'
  BY <1>2, <1>3, ForkAdds
<1>5. ChildrenKnown'
  <2>1. ASSUME NEW k \in Numbers, op'[k] # "none"
        PROVE  Child(k) \in aborted' \cup held'
    <3>1. CASE k = n
      BY <1>3, <1>4, <3>1
    <3>2. CASE k # n
      BY <1>2, <1>4, <2>1, <3>2 DEF Told, ChildrenKnown
    <3>. QED  BY <3>1, <3>2
  <2>. QED  BY <2>1 DEF ChildrenKnown, Child
<1>6. AbortIsTotal'
  BY <1>4 DEF AbortIsTotal, Root
<1>7. AbandonedIsTold'
  <2>1. ASSUME NEW k \in Numbers, op'[k] \in {"scheduled", "running"}, k # n
        PROVE  Child(k) \in aborted'
    BY <1>2, <1>4, <2>1 DEF Told, AbandonedIsTold
  <2>2. stage' = "racing"
    BY DEF StartAttempt
  <2>. QED  BY <1>1, <1>4, <2>1, <2>2 DEF AbandonedIsTold, Child, Root
<1>. QED  BY <1>5, <1>6, <1>7 DEF Told

LEMMA ToldStep == WellFormed /\ Told /\ [Next]_vars => Told'
<1>. SUFFICES ASSUME WellFormed, Told, [Next]_vars PROVE Told'
  OBVIOUS
<1>1. CASE GiveUp \/ Settle \/ Exhausted \/ BackOff \/ SleepEnds
  <2>1. /\ stage # "racing" /\ stage' # "racing"
        /\ UNCHANGED <<attempt, op, aborted, held>>
    BY <1>1 DEF GiveUp, Settle, Exhausted, BackOff, SleepEnds, Retryable, Conclude, contexts
  <2>. QED  BY <2>1, ToldKept
<1>2. CASE StartAttempt
  BY <1>2, StartTold
<1>3. CASE Return
  <2>1. /\ stage # "racing" /\ stage' # "racing"
        /\ held' = held \ {Root}
        /\ UNCHANGED <<attempt, op, aborted>>
    BY <1>3 DEF Return
  <2>. QED  BY <2>1, ToldKept
<1>4. ASSUME NEW n \in Numbers, op[n] \in {"scheduled", "running"},
             NEW s \in {"running", "done"}, op' = [op EXCEPT ![n] = s],
             UNCHANGED <<attempt, contexts>>,
             \/ stage' = stage
             \/ stage = "racing" /\ n = attempt /\ s = "done"
      PROVE  Told'
  <2>1. op \in [Numbers -> {"none", "scheduled", "running", "done"}]
    BY DEF WellFormed, TypeOK
  <2>2. ASSUME NEW k \in Numbers
        PROVE  /\ op'[k] # "none" => op[k] # "none"
               /\ op'[k] \in {"scheduled", "running"} => op[k] \in {"scheduled", "running"}
               /\ k = n => op'[k] = s
    BY <1>4, <2>1
  <2>3. ChildrenKnown'
    BY <1>4, <2>2 DEF Told, ChildrenKnown, contexts, Child
  <2>4. AbortIsTotal'
    BY <1>4 DEF Told, AbortIsTotal, contexts, Root
  <2>5. ASSUME NEW k \in Numbers, op'[k] \in {"scheduled", "running"},
               ~(stage' = "racing" /\ attempt = k) \/ Root \in aborted
        PROVE  Child(k) \in aborted
    <3>1. op[k] \in {"scheduled", "running"}
      BY <2>2, <2>5
    <3>2. ~(stage = "racing" /\ attempt = k) \/ Root \in aborted
      BY <1>4, <2>2, <2>5
    <3>. QED  BY <3>1, <3>2 DEF Told, AbandonedIsTold
  <2>6. AbandonedIsTold'
    BY <1>4, <2>5 DEF AbandonedIsTold, contexts, Child, Root
  <2>. QED  BY <2>3, <2>4, <2>6 DEF Told
<1>5. CASE CallNext
  <2>1. attempt \in Numbers
    BY <1>5 DEF CallNext, WellFormed, TypeOK, AttemptsInOrder, Numbers
  <2>. QED  BY <1>4, <1>5, <2>1 DEF CallNext
<1>6. ASSUME NEW n \in Numbers, NEW outcome \in {"value", "error"}, OpEnds(n, outcome)
      PROVE  Told'
  <2>1. /\ op[n] = "running" /\ op' = [op EXCEPT ![n] = "done"]
        /\ UNCHANGED <<attempt, contexts>>
        /\ stage' = stage \/ (stage = "racing" /\ n = attempt)
    BY <1>6 DEF OpEnds
  <2>. QED  BY <1>4, <2>1
<1>7. CASE TimerFires
  BY <1>7, AbortTold DEF TimerFires
<1>8. CASE AbortCall
  <2>1. AbortContext(Root) /\ UNCHANGED <<attempt, op>>
    BY <1>8 DEF AbortCall
  <2>2. stage = "racing" => stage' = "racing"
    BY <1>8 DEF AbortCall
  <2>. QED  BY <2>1, <2>2, AbortTold
<1>9. CASE DeadlinePasses
  BY <1>9, ToldKept DEF DeadlinePasses
<1>10. ASSUME NEW c \in Contexts, AbortContext(c), UNCHANGED <<stage, attempt, op>>
       PROVE  Told'
  BY <1>10, AbortTold
<1>11. CASE UNCHANGED vars
  BY <1>11, ToldKept DEF vars, contexts
<1>. QED
  BY <1>1, <1>2, <1>3, <1>5, <1>6, <1>7, <1>8, <1>9, <1>10, <1>11
  DEF Next, Pending, CallerAborts, DeadlineTimer

\* An operation that works for nobody, because its attempt timed out, its call
\* has gone on or its call is aborted, has had its signal aborted: by
\* executeWithTimeout or through composeSignals.
THEOREM AbandonedAreTold == Spec => []AbandonedIsTold
<1>1. Init => Told
  <2>. SUFFICES ASSUME Init PROVE Told
    OBVIOUS
  <2>1. \A n \in Numbers : op[n] = "none"
    BY DEF Init
  <2>2. Root \in aborted => held = {}
    BY DEF Init
  <2>. QED  BY <2>1, <2>2 DEF Told, ChildrenKnown, AbortIsTotal, AbandonedIsTold
<1>2. Told => AbandonedIsTold
  BY DEF Told
<1>. QED  BY <1>1, <1>2, ToldStep, WellFormedAlways, PTL DEF Spec
-----------------------------------------------------------------------------
(* Answers *)

\* An answer belongs to the attempt that was made last, and a result to it.
AnswerIsCurrent ==
    /\ \A n \in timedOut : n <= attempt
    /\ stage = "racing" => answer = "none" /\ attempt \notin timedOut
    /\ stage \notin {"returning", "done"} => result = "none"
    /\ answer = "value" => attempt # 0 /\ op[attempt] = "done" /\ attempt \notin timedOut
    /\ result = "value" => answer = "value"

LEMMA AnswerStep == WellFormed /\ AnswerIsCurrent /\ [Next]_vars => AnswerIsCurrent'
<1>. SUFFICES ASSUME WellFormed, AnswerIsCurrent, [Next]_vars PROVE AnswerIsCurrent'
  OBVIOUS
<1>0. /\ attempt \in Nat /\ timedOut \subseteq Nat
      /\ stage = "racing" => attempt \in Numbers
      /\ op \in [Numbers -> {"none", "scheduled", "running", "done"}]
      /\ answer = "value" => attempt \in Numbers
  BY RetryAssumption DEF WellFormed, TypeOK, AttemptsInOrder, AnswerIsCurrent, Numbers
<1>1. CASE GiveUp \/ Settle \/ Exhausted
  <2>1. /\ stage \notin {"racing", "returning", "done"} /\ stage' = "returning"
        /\ UNCHANGED <<attempt, answer, op, timedOut>>
        /\ result' = "value" => answer = "value"
    BY <1>1 DEF GiveUp, Settle, Exhausted, Retryable, Conclude
  <2>. QED  BY <2>1 DEF AnswerIsCurrent
<1>2. CASE StartAttempt
  <2>1. /\ stage = "trying" /\ stage' = "racing" /\ answer' = "none"
        /\ attempt' = attempt + 1 /\ UNCHANGED <<timedOut, result>>
    BY <1>2 DEF StartAttempt
  <2>2. \A n \in timedOut : n <= attempt + 1 /\ n # attempt + 1
    BY <1>0 DEF AnswerIsCurrent
  <2>. QED  BY <2>1, <2>2 DEF AnswerIsCurrent
<1>3. CASE BackOff \/ SleepEnds \/ Return
  <2>1. /\ stage # "racing" /\ stage' # "racing"
        /\ stage' \notin {"returning", "done"} => stage \notin {"returning", "done"}
        /\ UNCHANGED <<attempt, answer, op, timedOut, result>>
    BY <1>3 DEF BackOff, SleepEnds, Return, Retryable
  <2>. QED  BY <2>1 DEF AnswerIsCurrent
<1>4. CASE CallNext
  <2>1. /\ stage = "racing" /\ UNCHANGED <<stage, attempt, answer, timedOut, result>>
    BY <1>4 DEF CallNext
  <2>. QED  BY <2>1 DEF AnswerIsCurrent
<1>5. ASSUME NEW n \in Numbers, NEW outcome \in {"value", "error"}, OpEnds(n, outcome)
      PROVE  AnswerIsCurrent'
  <2>1. op' = [op EXCEPT ![n] = "done"] /\ UNCHANGED <<attempt, timedOut, result>>
    BY <1>5 DEF OpEnds
  <2>2. \A k \in Numbers : op[k] = "done" \/ k = n => op'[k] = "done"
    BY <1>0, <2>1
  <2>3. CASE stage = "racing" /\ n = attempt
    <3>1. stage' = "answered" /\ answer' = outcome
      BY <1>5, <2>3 DEF OpEnds
    <3>2. result # "value" /\ attempt \notin timedOut /\ attempt # 0 /\ result = "none"
      BY <2>3 DEF AnswerIsCurrent, WellFormed, AttemptsInOrder
    <3>. QED  BY <2>1, <2>2, <2>3, <3>1, <3>2 DEF AnswerIsCurrent
  <2>4. CASE ~(stage = "racing" /\ n = attempt)
    <3>1. stage' = stage /\ answer' = answer
      BY <1>5, <2>4 DEF OpEnds
    <3>2. answer = "value" => op'[attempt] = "done"
      BY <1>0, <2>2 DEF AnswerIsCurrent
    <3>. QED  BY <2>1, <3>1, <3>2 DEF AnswerIsCurrent
  <2>. QED  BY <2>3, <2>4
<1>6. CASE TimerFires
  <2>1. /\ stage = "racing" /\ stage' = "answered" /\ answer' = "error"
        /\ timedOut' = timedOut \cup {attempt} /\ UNCHANGED <<attempt, op, result>>
    BY <1>6 DEF TimerFires
  <2>2. \A n \in timedOut' : n <= attempt
    BY <1>0, <2>1 DEF AnswerIsCurrent
  <2>. QED  BY <2>1, <2>2 DEF AnswerIsCurrent
<1>7. CASE AbortCall
  <2>1. /\ stage' = "racing" => stage = "racing"
        /\ stage' \notin {"returning", "done"} => stage \notin {"returning", "done"}
        /\ UNCHANGED <<attempt, answer, op, timedOut, result>>
    BY <1>7 DEF AbortCall
  <2>. QED  BY <2>1 DEF AnswerIsCurrent
<1>8. CASE UNCHANGED <<stage, attempt, answer, op, timedOut, result>>
  BY <1>8 DEF AnswerIsCurrent
<1>. QED
  BY <1>1, <1>2, <1>3, <1>4, <1>5, <1>6, <1>7, <1>8
  DEF Next, Pending, CallerAborts, DeadlinePasses, DeadlineTimer, vars

\* A value that executeWithRetry looks at or returns is that of its last
\* attempt, which ended before its timer: Promise.race drops late answers.
THEOREM ValuesAreCurrent == Spec => []ValueIsCurrent
<1>1. Init => AnswerIsCurrent
  BY DEF Init, AnswerIsCurrent
<1>2. AnswerIsCurrent => ValueIsCurrent
  BY DEF AnswerIsCurrent, ValueIsCurrent
<1>. QED  BY <1>1, <1>2, AnswerStep, WellFormedAlways, PTL DEF Spec

\* No attempt begins once the call is aborted: of all steps only the head of
\* the loop begins one, and it looks at the signal first.
THEOREM NoLateAttempts == Spec => NoAttemptAfterAbort
<1>1. [Next]_vars => [attempt' # attempt => Root \notin aborted]_vars
  BY DEF Next, Pending, GiveUp, StartAttempt, CallNext, Settle, Exhausted, BackOff, Return,
         OpEnds, TimerFires, SleepEnds, CallerAborts, AbortCall, DeadlinePasses, DeadlineTimer, vars
<1>. QED  BY <1>1, PTL DEF Spec, NoAttemptAfterAbort
=============================================================================
