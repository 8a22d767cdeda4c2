---------------------------- MODULE RetryTimeout ----------------------------
(***************************************************************************)
(* One call through the pipeline with the retry and timeout policies:      *)
(* core/pipeline/index.ts, policies/retry/index.ts,                        *)
(* policies/timeout/index.ts, and the contexts of core/context.ts that     *)
(* they fork.                                                              *)
(*                                                                         *)
(* Each attempt is a race of the operation and a timer.  An operation that *)
(* loses it runs on beside the attempts that follow.  Whether it heeds its *)
(* signal, what it answers and what the classifier says are any choice.    *)
(*                                                                         *)
(* An action is the code between two awaits; a timer runs when nothing     *)
(* else is pending.                                                        *)
(***************************************************************************)
EXTENDS Naturals

CONSTANTS
    MaxAttempts,    \* maxAttempts
    Delays,         \* the answers of resolveDelayMs
    MaxTotalDelay   \* maxTotalDelayMs

ASSUME RetryAssumption ==
    /\ MaxAttempts \in Nat \ {0}
    /\ Delays \subseteq Nat
    /\ MaxTotalDelay \in Nat

VARIABLES
    stage,          \* where executeWithRetry stands
    attempt,        \* attemptNumber, 0 before the first
    totalDelay,     \* totalDelayMs
    answer,         \* how the race of the attempt was settled
    op,             \* op[n]: the operation of attempt n
    deadline,       \* whether the call has a deadline, and where it is
    aborted,        \* the contexts whose signal is aborted
    held,           \* the contexts that hold listeners and a deadline timer
    timedOut,       \* history: the attempts whose timer won
    result          \* what the caller gets

contexts == <<deadline, aborted, held>>
vars == <<stage, attempt, totalDelay, answer, op, contexts, timedOut, result>>

Numbers == 1..MaxAttempts

\* The context of the call, those of later attempts, and the child that the
\* timeout policy forks for each.
Root == <<"root", 0>>
AttemptContext(n) == IF n = 1 THEN Root ELSE <<"attempt", n>>
Child(n) == <<"child", n>>
Contexts == {Root} \cup ({"attempt", "child"} \X Numbers)

Parent(c) == IF c[1] = "child" THEN AttemptContext(c[2]) ELSE Root

\* An aborted context releases what it holds, and so do those that listen to it.
Reached(c) == {d \in held : d = c \/ Parent(d) = c \/ Parent(Parent(d)) = c}

\* Mutant: a context tells those below it and keeps what it holds itself.
AbortContextBelow(c) ==
    /\ aborted' = aborted \cup Reached(c)
    /\ held' = held \ (Reached(c) \ {c})

AbortContext(c) ==
    /\ aborted' = aborted \cup Reached(c)
    /\ held' = held \ Reached(c)

\* composeSignals: a context forked after the deadline is born aborted.
ForkAll(new) ==
    IF deadline = "passed"
    THEN aborted' = aborted \cup new /\ held' = held
    ELSE aborted' = aborted /\ held' = held \cup new

Init ==
    /\ stage = "trying"
    /\ attempt = 0
    /\ totalDelay = 0
    /\ answer = "none"
    /\ op = [n \in Numbers |-> "none"]
    /\ deadline \in {"none", "ahead", "passed"}
    /\ aborted \in {{}, {Root}}
    /\ deadline = "passed" => aborted = {Root}
    /\ held = {Root} \ aborted
    /\ timedOut = {}
    /\ result = "none"
-----------------------------------------------------------------------------
(* The retry loop *)

Conclude(r) ==
    /\ result' = r
    /\ stage' = "returning"

\* The loop finds the signal of the call aborted, at its head or after sleep.
GiveUp ==
    /\ stage = "trying"
    /\ Root \in aborted
    /\ Conclude("aborted")
    /\ UNCHANGED <<attempt, totalDelay, answer, op, contexts, timedOut>>

\* The next attempt: its context, the child of the timeout policy and its
\* timer; the operation is called in a microtask.
StartAttempt ==
    /\ stage = "trying"
    /\ Root \notin aborted
    /\ attempt' = attempt + 1
    /\ ForkAll({AttemptContext(attempt'), Child(attempt')} \ {Root})
    /\ op' = [op EXCEPT ![attempt'] = "scheduled"]
    /\ stage' = "racing"
    /\ answer' = "none"
    /\ UNCHANGED <<totalDelay, deadline, timedOut, result>>

\* The answer needs no retry.  An error after an abort is the abort.
Settle ==
    /\ stage = "answered"
    /\ \/ Conclude(answer) /\ (answer = "error" => Root \notin aborted)
       \/ Conclude("aborted") /\ answer = "error" /\ Root \in aborted
    /\ UNCHANGED <<attempt, totalDelay, answer, op, contexts, timedOut>>

\* The classifier or predicate asks for a retry; errors after an abort are
\* not put to it.
Retryable ==
    /\ stage = "answered"
    /\ answer = "error" => Root \notin aborted

Exhausted ==
    /\ Retryable
    /\ attempt = MaxAttempts \/ \E d \in Delays : totalDelay + d > MaxTotalDelay
    /\ Conclude("exceeded")
    /\ UNCHANGED <<attempt, totalDelay, answer, op, contexts, timedOut>>

\* A back-off of no length, or of an aborted call, ends at once.
BackOff ==
    /\ Retryable
    /\ attempt < MaxAttempts
    /\ \E d \in Delays :
        /\ totalDelay + d <= MaxTotalDelay
        /\ totalDelay' = totalDelay + d
        /\ stage' = IF d = 0 \/ Root \in aborted THEN "trying" ELSE "sleeping"
    /\ UNCHANGED <<attempt, answer, op, contexts, timedOut, result>>

\* The finally of the pipeline releases the context of the call.
Return ==
    /\ stage = "returning"
    /\ stage' = "done"
    /\ held' = held \ {Root}
    /\ UNCHANGED <<attempt, totalDelay, answer, op, deadline, aborted, timedOut, result>>
-----------------------------------------------------------------------------
(* The operations *)

CallNext ==
    /\ stage = "racing"
    /\ op[attempt] = "scheduled"
    /\ op' = [op EXCEPT ![attempt] = "running"]
    /\ UNCHANGED <<stage, attempt, totalDelay, answer, contexts, timedOut, result>>

\* Mutant: any operation that ends settles the attempt that is running.
OpEndsAnyAttempt(n, outcome) ==
    /\ op[n] = "running"
    /\ op' = [op EXCEPT ![n] = "done"]
    /\ stage' = IF stage = "racing" THEN "answered" ELSE stage
    /\ answer' = IF stage = "racing" THEN outcome ELSE answer
    /\ UNCHANGED <<attempt, totalDelay, contexts, timedOut, result>>

\* An operation settles the race it is in, if that is still open.
OpEnds(n, outcome) ==
    LET inRace == stage = "racing" /\ n = attempt IN
    /\ op[n] = "running"
    /\ op' = [op EXCEPT ![n] = "done"]
    /\ stage' = IF inRace THEN "answered" ELSE stage
    /\ answer' = IF inRace THEN outcome ELSE answer
    /\ UNCHANGED <<attempt, totalDelay, contexts, timedOut, result>>
-----------------------------------------------------------------------------
(* Timers and aborts *)

\* Nothing is pending that would run before a timer.
Quiet ==
    /\ stage \in {"racing", "sleeping", "done"}
    /\ stage = "racing" => op[attempt] # "scheduled"

\* Mutant: the attempt is given up without telling its operation.
TimerFiresSilently ==
    /\ Quiet
    /\ stage = "racing"
    /\ timedOut' = timedOut \cup {attempt}
    /\ stage' = "answered"
    /\ answer' = "error"
    /\ UNCHANGED <<attempt, totalDelay, op, contexts, result>>

\* Mutant: the timer stands back when the attempt is aborted already.
TimerFiresUnlessAborted ==
    /\ Quiet
    /\ stage = "racing"
    /\ Child(attempt) \notin aborted
    /\ AbortContext(Child(attempt))
    /\ timedOut' = timedOut \cup {attempt}
    /\ stage' = "answered"
    /\ answer' = "error"
    /\ UNCHANGED <<attempt, totalDelay, op, deadline, result>>

\* perAttemptMs are over.
TimerFires ==
    /\ Quiet
    /\ stage = "racing"
    /\ AbortContext(Child(attempt))
    /\ timedOut' = timedOut \cup {attempt}
    /\ stage' = "answered"
    /\ answer' = "error"
    /\ UNCHANGED <<attempt, totalDelay, op, deadline, result>>

SleepEnds ==
    /\ Quiet
    /\ stage = "sleeping"
    /\ stage' = "trying"
    /\ UNCHANGED <<attempt, totalDelay, answer, op, contexts, timedOut, result>>

\* An abort of the call also ends its back-off.
AbortCall ==
    /\ AbortContext(Root)
    /\ stage' = IF stage = "sleeping" THEN "trying" ELSE stage
    /\ UNCHANGED <<attempt, totalDelay, answer, op, deadline, timedOut, result>>

CallerAborts ==
    /\ Root \in held
    /\ AbortCall

DeadlinePasses ==
    /\ deadline = "ahead"
    /\ deadline' = "passed"
    /\ UNCHANGED <<stage, attempt, totalDelay, answer, op, aborted, held, timedOut, result>>

\* Every context has a deadline timer of its own.
DeadlineTimer(c) ==
    /\ Quiet
    /\ deadline = "passed"
    /\ c \in held
    /\ \/ c = Root /\ AbortCall
       \/ /\ c # Root
          /\ AbortContext(c)
          /\ UNCHANGED <<stage, attempt, totalDelay, answer, op, deadline, timedOut, result>>
-----------------------------------------------------------------------------
Pending == GiveUp \/ StartAttempt \/ CallNext \/ Settle \/ Exhausted \/ BackOff \/ Return

Next ==
    \/ Pending
    \/ \E n \in Numbers, outcome \in {"value", "error"} : OpEnds(n, outcome)
    \/ TimerFires \/ SleepEnds
    \/ CallerAborts \/ DeadlinePasses
    \/ \E c \in Contexts : DeadlineTimer(c)

Spec == Init /\ [][Next]_vars

\* The event loop runs what is pending, and its timers.  Operations may hang,
\* and a deadline may lie beyond the end.
Fairness ==
    /\ WF_vars(Pending) /\ WF_vars(TimerFires) /\ WF_vars(SleepEnds)
    /\ \A c \in Contexts : WF_vars(DeadlineTimer(c))

FairSpec == Spec /\ Fairness
-----------------------------------------------------------------------------
(* Properties *)

TypeOK ==
    /\ stage \in {"trying", "racing", "answered", "sleeping", "returning", "done"}
    /\ attempt \in 0..MaxAttempts
    /\ totalDelay \in 0..MaxTotalDelay
    /\ answer \in {"none", "value", "error"}
    /\ op \in [Numbers -> {"none", "scheduled", "running", "done"}]
    /\ deadline \in {"none", "ahead", "passed"}
    /\ aborted \subseteq Contexts
    /\ held \subseteq Contexts \ aborted
    /\ timedOut \subseteq Numbers
    /\ result \in {"none", "value", "error", "exceeded", "aborted"}

\* Once the caller or the deadline has aborted the call, no further attempt
\* begins, at whatever point of an attempt or a back-off the abort comes.
NoAttemptAfterAbort == [][attempt' # attempt => Root \notin aborted]_vars

\* An operation that is still at work although its attempt is over, by
\* timeout or because the call has moved on, or although the call is aborted,
\* has been told to stop: by the timer, or through the chain of forks.
AbandonedIsTold ==
    \A n \in Numbers :
        /\ op[n] \in {"scheduled", "running"}
        /\ ~(stage = "racing" /\ attempt = n) \/ Root \in aborted
        => Child(n) \in aborted

\* A value the loop works with is that of its present attempt, which ended in
\* time: late answers of abandoned attempts go nowhere.
ValueIsCurrent ==
    answer = "value" \/ result = "value" =>
        op[attempt] = "done" /\ attempt \notin timedOut

\* A call ends, although its operations may hang and ignore their signals.
CallEnds == <>(stage = "done")

\* Whatever a call leaves behind, the contexts of its attempts among them which
\* nobody releases when it ends, is let go once its deadline has passed.
DeadlineFreesAll == deadline = "passed" ~> held = {}
=============================================================================
