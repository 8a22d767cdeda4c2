----------------------------- MODULE LlmStream -----------------------------
(***************************************************************************)
(* One logical stream of the LLM client: packages/llm/src/stream.ts, run   *)
(* through the retry and timeout policies, with the guard of               *)
(* packages/llm/src/classifier.ts and the error mapping of Failures.       *)
(*                                                                         *)
(* Consumer and pump meet in two places: `delivery`, the promise of a      *)
(* pending next(), and the demand the pump waits for before it asks the    *)
(* provider for a frame.  An attempt that loses against its timer leaves a *)
(* pump behind.  Only the pump of the present attempt can wait for demand, *)
(* so that the one `demand` of the code is the state "demand" of a pump.   *)
(*                                                                         *)
(* An action is the code between two awaits.                               *)
(***************************************************************************)
EXTENDS Failures

CONSTANTS
    MaxAttempts,    \* retry.maxAttempts
    MaxFrames,      \* bound: text frames of one generation
    Errors,         \* what an attempt may fail with
    Providers,      \* what providers do when told to stop: "rejects" (next() fails),
                    \* "ends" (next() is done) or "deaf" (anything at any time)
    RetryOn         \* whether retry.retryOn is set, and asks for a retry of any error

ASSUME StreamAssumption ==
    /\ MaxAttempts \in Nat \ {0}
    /\ MaxFrames \in Nat
    /\ Providers \subseteq {"rejects", "ends", "deaf"}
    /\ RetryOn \in BOOLEAN

VARIABLES
    provider,       \* the kind of the provider
    started, stopped, completed, committed, failed, \* flags of createLlmStream
                    \* (failed: terminalError is set)
    delivery,       \* whether a next() waits for its answer
    result,         \* the promise of result()
    callerAborted, ownAborted,  \* the caller's signal and that of abortController
    call,           \* where execute() stands
    attempt, answer,\* the present attempt and how it ended
    timedOut,       \* the attempts aborted by their timers
    pump, ending,   \* pump[n]: where it stands; ending[n]: how it will end
    frames,         \* frames[n]: text frames read in attempt n
    source, seen    \* history: generation and number of the last text delivered

flags == <<started, stopped, completed, committed, failed>>
signals == <<callerAborted, ownAborted>>
retry == <<call, attempt, answer, timedOut>>
pumps == <<pump, ending, frames>>
history == <<source, seen>>
vars == <<provider, flags, delivery, result, signals, retry, pumps, history>>

Attempts == 1..MaxAttempts

Response == [ok |-> TRUE, retryable |-> FALSE, mayPass |-> FALSE]
Error(e) == [ok |-> FALSE, retryable |-> IsRetryable(e), mayPass |-> MayPass(e)]
Cancelled == [ok |-> FALSE, retryable |-> FALSE, mayPass |-> FALSE]
TimedOut == [ok |-> FALSE, retryable |-> TRUE, mayPass |-> TRUE]

\* The signals of the call and of the context of an attempt.
CallAborted == callerAborted \/ ownAborted
Aborted(n) == CallAborted \/ n \in timedOut

Init ==
    /\ provider \in Providers
    /\ started = FALSE /\ stopped = FALSE /\ completed = FALSE
    /\ committed = FALSE /\ failed = FALSE
    /\ delivery = FALSE
    /\ result = "pending"
    /\ callerAborted \in BOOLEAN
    /\ ownAborted = FALSE
    /\ call = "idle" /\ attempt = 0 /\ answer = Cancelled /\ timedOut = {}
    /\ pump = [n \in Attempts |-> "none"]
    /\ ending = [n \in Attempts |-> Cancelled]
    /\ frames = [n \in Attempts |-> 0]
    /\ source = 0 /\ seen = 0

\* The pumps in ns that wait for demand are rejected and close their iterators.
Interrupt(ns, how) ==
    LET waiting == {n \in ns : pump[n] = "demand"} IN
    /\ pump' = [n \in Attempts |-> IF n \in waiting THEN "closing" ELSE pump[n]]
    /\ ending' = [n \in Attempts |-> IF n \in waiting THEN how ELSE ending[n]]
    /\ UNCHANGED frames

\* Mutant: the pending next() is forgotten.
FailUnanswered ==
    /\ failed' = TRUE
    /\ ownAborted' = TRUE
    /\ UNCHANGED delivery
    /\ result' = "rejected"

\* fail
Fail ==
    /\ failed' = TRUE
    /\ ownAborted' = TRUE
    /\ delivery' = FALSE
    /\ result' = "rejected"
-----------------------------------------------------------------------------
(* The consumer *)

\* The first next(): a signal already aborted fails the stream at once.
Start ==
    /\ ~started /\ ~stopped
    /\ started' = TRUE
    /\ \/ /\ callerAborted
          /\ Fail
          /\ UNCHANGED call
       \/ /\ ~callerAborted
          /\ delivery' = TRUE
          /\ call' = "trying"
          /\ UNCHANGED <<failed, ownAborted, result>>
    /\ UNCHANGED <<provider, stopped, completed, committed, callerAborted,
                   attempt, answer, timedOut, pumps, history>>

\* A later next().  After return(), an error or `completed`, and beside a
\* pending next(), it is answered without a change of state.
Next_ ==
    /\ started /\ ~stopped /\ ~failed /\ ~completed /\ ~delivery
    /\ delivery' = TRUE
    /\ pump' = [n \in Attempts |-> IF pump[n] = "demand" THEN "reading" ELSE pump[n]]
    /\ UNCHANGED <<provider, flags, result, signals, retry, ending, frames, history>>

\* Mutant: return() only answers the pending next().
ReturnQuietly ==
    /\ ~stopped
    /\ stopped' = TRUE
    /\ delivery' = FALSE
    /\ IF started
       THEN UNCHANGED <<failed, result, ownAborted>>
       ELSE failed' = TRUE /\ result' = "rejected" /\ ownAborted' = TRUE
    /\ UNCHANGED <<provider, started, completed, committed, callerAborted, retry, pumps, history>>

\* return() and throw() of the iterator, of which `break` calls the first.
Return ==
    /\ ~stopped
    /\ stopped' = TRUE
    /\ \/ /\ ~started
          /\ Fail
          /\ UNCHANGED pumps
       \/ /\ started
          /\ ownAborted' = TRUE
          /\ delivery' = FALSE
          /\ Interrupt(Attempts, Cancelled)
          /\ UNCHANGED <<failed, result>>
    /\ UNCHANGED <<provider, started, completed, committed, callerAborted, retry, history>>

CallerAborts ==
    /\ ~callerAborted
    /\ callerAborted' = TRUE
    /\ Interrupt(Attempts, Cancelled)
    /\ UNCHANGED <<provider, flags, delivery, result, ownAborted, retry, history>>
-----------------------------------------------------------------------------
(* execute(): retry around timeout around pump *)

\* The retry loop finds the call aborted before an attempt.
GiveUp ==
    /\ call = "trying"
    /\ CallAborted
    /\ call' = "failing"
    /\ UNCHANGED <<provider, flags, delivery, result, signals, attempt, answer, timedOut, pumps, history>>

\* Outer policies may refuse the call, or answer it themselves from a cache.
RefusedOutside ==
    /\ call = "trying" /\ attempt = 0
    /\ call' \in {"failing", "resolving"}
    /\ UNCHANGED <<provider, flags, delivery, result, signals, attempt, answer, timedOut, pumps, history>>

StartAttempt ==
    /\ call = "trying"
    /\ ~CallAborted
    /\ attempt' = attempt + 1
    /\ call' = "racing"
    /\ pump' = [pump EXCEPT ![attempt'] = "opening"]
    /\ UNCHANGED <<provider, flags, delivery, result, signals, answer, timedOut, ending, frames, history>>

\* withStreamCommitRetryGuard.  retryOn is asked first and knows no guard.
ShouldRetry == RetryOn \/ (~committed /\ answer.retryable)

\* What becomes of an attempt that has ended.
AttemptEnded ==
    /\ call = "answered"
    /\ \/ answer.ok /\ call' = "resolving"
       \/ ~answer.ok /\ (CallAborted \/ ~ShouldRetry \/ attempt = MaxAttempts) /\ call' = "failing"
       \/ ~answer.ok /\ ~CallAborted /\ ShouldRetry /\ attempt < MaxAttempts /\ call' = "sleeping"
    /\ UNCHANGED <<provider, flags, delivery, result, signals, attempt, answer, timedOut, pumps, history>>

\* The back-off is over, or cut short by an abort.
Wakes ==
    /\ call = "sleeping"
    /\ call' = "trying"
    /\ UNCHANGED <<provider, flags, delivery, result, signals, attempt, answer, timedOut, pumps, history>>

\* Iterators of providers that heed their signal are closed within microtasks,
\* before any timer.
Quiet == provider # "deaf" => \A n \in Attempts : pump[n] # "closing"

\* perAttemptMs are over, which include the time the consumer takes.
TimerFires ==
    /\ Quiet
    /\ call = "racing"
    /\ timedOut' = timedOut \cup {attempt}
    /\ call' = "answered"
    /\ answer' = TimedOut
    /\ Interrupt({attempt}, TimedOut)
    /\ UNCHANGED <<provider, flags, delivery, result, signals, attempt, history>>

\* A fallback policy turns the failure into an answer of its own.
FallbackAnswers ==
    /\ call = "failing"
    /\ call' = "resolving"
    /\ UNCHANGED <<provider, flags, delivery, result, signals, attempt, answer, timedOut, pumps, history>>

\* The catch of execute().
CallFails ==
    /\ call = "failing"
    /\ call' = "over"
    /\ Fail
    /\ Interrupt(Attempts, Cancelled)
    /\ UNCHANGED <<provider, started, stopped, completed, committed, callerAborted,
                   attempt, answer, timedOut, history>>

\* Its then.  Without `completed` there is no result to give.
CallResolves ==
    /\ call = "resolving"
    /\ call' = "over"
    /\ result' = IF completed THEN "resolved" ELSE result
    /\ UNCHANGED <<provider, flags, delivery, signals, attempt, answer, timedOut, pumps, history>>
-----------------------------------------------------------------------------
(* The pumps *)

\* What the provider of an attempt may still answer.
MayGoOn(n) == Aborted(n) => provider = "deaf"
MayEnd(n) == Aborted(n) => provider # "rejects"

\* Pump n closes its iterator and will end so.
Close(n, how) ==
    /\ pump' = [pump EXCEPT ![n] = "closing"]
    /\ ending' = [ending EXCEPT ![n] = how]

\* The head of its loop: the signal, then waitForDemand.
Loop(n, wanted) ==
    IF Aborted(n) THEN Close(n, Cancelled)
    ELSE /\ pump' = [pump EXCEPT ![n] = IF wanted THEN "reading" ELSE "demand"]
         /\ UNCHANGED ending

\* The promise of pump n settles, and with it the race, if that is still open.
Settles(n, how) ==
    /\ answer' = IF call = "racing" /\ n = attempt THEN how ELSE answer
    /\ call' = IF call = "racing" /\ n = attempt THEN "answered" ELSE call

OpenSucceeds(n) ==
    /\ pump[n] = "opening"
    /\ MayGoOn(n)
    /\ Loop(n, delivery)
    /\ UNCHANGED <<provider, flags, delivery, result, signals, retry, frames, history>>

\* The provider, or a policy around it, refuses the attempt.
OpenFails(n) ==
    /\ pump[n] = "opening"
    /\ pump' = [pump EXCEPT ![n] = "done"]
    /\ \E e \in Errors : Settles(n, Error(e))
    /\ UNCHANGED <<provider, flags, delivery, result, signals, attempt, timedOut, ending, frames, history>>

\* Mutant: the commit is forgotten.
ReadTextUncommitted(n) ==
    /\ pump[n] = "reading"
    /\ MayGoOn(n)
    /\ frames[n] < MaxFrames
    /\ frames' = [frames EXCEPT ![n] = @ + 1]
    /\ delivery' = FALSE
    /\ source' = n /\ seen' = frames'[n]
    /\ Loop(n, FALSE)
    /\ UNCHANGED <<provider, flags, result, signals, retry>>

\* A text frame goes to the pending next() and commits the stream; when
\* another pump has answered that next() already, it is lost.
ReadText(n) ==
    /\ pump[n] = "reading"
    /\ MayGoOn(n)
    /\ frames[n] < MaxFrames
    /\ frames' = [frames EXCEPT ![n] = @ + 1]
    /\ delivery' = FALSE
    /\ committed' = (committed \/ delivery)
    /\ IF delivery THEN source' = n /\ seen' = frames'[n] ELSE UNCHANGED history
    /\ Loop(n, FALSE)
    /\ UNCHANGED <<provider, started, stopped, completed, failed, result, signals, retry>>

\* The provider is done: `completed` is delivered, onSuccess.
ReadEnd(n) ==
    /\ pump[n] = "reading"
    /\ MayEnd(n)
    /\ delivery' = FALSE
    /\ completed' = TRUE
    /\ Close(n, Response)
    /\ UNCHANGED <<provider, started, stopped, committed, failed, result, signals, retry, frames, history>>

ReadFails(n) ==
    /\ pump[n] = "reading"
    /\ \E e \in Errors : Close(n, Error(e))
    /\ UNCHANGED <<provider, flags, delivery, result, signals, retry, frames, history>>

\* The iterator is closed.
PumpEnds(n) ==
    /\ pump[n] = "closing"
    /\ pump' = [pump EXCEPT ![n] = "done"]
    /\ Settles(n, ending[n])
    /\ UNCHANGED <<provider, flags, delivery, result, signals, attempt, timedOut, ending, frames, history>>
-----------------------------------------------------------------------------
Execution == GiveUp \/ StartAttempt \/ AttemptEnded \/ Wakes \/ CallResolves
             \/ CallFails \/ FallbackAnswers

Next ==
    \/ Start \/ Next_ \/ Return \/ CallerAborts
    \/ Execution \/ RefusedOutside \/ TimerFires
    \/ \E n \in Attempts :
        OpenSucceeds(n) \/ OpenFails(n) \/ ReadText(n) \/ ReadEnd(n) \/ ReadFails(n) \/ PumpEnds(n)

Spec == Init /\ [][Next]_vars

\* The event loop runs what is pending and its timers.  Providers may hang,
\* and so may the closing of the iterator of one that is deaf.
Fairness ==
    /\ WF_vars(Execution)
    /\ WF_vars(TimerFires)
    /\ \A n \in Attempts : WF_vars(provider # "deaf" /\ PumpEnds(n))

FairSpec == Spec /\ Fairness
-----------------------------------------------------------------------------
(* Properties *)

TypeOK ==
    /\ provider \in Providers
    /\ {started, stopped, completed, committed, failed, delivery} \subseteq BOOLEAN
    /\ result \in {"pending", "resolved", "rejected"}
    /\ {callerAborted, ownAborted} \subseteq BOOLEAN
    /\ call \in {"idle", "trying", "racing", "answered", "sleeping", "failing", "resolving", "over"}
    /\ attempt \in 0..MaxAttempts
    /\ timedOut \subseteq Attempts
    /\ pump \in [Attempts -> {"none", "opening", "demand", "reading", "closing", "done"}]
    /\ frames \in [Attempts -> 0..MaxFrames]
    /\ source \in 0..MaxAttempts /\ seen \in 0..MaxFrames

Abstract == INSTANCE TextStream WITH
    Generations <- Attempts,
    MaxText <- MaxFrames,
    trusted <- provider = "rejects",
    outcome <- IF result # "pending" THEN result ELSE IF completed THEN "completed" ELSE "open"

\* The consumer of a provider that stops when told reads the text of one
\* generation, all of it and in order, and one end: `completed` exactly when
\* result() resolves, whatever attempts, timers, aborts and returns cross.
Implements == Abstract!ASpec

\* An attempt is made only if nothing has aborted the call, no text has been
\* delivered (unless an abandoned pump that ignores its signal delivered some
\* since) and what the attempt before ended with may pass: not a cancellation
\* in the words of some SDK, nor a refusal that will be repeated.
RetriesAreJustified ==
    [][attempt' # attempt =>
        /\ ~CallAborted
        /\ provider # "deaf" => ~committed
        /\ attempt > 0 => answer.mayPass]_vars

\* A pump whose consumer has left or whose call is over has been told to
\* stop, and none of them waits for a consumer that will not come.
PumpsAreStopped ==
    \A n \in Attempts :
        /\ stopped \/ call = "over"
        /\ pump[n] \in {"opening", "demand", "reading"}
        => Aborted(n) /\ pump[n] # "demand"

\* docs/llm/streaming.md:143: "the visible text of one logical stream comes
\* from exactly one provider generation."
OneGeneration == [][source # 0 => source' = source]_vars

\* A stream that was started ends: its pending next() is answered and result()
\* settles, although providers hang and the consumer may stop pulling.  Unless
\* an outer policy answers the call without a stream: then both stay pending.
StreamSettles ==
    started ~> \/ result # "pending" /\ ~delivery
               \/ call = "over" /\ result = "pending"
=============================================================================
