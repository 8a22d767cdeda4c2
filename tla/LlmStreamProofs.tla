-------------------------- MODULE LlmStreamProofs --------------------------
(***************************************************************************)
(* Theorems about LlmStream, for any number of attempts and frames, any    *)
(* errors and any mix of providers: the pumps that a stream leaves behind  *)
(* have been told to stop, and, unless retry.retryOn asks for retries of   *)
(* its own, a stream is the text of one generation with one end            *)
(* (TextStream), and is retried only for what may pass.                    *)
(***************************************************************************)
EXTENDS LlmStream, TLAPS

Live(n) == pump[n] \notin {"none", "done"}

\* Where the call stands, what has been started, and how far it has come.
CallKnown ==
    /\ ~started => call = "idle"
    /\ call = "idle" => attempt = 0
    /\ call \in {"trying", "sleeping"} => attempt < MaxAttempts
    /\ call = "racing" => attempt > 0

\* A pump that runs was abandoned by its timer, or is the one that is raced.
PumpsKnown ==
    /\ ending = [n \in Attempts |-> ending[n]]
    /\ \A n \in Attempts :
        /\ n > attempt => pump[n] = "none"
        /\ Live(n) => n \in timedOut \/ (n = attempt /\ call = "racing")

\* Every abort finds the pumps that wait for demand.
DemandIsLive == \A n \in Attempts : pump[n] = "demand" => ~Aborted(n)

StoppedIsAborted == stopped \/ failed => ownAborted

\* result() settles with the end of the call, or before it has begun.
EndsOnce ==
    /\ failed => started \/ stopped
    /\ completed => started
    /\ completed \/ failed => ~delivery
    /\ result = "rejected" => failed
    /\ result = "resolved" => completed
    /\ result # "pending" => call \in {"idle", "over"} /\ (started \/ stopped)

StreamInv ==
    /\ TypeOK
    /\ CallKnown
    /\ PumpsKnown
    /\ DemandIsLive
    /\ StoppedIsAborted
    /\ EndsOnce
-----------------------------------------------------------------------------
\* The commit guard: no attempt is planned once text has been delivered, and
\* one that is follows an error that may be retried.
GuardHolds ==
    call \in {"trying", "sleeping"} =>
        /\ provider # "deaf" => ~committed
        /\ attempt > 0 => answer.retryable

\* Of a provider that stops when told: the text is that of the present
\* attempt, none of its frames has been lost, and the stream that has been
\* completed is on its way to its result.
TextIsCurrent ==
    /\ attempt = 0 => ~committed
    /\ committed <=> source # 0
    /\ provider = "rejects" =>
        /\ source = 0 => seen = 0 /\ \A n \in Attempts : frames[n] = 0
        /\ source # 0 => source = attempt /\ seen = frames[source]
        /\ \A n \in Attempts : pump[n] = "reading" /\ ~Aborted(n) => delivery

CompletedIsKept ==
    provider = "rejects" /\ completed =>
        \/ call = "racing" /\ pump[attempt] = "closing" /\ ending[attempt] = Response
        \/ call = "answered" /\ answer = Response
        \/ call = "resolving"
        \/ call = "over" /\ result = "resolved"

\* What attempts end with, which may pass if it may be retried.
Answers == {Response, Cancelled, TimedOut} \cup {Error(e) : e \in Errors}
AnswersKnown == answer \in Answers /\ \A n \in Attempts : ending[n] \in Answers

TextInv == StreamInv /\ GuardHolds /\ TextIsCurrent /\ CompletedIsKept /\ AnswersKnown
-----------------------------------------------------------------------------
(* The pumps are stopped *)

\* The groups of variables are abbreviations.
USE DEF vars, flags, signals, retry, pumps, history

\* Init and every action keep the invariant.
LEMMA StreamInvInit == Init => StreamInv
  <1> SUFFICES ASSUME Init PROVE StreamInv
    OBVIOUS
  <1> USE StreamAssumption DEF Init, Attempts
  <1>1. TypeOK
    <2>1. attempt \in 0..MaxAttempts /\ source \in 0..MaxAttempts /\ seen \in 0..MaxFrames
      OBVIOUS
    <2>2. pump \in [Attempts -> {"none"}] /\ frames \in [Attempts -> 0..MaxFrames]
      OBVIOUS
    <2> QED
      BY <2>1, <2>2 DEF TypeOK
  <1>2. CallKnown /\ PumpsKnown
    BY DEF CallKnown, PumpsKnown, Live
  <1>3. DemandIsLive /\ StoppedIsAborted /\ EndsOnce
    BY DEF DemandIsLive, StoppedIsAborted, EndsOnce
  <1> QED
    BY <1>1, <1>2, <1>3 DEF StreamInv

\* The first next().
LEMMA StartKeeps ==
    ASSUME StreamInv, Start
    PROVE  StreamInv'
  <1> USE StreamAssumption DEF Attempts, Start, Fail
  <1>1. TypeOK'
    BY DEF StreamInv, TypeOK
  <1>2. CallKnown'
    BY DEF StreamInv, CallKnown
  <1>3. PumpsKnown'
    BY DEF StreamInv, CallKnown, PumpsKnown, Live
  <1>4. DemandIsLive'
    BY DEF StreamInv, CallKnown, PumpsKnown, Live, DemandIsLive
  <1>5. StoppedIsAborted'
    BY DEF StreamInv, StoppedIsAborted
  <1>6. EndsOnce'
    BY DEF StreamInv, CallKnown, EndsOnce
  <1> QED
    BY <1>1, <1>2, <1>3, <1>4, <1>5, <1>6 DEF StreamInv

\* A later next().
LEMMA NextKeeps ==
    ASSUME StreamInv, Next_
    PROVE  StreamInv'
  <1> USE StreamAssumption DEF Attempts, Next_
  <1>1. TypeOK'
    BY DEF StreamInv, TypeOK
  <1>2. CallKnown'
    BY DEF StreamInv, CallKnown
  <1>3. PumpsKnown'
    BY DEF StreamInv, PumpsKnown, Live
  <1>4. DemandIsLive'
    BY DEF DemandIsLive
  <1>5. StoppedIsAborted'
    BY DEF StoppedIsAborted
  <1>6. EndsOnce'
    BY DEF StreamInv, EndsOnce
  <1> QED
    BY <1>1, <1>2, <1>3, <1>4, <1>5, <1>6 DEF StreamInv

\* return() and throw().
LEMMA ReturnKeeps ==
    ASSUME StreamInv, Return
    PROVE  StreamInv'
  <1> USE StreamAssumption DEF Attempts, Return, Fail, Interrupt
  <1>1. TypeOK'
    BY DEF StreamInv, TypeOK
  <1>2. CallKnown'
    BY DEF StreamInv, CallKnown
  <1>3. PumpsKnown'
    BY DEF StreamInv, PumpsKnown, Live
  <1>4. DemandIsLive'
    BY DEF StreamInv, CallKnown, PumpsKnown, DemandIsLive, Aborted
  <1>5. StoppedIsAborted'
    BY DEF StoppedIsAborted
  <1>6. EndsOnce'
    BY DEF StreamInv, CallKnown, EndsOnce
  <1> QED
    BY <1>1, <1>2, <1>3, <1>4, <1>5, <1>6 DEF StreamInv

\* The abort of the caller.
LEMMA AbortKeeps ==
    ASSUME StreamInv, CallerAborts
    PROVE  StreamInv'
  <1> USE StreamAssumption DEF Attempts, CallerAborts, Interrupt
  <1>1. TypeOK'
    BY DEF StreamInv, TypeOK
  <1>2. CallKnown'
    BY DEF StreamInv, CallKnown
  <1>3. PumpsKnown'
    BY DEF StreamInv, PumpsKnown, Live
  <1>4. DemandIsLive'
    BY DEF DemandIsLive
  <1>5. StoppedIsAborted'
    BY DEF StreamInv, StoppedIsAborted
  <1>6. EndsOnce'
    BY DEF StreamInv, EndsOnce
  <1> QED
    BY <1>1, <1>2, <1>3, <1>4, <1>5, <1>6 DEF StreamInv

\* The steps of execute() that move nothing but the call.
LEMMA WaitKeeps ==
    ASSUME StreamInv, GiveUp \/ RefusedOutside \/ Wakes \/ FallbackAnswers
    PROVE  StreamInv'
  <1> USE StreamAssumption DEF Attempts, GiveUp, RefusedOutside, Wakes, FallbackAnswers
  <1>1. TypeOK'
    BY DEF StreamInv, TypeOK
  <1>2. CallKnown'
    BY DEF StreamInv, CallKnown
  <1>3. PumpsKnown'
    BY DEF StreamInv, PumpsKnown, Live
  <1>4. DemandIsLive'
    BY DEF StreamInv, PumpsKnown, Live, DemandIsLive, Aborted
  <1>5. StoppedIsAborted'
    BY DEF StreamInv, StoppedIsAborted
  <1>6. EndsOnce'
    BY DEF StreamInv, EndsOnce
  <1> QED
    BY <1>1, <1>2, <1>3, <1>4, <1>5, <1>6 DEF StreamInv

\* A new attempt.
LEMMA StartAttemptKeeps ==
    ASSUME StreamInv, StartAttempt
    PROVE  StreamInv'
  <1> USE StreamAssumption DEF Attempts, StartAttempt
  <1>1. TypeOK'
    BY DEF StreamInv, TypeOK, CallKnown
  <1>2. CallKnown'
    BY DEF StreamInv, TypeOK, CallKnown
  <1>3. PumpsKnown'
    BY DEF StreamInv, TypeOK, PumpsKnown, Live
  <1>4. DemandIsLive'
    BY DEF StreamInv, PumpsKnown, Live, DemandIsLive, Aborted
  <1>5. StoppedIsAborted'
    BY DEF StreamInv, StoppedIsAborted
  <1>6. EndsOnce'
    BY DEF StreamInv, EndsOnce
  <1> QED
    BY <1>1, <1>2, <1>3, <1>4, <1>5, <1>6 DEF StreamInv

\* The end of an attempt.
LEMMA AttemptEndedKeeps ==
    ASSUME StreamInv, AttemptEnded
    PROVE  StreamInv'
  <1> USE StreamAssumption DEF Attempts, AttemptEnded
  <1>1. TypeOK'
    BY DEF StreamInv, TypeOK
  <1>2. CallKnown'
    BY DEF StreamInv, CallKnown
  <1>3. PumpsKnown'
    BY DEF StreamInv, PumpsKnown, Live
  <1>4. DemandIsLive'
    BY DEF StreamInv, PumpsKnown, Live, DemandIsLive, Aborted
  <1>5. StoppedIsAborted'
    BY DEF StreamInv, StoppedIsAborted
  <1>6. EndsOnce'
    BY DEF StreamInv, EndsOnce
  <1> QED
    BY <1>1, <1>2, <1>3, <1>4, <1>5, <1>6 DEF StreamInv

\* The timer of an attempt.
LEMMA TimerKeeps ==
    ASSUME StreamInv, TimerFires
    PROVE  StreamInv'
  <1> USE StreamAssumption DEF Attempts, TimerFires, Interrupt
  <1>1. TypeOK'
    BY DEF StreamInv, TypeOK, CallKnown
  <1>2. CallKnown'
    BY DEF StreamInv, CallKnown
  <1>3. PumpsKnown'
    BY DEF StreamInv, PumpsKnown, Live
  <1>4. DemandIsLive'
    BY DEF StreamInv, PumpsKnown, Live, DemandIsLive, Aborted
  <1>5. StoppedIsAborted'
    BY DEF StreamInv, StoppedIsAborted
  <1>6. EndsOnce'
    BY DEF StreamInv, EndsOnce
  <1> QED
    BY <1>1, <1>2, <1>3, <1>4, <1>5, <1>6 DEF StreamInv

\* The call fails.
LEMMA CallFailsKeeps ==
    ASSUME StreamInv, CallFails
    PROVE  StreamInv'
  <1> USE StreamAssumption DEF Attempts, CallFails, Fail, Interrupt
  <1>1. TypeOK'
    BY DEF StreamInv, TypeOK
  <1>2. CallKnown'
    BY DEF StreamInv, CallKnown
  <1>3. PumpsKnown'
    BY DEF StreamInv, PumpsKnown, Live
  <1>4. DemandIsLive'
    BY DEF DemandIsLive
  <1>5. StoppedIsAborted'
    BY DEF StoppedIsAborted
  <1>6. EndsOnce'
    BY DEF StreamInv, CallKnown, EndsOnce
  <1> QED
    BY <1>1, <1>2, <1>3, <1>4, <1>5, <1>6 DEF StreamInv

\* The call resolves.
LEMMA CallResolvesKeeps ==
    ASSUME StreamInv, CallResolves
    PROVE  StreamInv'
  <1> USE StreamAssumption DEF Attempts, CallResolves
  <1>1. TypeOK'
    BY DEF StreamInv, TypeOK
  <1>2. CallKnown'
    BY DEF StreamInv, CallKnown
  <1>3. PumpsKnown'
    BY DEF StreamInv, PumpsKnown, Live
  <1>4. DemandIsLive'
    BY DEF StreamInv, PumpsKnown, Live, DemandIsLive, Aborted
  <1>5. StoppedIsAborted'
    BY DEF StreamInv, StoppedIsAborted
  <1>6. EndsOnce'
    BY DEF StreamInv, EndsOnce
  <1> QED
    BY <1>1, <1>2, <1>3, <1>4, <1>5, <1>6 DEF StreamInv

\* A pump has its iterator.
LEMMA OpenSucceedsKeeps ==
    ASSUME StreamInv, NEW k \in Attempts, OpenSucceeds(k)
    PROVE  StreamInv'
  <1> USE StreamAssumption DEF Attempts, OpenSucceeds, Loop, Close
  <1>1. TypeOK'
    BY DEF StreamInv, TypeOK
  <1>2. CallKnown'
    BY DEF StreamInv, CallKnown
  <1>3. PumpsKnown'
    BY DEF StreamInv, TypeOK, PumpsKnown, Live
  <1>4. DemandIsLive'
    BY DEF StreamInv, TypeOK, DemandIsLive, Aborted, CallAborted
  <1>5. StoppedIsAborted'
    BY DEF StreamInv, StoppedIsAborted
  <1>6. EndsOnce'
    BY DEF StreamInv, EndsOnce
  <1> QED
    BY <1>1, <1>2, <1>3, <1>4, <1>5, <1>6 DEF StreamInv

\* A pump got none.
LEMMA OpenFailsKeeps ==
    ASSUME StreamInv, NEW k \in Attempts, OpenFails(k)
    PROVE  StreamInv'
  <1> USE StreamAssumption DEF Attempts, OpenFails, Settles
  <1>1. TypeOK'
    BY DEF StreamInv, TypeOK
  <1>2. CallKnown'
    BY DEF StreamInv, CallKnown
  <1>3. PumpsKnown'
    BY DEF StreamInv, TypeOK, PumpsKnown, Live
  <1>4. DemandIsLive'
    BY DEF StreamInv, DemandIsLive, Aborted, CallAborted
  <1>5. StoppedIsAborted'
    BY DEF StreamInv, StoppedIsAborted
  <1>6. EndsOnce'
    BY DEF StreamInv, EndsOnce
  <1> QED
    BY <1>1, <1>2, <1>3, <1>4, <1>5, <1>6 DEF StreamInv

\* A pump reads text.
LEMMA ReadTextKeeps ==
    ASSUME StreamInv, NEW k \in Attempts, ReadText(k)
    PROVE  StreamInv'
  <1> USE StreamAssumption DEF Attempts, ReadText, Loop, Close
  <1>1. TypeOK'
    <2>1. frames' \in [Attempts -> 0..MaxFrames] /\ frames'[k] \in 0..MaxFrames
      BY DEF StreamInv, TypeOK
    <2>2. pump' \in [Attempts -> {"none", "opening", "demand", "reading", "closing", "done"}]
      BY DEF StreamInv, TypeOK
    <2>3. source' \in 0..MaxAttempts /\ seen' \in 0..MaxFrames
      BY <2>1 DEF StreamInv, TypeOK
    <2>4. committed' \in BOOLEAN
      OBVIOUS
    <2> QED
      BY <2>1, <2>2, <2>3, <2>4 DEF StreamInv, TypeOK
  <1>2. CallKnown'
    BY DEF StreamInv, CallKnown
  <1>3. PumpsKnown'
    BY DEF StreamInv, TypeOK, PumpsKnown, Live
  <1>4. DemandIsLive'
    BY DEF StreamInv, TypeOK, DemandIsLive, Aborted, CallAborted
  <1>5. StoppedIsAborted'
    BY DEF StreamInv, StoppedIsAborted
  <1>6. EndsOnce'
    BY DEF StreamInv, EndsOnce
  <1> QED
    BY <1>1, <1>2, <1>3, <1>4, <1>5, <1>6 DEF StreamInv

\* A pump reads the end.
LEMMA ReadEndKeeps ==
    ASSUME StreamInv, NEW k \in Attempts, ReadEnd(k)
    PROVE  StreamInv'
  <1> USE StreamAssumption DEF Attempts, ReadEnd, Close
  <1>1. TypeOK'
    BY DEF StreamInv, TypeOK
  <1>2. CallKnown'
    BY DEF StreamInv, CallKnown
  <1>3. PumpsKnown'
    BY DEF StreamInv, TypeOK, PumpsKnown, Live
  <1>4. DemandIsLive'
    BY DEF StreamInv, DemandIsLive, Aborted, CallAborted
  <1>5. StoppedIsAborted'
    BY DEF StreamInv, StoppedIsAborted
  <1>6. EndsOnce'
    BY DEF StreamInv, CallKnown, PumpsKnown, EndsOnce
  <1> QED
    BY <1>1, <1>2, <1>3, <1>4, <1>5, <1>6 DEF StreamInv

\* A pump reads an error.
LEMMA ReadFailsKeeps ==
    ASSUME StreamInv, NEW k \in Attempts, ReadFails(k)
    PROVE  StreamInv'
  <1> USE StreamAssumption DEF Attempts, ReadFails, Close
  <1>1. TypeOK'
    BY DEF StreamInv, TypeOK
  <1>2. CallKnown'
    BY DEF StreamInv, CallKnown
  <1>3. PumpsKnown'
    BY DEF StreamInv, TypeOK, PumpsKnown, Live
  <1>4. DemandIsLive'
    BY DEF StreamInv, DemandIsLive, Aborted, CallAborted
  <1>5. StoppedIsAborted'
    BY DEF StreamInv, StoppedIsAborted
  <1>6. EndsOnce'
    BY DEF StreamInv, EndsOnce
  <1> QED
    BY <1>1, <1>2, <1>3, <1>4, <1>5, <1>6 DEF StreamInv

\* A pump has closed its iterator.
LEMMA PumpEndsKeeps ==
    ASSUME StreamInv, NEW k \in Attempts, PumpEnds(k)
    PROVE  StreamInv'
  <1> USE StreamAssumption DEF Attempts, PumpEnds, Settles
  <1>1. TypeOK'
    BY DEF StreamInv, TypeOK
  <1>2. CallKnown'
    BY DEF StreamInv, CallKnown
  <1>3. PumpsKnown'
    BY DEF StreamInv, TypeOK, PumpsKnown, Live
  <1>4. DemandIsLive'
    BY DEF StreamInv, DemandIsLive, Aborted, CallAborted
  <1>5. StoppedIsAborted'
    BY DEF StreamInv, StoppedIsAborted
  <1>6. EndsOnce'
    BY DEF StreamInv, EndsOnce
  <1> QED
    BY <1>1, <1>2, <1>3, <1>4, <1>5, <1>6 DEF StreamInv

\* Every step keeps the invariant.
LEMMA StreamInvStep == StreamInv /\ [Next]_vars => StreamInv'
  <1> SUFFICES ASSUME StreamInv, [Next]_vars PROVE StreamInv'
    OBVIOUS
  <1>1. CASE UNCHANGED vars
    <2> USE <1>1
    <2>1. TypeOK' /\ CallKnown' /\ PumpsKnown'
      BY DEF StreamInv, TypeOK, CallKnown, PumpsKnown, Live
    <2>2. DemandIsLive' /\ StoppedIsAborted' /\ EndsOnce'
      BY DEF StreamInv, DemandIsLive, Aborted, CallAborted, StoppedIsAborted, EndsOnce
    <2> QED
      BY <2>1, <2>2 DEF StreamInv
  <1>2. CASE Start \/ Next_ \/ Return \/ CallerAborts
    BY <1>2, StartKeeps, NextKeeps, ReturnKeeps, AbortKeeps
  <1>3. CASE Execution \/ RefusedOutside \/ TimerFires
    BY <1>3, WaitKeeps, StartAttemptKeeps, AttemptEndedKeeps, TimerKeeps, CallFailsKeeps,
       CallResolvesKeeps DEF Execution
  <1>4. ASSUME NEW k \in Attempts,
               OpenSucceeds(k) \/ OpenFails(k) \/ ReadText(k) \/ ReadEnd(k) \/ ReadFails(k)
               \/ PumpEnds(k)
        PROVE  StreamInv'
    BY <1>4, OpenSucceedsKeeps, OpenFailsKeeps, ReadTextKeeps, ReadEndKeeps, ReadFailsKeeps,
       PumpEndsKeeps
  <1> QED
    BY <1>1, <1>2, <1>3, <1>4 DEF Next

\* The variables of LlmStream stay in their types.
THEOREM TypeCorrect == Spec => []TypeOK
  <1>1. StreamInv => TypeOK
    BY DEF StreamInv
  <1> QED
    BY <1>1, StreamInvInit, StreamInvStep, PTL DEF Spec

\* No pump of a stream that was left, or whose call is over, goes on unaware:
\* it has been aborted (return() and fail() abort the controller of the
\* stream, the timer that of its attempt), and none waits for demand.
THEOREM PumpsStopped == Spec => []PumpsAreStopped
  <1>1. StreamInv => PumpsAreStopped
    <2> SUFFICES ASSUME StreamInv, NEW n \in Attempts, stopped \/ call = "over",
                        pump[n] \in {"opening", "demand", "reading"}
                 PROVE  Aborted(n) /\ pump[n] # "demand"
      BY DEF PumpsAreStopped
    <2>1. Aborted(n)
      BY DEF StreamInv, StoppedIsAborted, PumpsKnown, Live, Aborted, CallAborted
    <2> QED
      BY <2>1 DEF StreamInv, DemandIsLive
  <1> QED
    BY <1>1, StreamInvInit, StreamInvStep, PTL DEF Spec
-----------------------------------------------------------------------------
(* One generation, one end *)

\* The text invariant holds at first.
LEMMA TextInvInit == Init => TextInv
  <1> SUFFICES ASSUME Init PROVE TextInv
    OBVIOUS
  <1> USE DEF Init
  <1>1. GuardHolds /\ TextIsCurrent /\ CompletedIsKept
    BY DEF GuardHolds, TextIsCurrent, CompletedIsKept
  <1>2. AnswersKnown
    BY DEF AnswersKnown, Answers
  <1> QED
    BY <1>1, <1>2, StreamInvInit DEF TextInv

\* The first next().
LEMMA StartKeepsText ==
    ASSUME ~RetryOn, TextInv, Start
    PROVE  GuardHolds' /\ TextIsCurrent' /\ CompletedIsKept' /\ AnswersKnown'
  <1> USE StreamAssumption DEF TextInv, StreamInv, Attempts, Start, Fail
  <1>1. GuardHolds'
    BY DEF CallKnown, TextIsCurrent, GuardHolds
  <1>2. TextIsCurrent'
    BY DEF CallKnown, PumpsKnown, TextIsCurrent
  <1>3. CompletedIsKept'
    BY DEF CallKnown, CompletedIsKept
  <1>4. AnswersKnown'
    BY DEF AnswersKnown
  <1> QED
    BY <1>1, <1>2, <1>3, <1>4

\* A later next().
LEMMA NextKeepsText ==
    ASSUME ~RetryOn, TextInv, Next_
    PROVE  GuardHolds' /\ TextIsCurrent' /\ CompletedIsKept' /\ AnswersKnown'
  <1> USE StreamAssumption DEF TextInv, StreamInv, Attempts, Next_
  <1>1. GuardHolds'
    BY DEF GuardHolds
  <1>2. TextIsCurrent'
    BY DEF TextIsCurrent
  <1>3. CompletedIsKept'
    BY DEF CompletedIsKept
  <1>4. AnswersKnown'
    BY DEF AnswersKnown
  <1> QED
    BY <1>1, <1>2, <1>3, <1>4

\* return() and throw().
LEMMA ReturnKeepsText ==
    ASSUME ~RetryOn, TextInv, Return
    PROVE  GuardHolds' /\ TextIsCurrent' /\ CompletedIsKept' /\ AnswersKnown'
  <1> USE StreamAssumption DEF TextInv, StreamInv, Attempts, Return, Fail, Interrupt
  <1>1. GuardHolds'
    BY DEF GuardHolds
  <1>2. TextIsCurrent'
    BY DEF TextIsCurrent, Aborted, CallAborted
  <1>3. CompletedIsKept'
    BY DEF TypeOK, CallKnown, CompletedIsKept
  <1>4. AnswersKnown'
    BY DEF AnswersKnown, Answers
  <1> QED
    BY <1>1, <1>2, <1>3, <1>4

\* The abort of the caller.
LEMMA AbortKeepsText ==
    ASSUME ~RetryOn, TextInv, CallerAborts
    PROVE  GuardHolds' /\ TextIsCurrent' /\ CompletedIsKept' /\ AnswersKnown'
  <1> USE StreamAssumption DEF TextInv, StreamInv, Attempts, CallerAborts, Interrupt
  <1>1. GuardHolds'
    BY DEF GuardHolds
  <1>2. TextIsCurrent'
    BY DEF TextIsCurrent, Aborted, CallAborted
  <1>3. CompletedIsKept'
    BY DEF TypeOK, CallKnown, CompletedIsKept
  <1>4. AnswersKnown'
    BY DEF AnswersKnown, Answers
  <1> QED
    BY <1>1, <1>2, <1>3, <1>4

\* The steps of execute() that move nothing but the call.
LEMMA WaitKeepsText ==
    ASSUME ~RetryOn, TextInv, GiveUp \/ RefusedOutside \/ Wakes \/ FallbackAnswers
    PROVE  GuardHolds' /\ TextIsCurrent' /\ CompletedIsKept' /\ AnswersKnown'
  <1> USE StreamAssumption DEF TextInv, StreamInv, Attempts, GiveUp, RefusedOutside, Wakes,
  FallbackAnswers
  <1>1. GuardHolds'
    BY DEF GuardHolds
  <1>2. TextIsCurrent'
    BY DEF PumpsKnown, Live, TextIsCurrent, Aborted
  <1>3. CompletedIsKept'
    BY DEF CompletedIsKept
  <1>4. AnswersKnown'
    BY DEF AnswersKnown
  <1> QED
    BY <1>1, <1>2, <1>3, <1>4

\* A new attempt.
LEMMA StartAttemptKeepsText ==
    ASSUME ~RetryOn, TextInv, StartAttempt
    PROVE  GuardHolds' /\ TextIsCurrent' /\ CompletedIsKept' /\ AnswersKnown'
  <1> USE StreamAssumption DEF TextInv, StreamInv, Attempts, StartAttempt
  <1>1. GuardHolds'
    BY DEF GuardHolds
  <1>2. TextIsCurrent'
    BY DEF TypeOK, GuardHolds, TextIsCurrent, Aborted
  <1>3. CompletedIsKept'
    BY DEF CompletedIsKept
  <1>4. AnswersKnown'
    BY DEF AnswersKnown
  <1> QED
    BY <1>1, <1>2, <1>3, <1>4

\* The end of an attempt.
LEMMA AttemptEndedKeepsText ==
    ASSUME ~RetryOn, TextInv, AttemptEnded
    PROVE  GuardHolds' /\ TextIsCurrent' /\ CompletedIsKept' /\ AnswersKnown'
  <1> USE StreamAssumption DEF TextInv, StreamInv, Attempts, AttemptEnded
  <1>1. GuardHolds'
    BY DEF GuardHolds, ShouldRetry
  <1>2. TextIsCurrent'
    BY DEF PumpsKnown, Live, TextIsCurrent, Aborted
  <1>3. CompletedIsKept'
    BY DEF CompletedIsKept, Response
  <1>4. AnswersKnown'
    BY DEF AnswersKnown
  <1> QED
    BY <1>1, <1>2, <1>3, <1>4

\* The timer of an attempt.
LEMMA TimerKeepsText ==
    ASSUME ~RetryOn, TextInv, TimerFires
    PROVE  GuardHolds' /\ TextIsCurrent' /\ CompletedIsKept' /\ AnswersKnown'
  <1> USE StreamAssumption DEF TextInv, StreamInv, Attempts, TimerFires, Interrupt
  <1>1. GuardHolds'
    BY DEF GuardHolds
  <1>2. TextIsCurrent'
    BY DEF PumpsKnown, Live, TextIsCurrent, Aborted
  <1>3. CompletedIsKept'
    BY DEF TypeOK, CallKnown, CompletedIsKept, Quiet
  <1>4. AnswersKnown'
    BY DEF AnswersKnown, Answers
  <1> QED
    BY <1>1, <1>2, <1>3, <1>4

\* The call fails.
LEMMA CallFailsKeepsText ==
    ASSUME ~RetryOn, TextInv, CallFails
    PROVE  GuardHolds' /\ TextIsCurrent' /\ CompletedIsKept' /\ AnswersKnown'
  <1> USE StreamAssumption DEF TextInv, StreamInv, Attempts, CallFails, Fail, Interrupt
  <1>1. GuardHolds'
    BY DEF GuardHolds
  <1>2. TextIsCurrent'
    BY DEF PumpsKnown, Live, TextIsCurrent, Aborted
  <1>3. CompletedIsKept'
    BY DEF CompletedIsKept
  <1>4. AnswersKnown'
    BY DEF AnswersKnown, Answers
  <1> QED
    BY <1>1, <1>2, <1>3, <1>4

\* The call resolves.
LEMMA CallResolvesKeepsText ==
    ASSUME ~RetryOn, TextInv, CallResolves
    PROVE  GuardHolds' /\ TextIsCurrent' /\ CompletedIsKept' /\ AnswersKnown'
  <1> USE StreamAssumption DEF TextInv, StreamInv, Attempts, CallResolves
  <1>1. GuardHolds'
    BY DEF GuardHolds
  <1>2. TextIsCurrent'
    BY DEF PumpsKnown, Live, TextIsCurrent, Aborted
  <1>3. CompletedIsKept'
    BY DEF CompletedIsKept
  <1>4. AnswersKnown'
    BY DEF AnswersKnown
  <1> QED
    BY <1>1, <1>2, <1>3, <1>4

\* A pump has its iterator.
LEMMA OpenSucceedsKeepsText ==
    ASSUME ~RetryOn, TextInv, NEW k \in Attempts, OpenSucceeds(k)
    PROVE  GuardHolds' /\ TextIsCurrent' /\ CompletedIsKept' /\ AnswersKnown'
  <1> USE StreamAssumption DEF TextInv, StreamInv, Attempts, OpenSucceeds, Loop, Close
  <1>1. GuardHolds'
    BY DEF GuardHolds
  <1>2. TextIsCurrent'
    BY DEF TypeOK, TextIsCurrent, MayGoOn, Aborted
  <1>3. CompletedIsKept'
    BY DEF TypeOK, PumpsKnown, CompletedIsKept
  <1>4. AnswersKnown'
    BY DEF PumpsKnown, AnswersKnown, Answers
  <1> QED
    BY <1>1, <1>2, <1>3, <1>4

\* A pump got none.
LEMMA OpenFailsKeepsText ==
    ASSUME ~RetryOn, TextInv, NEW k \in Attempts, OpenFails(k)
    PROVE  GuardHolds' /\ TextIsCurrent' /\ CompletedIsKept' /\ AnswersKnown'
  <1> USE StreamAssumption DEF TextInv, StreamInv, Attempts, OpenFails, Settles
  <1>1. GuardHolds'
    BY DEF GuardHolds
  <1>2. TextIsCurrent'
    BY DEF TextIsCurrent, Aborted, CallAborted
  <1>3. CompletedIsKept'
    <2>1. CASE call = "racing" /\ k = attempt
      BY <2>1 DEF TypeOK, CompletedIsKept
    <2>2. CASE ~(call = "racing" /\ k = attempt)
      BY <2>2 DEF TypeOK, CompletedIsKept
    <2> QED
      BY <2>1, <2>2
  <1>4. AnswersKnown'
    BY DEF AnswersKnown, Answers
  <1> QED
    BY <1>1, <1>2, <1>3, <1>4

\* A pump reads text.
LEMMA ReadTextKeepsText ==
    ASSUME ~RetryOn, TextInv, NEW k \in Attempts, ReadText(k)
    PROVE  GuardHolds' /\ TextIsCurrent' /\ CompletedIsKept' /\ AnswersKnown'
  <1> USE StreamAssumption DEF TextInv, StreamInv, Attempts, ReadText, Loop, Close
  <1>1. GuardHolds'
    BY DEF PumpsKnown, Live, GuardHolds, MayGoOn, Aborted
  <1>2. TextIsCurrent'
    BY DEF TypeOK, CallKnown, PumpsKnown, Live, DemandIsLive, TextIsCurrent, MayGoOn, Aborted
  <1>3. CompletedIsKept'
    BY DEF TypeOK, CallKnown, PumpsKnown, CompletedIsKept
  <1>4. AnswersKnown'
    BY DEF PumpsKnown, AnswersKnown, Answers
  <1> QED
    BY <1>1, <1>2, <1>3, <1>4

\* A pump reads the end.
LEMMA ReadEndKeepsText ==
    ASSUME ~RetryOn, TextInv, NEW k \in Attempts, ReadEnd(k)
    PROVE  GuardHolds' /\ TextIsCurrent' /\ CompletedIsKept' /\ AnswersKnown'
  <1> USE StreamAssumption DEF TextInv, StreamInv, Attempts, ReadEnd, Close
  <1>1. GuardHolds'
    BY DEF GuardHolds
  <1>2. TextIsCurrent'
    BY DEF TypeOK, PumpsKnown, Live, TextIsCurrent, MayEnd, Aborted
  <1>3. CompletedIsKept'
    BY DEF TypeOK, PumpsKnown, Live, CompletedIsKept, MayEnd, Aborted
  <1>4. AnswersKnown'
    BY DEF AnswersKnown, Answers
  <1> QED
    BY <1>1, <1>2, <1>3, <1>4

\* A pump reads an error.
LEMMA ReadFailsKeepsText ==
    ASSUME ~RetryOn, TextInv, NEW k \in Attempts, ReadFails(k)
    PROVE  GuardHolds' /\ TextIsCurrent' /\ CompletedIsKept' /\ AnswersKnown'
  <1> USE StreamAssumption DEF TextInv, StreamInv, Attempts, ReadFails, Close
  <1>1. GuardHolds'
    BY DEF GuardHolds
  <1>2. TextIsCurrent'
    BY DEF TextIsCurrent, Aborted, CallAborted
  <1>3. CompletedIsKept'
    BY DEF CompletedIsKept
  <1>4. AnswersKnown'
    BY DEF AnswersKnown, Answers
  <1> QED
    BY <1>1, <1>2, <1>3, <1>4

\* A pump has closed its iterator.
LEMMA PumpEndsKeepsText ==
    ASSUME ~RetryOn, TextInv, NEW k \in Attempts, PumpEnds(k)
    PROVE  GuardHolds' /\ TextIsCurrent' /\ CompletedIsKept' /\ AnswersKnown'
  <1> USE StreamAssumption DEF TextInv, StreamInv, Attempts, PumpEnds, Settles
  <1>1. GuardHolds'
    BY DEF GuardHolds
  <1>2. TextIsCurrent'
    BY DEF TextIsCurrent, Aborted, CallAborted
  <1>3. CompletedIsKept'
    <2>1. CASE call = "racing" /\ k = attempt
      BY <2>1 DEF TypeOK, CompletedIsKept
    <2>2. CASE ~(call = "racing" /\ k = attempt)
      BY <2>2 DEF TypeOK, CompletedIsKept
    <2> QED
      BY <2>1, <2>2
  <1>4. AnswersKnown'
    BY DEF AnswersKnown
  <1> QED
    BY <1>1, <1>2, <1>3, <1>4

LEMMA TextInvStep == ASSUME ~RetryOn PROVE TextInv /\ [Next]_vars => TextInv'
  <1> SUFFICES ASSUME TextInv, [Next]_vars PROVE TextInv'
    OBVIOUS
  <1>1. CASE UNCHANGED vars
    <2> USE <1>1 DEF TextInv, StreamInv
    <2>1. GuardHolds' /\ TextIsCurrent'
      BY DEF GuardHolds, TextIsCurrent, Aborted, CallAborted
    <2>2. CompletedIsKept' /\ AnswersKnown'
      BY DEF CompletedIsKept, AnswersKnown
    <2> QED
      BY <2>1, <2>2, StreamInvStep DEF StreamInv
  <1>2. CASE Start \/ Next_ \/ Return \/ CallerAborts
    BY <1>2, StartKeepsText, NextKeepsText, ReturnKeepsText, AbortKeepsText, StreamInvStep
       DEF TextInv
  <1>3. CASE Execution \/ RefusedOutside \/ TimerFires
    BY <1>3, WaitKeepsText, StartAttemptKeepsText, AttemptEndedKeepsText, TimerKeepsText,
       CallFailsKeepsText, CallResolvesKeepsText, StreamInvStep DEF TextInv, Execution
  <1>4. ASSUME NEW k \in Attempts,
               OpenSucceeds(k) \/ OpenFails(k) \/ ReadText(k) \/ ReadEnd(k) \/ ReadFails(k)
               \/ PumpEnds(k)
        PROVE  TextInv'
    BY <1>4, OpenSucceedsKeepsText, OpenFailsKeepsText, ReadTextKeepsText, ReadEndKeepsText,
       ReadFailsKeepsText, PumpEndsKeepsText, StreamInvStep DEF TextInv
  <1> QED
    BY <1>1, <1>2, <1>3, <1>4 DEF Next

-----------------------------------------------------------------------------
(* The refinement *)

\* Every step of a stream is one of TextStream, or none.
LEMMA StepMaps ==
    ASSUME TextInv, [Next]_vars
    PROVE  [Abstract!ANext]_(Abstract!avars)
  <1> DEFINE Stutters == UNCHANGED <<provider, completed, result, source, seen>>
  <1>1. Stutters => [Abstract!ANext]_(Abstract!avars)
    BY DEF Abstract!avars
  <1>2. CASE UNCHANGED vars
    BY <1>1, <1>2
  <1>3. CASE Next_ \/ CallerAborts
    BY <1>1, <1>3 DEF Next_, CallerAborts
  <1>4. CASE GiveUp \/ RefusedOutside \/ Wakes \/ FallbackAnswers \/ StartAttempt \/ AttemptEnded
             \/ TimerFires
    BY <1>1, <1>4 DEF GiveUp, RefusedOutside, Wakes, FallbackAnswers, StartAttempt, AttemptEnded,
                      TimerFires
  <1>5. ASSUME NEW k \in Attempts, OpenSucceeds(k) \/ OpenFails(k) \/ ReadFails(k) \/ PumpEnds(k)
        PROVE  [Abstract!ANext]_(Abstract!avars)
    BY <1>1, <1>5 DEF OpenSucceeds, OpenFails, ReadFails, PumpEnds
  <1>6. CASE Start \/ Return
    <2>1. CASE Stutters
      BY <1>1, <2>1
    <2>2. CASE ~Stutters
      <3>1. result = "pending" /\ ~completed /\ result' = "rejected"
        BY <1>6, <2>2 DEF TextInv, StreamInv, EndsOnce, TypeOK, Start, Return, Fail
      <3>2. UNCHANGED <<provider, completed, source, seen>>
        BY <1>6 DEF Start, Return
      <3> QED
        BY <3>1, <3>2 DEF Abstract!ANext, Abstract!Ends
    <2> QED
      BY <2>1, <2>2
  <1>7. CASE CallFails
    <2>1. result = "pending" /\ result' = "rejected"
      BY <1>7 DEF TextInv, StreamInv, EndsOnce, TypeOK, CallFails, Fail
    <2>2. UNCHANGED <<provider, completed, source, seen>>
      BY <1>7 DEF CallFails
    <2>3. CASE provider = "rejects"
      <3>1. ~completed
        BY <1>7, <2>1, <2>3 DEF TextInv, StreamInv, TypeOK, CompletedIsKept, CallFails
      <3> QED
        BY <2>1, <2>2, <3>1 DEF Abstract!ANext, Abstract!Ends
    <2>4. CASE provider # "rejects"
      BY <2>1, <2>2, <2>4 DEF TextInv, StreamInv, TypeOK, Attempts, Abstract!ANext, Abstract!Stray
    <2> QED
      BY <2>3, <2>4
  <1>8. CASE CallResolves
    <2>1. result = "pending"
      BY <1>8 DEF TextInv, StreamInv, EndsOnce, CallResolves
    <2>2. CASE completed
      BY <1>8, <2>1, <2>2 DEF CallResolves, Abstract!ANext, Abstract!Ends
    <2>3. CASE ~completed
      BY <1>1, <1>8, <2>3 DEF CallResolves
    <2> QED
      BY <2>2, <2>3
  <1>9. ASSUME NEW k \in Attempts, ReadText(k)
        PROVE  [Abstract!ANext]_(Abstract!avars)
    <2>1. CASE ~delivery
      BY <1>1, <1>9, <2>1 DEF ReadText
    <2>2. CASE delivery
      <3>1. result = "pending" /\ ~completed /\ UNCHANGED <<provider, completed, result>>
        BY <1>9, <2>2 DEF TextInv, StreamInv, TypeOK, EndsOnce, ReadText
      <3>2. source' = k /\ seen' = frames[k] + 1 /\ seen' \in 0..MaxFrames
        BY <1>9, <2>2, StreamAssumption DEF TextInv, StreamInv, TypeOK, ReadText
      <3>3. CASE provider = "rejects"
        <4>1. k = attempt
          BY <1>9, <3>3 DEF TextInv, StreamInv, PumpsKnown, Live, Aborted, ReadText, MayGoOn
        <4>2. source \in {0, k} /\ seen = frames[k]
          BY <3>3, <4>1 DEF TextInv, TextIsCurrent
        <4>3. Abstract!Text(k)
          BY <3>1, <3>2, <4>2 DEF Abstract!Text
        <4> QED
          BY <4>3 DEF Abstract!ANext
      <3>4. CASE provider # "rejects"
        BY <3>1, <3>2, <3>4 DEF Abstract!ANext, Abstract!Stray
      <3> QED
        BY <3>3, <3>4
    <2> QED
      BY <2>1, <2>2
  <1>10. ASSUME NEW k \in Attempts, ReadEnd(k)
         PROVE  [Abstract!ANext]_(Abstract!avars)
    <2>1. completed' /\ UNCHANGED <<provider, result, source, seen>>
      BY <1>10 DEF ReadEnd
    <2>2. CASE result # "pending"
      BY <2>1, <2>2 DEF Abstract!avars
    <2>3. CASE result = "pending" /\ completed
      BY <2>1, <2>3 DEF Abstract!avars
    <2>4. CASE result = "pending" /\ ~completed
      BY <2>1, <2>4 DEF Abstract!ANext, Abstract!Ends
    <2> QED
      BY <2>2, <2>3, <2>4
  <1> QED
    BY <1>2, <1>3, <1>4, <1>5, <1>6, <1>7, <1>8, <1>9, <1>10 DEF Next, Execution

\* Without retryOn, a stream implements TextStream: a consumer of a provider
\* that stops when told reads one generation from its beginning, without a
\* gap, and then one end.  The commit guard of the classifier keeps a second
\* generation from starting, the abort of a lost race the first from going on.
THEOREM StreamIsOneText == ASSUME ~RetryOn PROVE Spec => Implements
  <1>1. Init => Abstract!AInit
    BY DEF Init, Abstract!AInit
  <1>2. TextInv /\ [Next]_vars => [Abstract!ANext]_(Abstract!avars)
    BY StepMaps
  <1> QED
    BY <1>1, <1>2, TextInvInit, TextInvStep, PTL DEF Spec, Implements, Abstract!ASpec

\* Without retryOn, and if the classifier retries only what may pass, an
\* attempt is made only while nothing has aborted the call, before any text
\* was delivered, and after an attempt that failed with what may pass.
THEOREM RetriesJustified ==
    ASSUME ~RetryOn, \A e \in Errors : IsRetryable(e) => MayPass(e)
    PROVE  Spec => RetriesAreJustified
  <1> DEFINE Justified ==
        attempt' # attempt =>
            /\ ~CallAborted
            /\ provider # "deaf" => ~committed
            /\ attempt > 0 => answer.mayPass
  <1>1. TextInv /\ [Next]_vars => [Justified]_vars
    <2> SUFFICES ASSUME TextInv, [Next]_vars, attempt' # attempt PROVE Justified
      OBVIOUS
    <2>1. StartAttempt
      BY DEF Next, Execution, Start, Next_, Return, CallerAborts, GiveUp, AttemptEnded, Wakes,
         CallResolves, CallFails, FallbackAnswers, RefusedOutside, TimerFires, OpenSucceeds,
         OpenFails, ReadText, ReadEnd, ReadFails, PumpEnds
    <2>2. ~CallAborted /\ (provider # "deaf" => ~committed) /\ (attempt > 0 => answer.retryable)
      BY <2>1 DEF StartAttempt, TextInv, GuardHolds
    <2>3. answer.retryable => answer.mayPass
      BY DEF TextInv, AnswersKnown, Answers, Response, Cancelled, TimedOut, Error
    <2> QED
      BY <2>2, <2>3
  <1> QED
    BY <1>1, TextInvInit, TextInvStep, PTL DEF Spec, RetriesAreJustified
=============================================================================
