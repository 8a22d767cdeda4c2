---------------------------- MODULE RateLimiter ----------------------------
(***************************************************************************)
(* The rate limiter policy: policies/rate-limiter/index.ts, for one key.   *)
(* Buckets, windows and locks of different keys share nothing.             *)
(*                                                                         *)
(* In reject mode acquire is one synchronous step.  In wait mode a call    *)
(* takes the lock of its key, which is a chain of promises and so a queue, *)
(* and keeps it while it tries, sleeps and tries again; an action is the   *)
(* code between two awaits.                                                *)
(*                                                                         *)
(* Tick is one millisecond.  Time stamps are replaced by ages.  Tokens are *)
(* counted in units of 1/intervalMs, which makes refills whole numbers.    *)
(* The code keeps them as doubles: each refill may leave the double just   *)
(* below its count, and each delay may be rounded up.  Which of them do    *)
(* depends on the numbers; here any of them may.  The errors together are  *)
(* taken to be less than one unit, so that one that is upward has no       *)
(* effect: no count that is a unit short of a token is taken for one.      *)
(***************************************************************************)
EXTENDS Integers, Sequences, FiniteSets

CONSTANTS
    Calls,      \* call sites; each makes one call after another
    Options     \* the configurations under study

\* What normalizeOptions accepts, for whole milliseconds, and whether the event
\* loop is never late: time stands still while a timer or continuation is due.
OptionOK(o) ==
    /\ o.strategy \in {"token-bucket", "sliding-window"}
    /\ o.limit \in Nat \ {0}
    /\ o.interval \in Nat \ {0}
    /\ o.burst \in Nat \ {0}
    /\ o.strategy = "sliding-window" => o.burst = o.limit
    /\ o.onLimit \in {"reject", "wait"}
    /\ o.maxWait \in Nat
    /\ o.onLimit = "wait" <=> o.maxWait > 0
    /\ o.punctual \in BOOLEAN

ASSUME LimiterAssumption ==
    /\ IsFiniteSet(Calls)
    /\ \A o \in Options : OptionOK(o)

VARIABLES
    opt,        \* the configuration, fixed by create
    tokens,     \* the token bucket, in units of 1/intervalMs
    short,      \* whether the double in the bucket is below this count
    idle,       \* time since updatedAt, as far as it matters
    stamps,     \* the sliding window: the ages of its admissions, oldest first
    lock,       \* the calls that hold or await the lock of the key, in order
    phase,      \* phase[c]: where call c stands
    budget,     \* budget[c]: time left to its waitDeadline
    timer,      \* timer[c]: time left of its sleep
    cancelled,  \* cancelled[c]: its signal is aborted
    waited,     \* history: waited[c]: how long c has waited, if the loop is punctual
    admitted    \* history: admitted[w]: the calls admitted in the last w + 1 ms

bucket == <<tokens, short, idle, stamps>>
sleepers == <<budget, timer>>
vars == <<opt, bucket, lock, phase, sleepers, cancelled, waited, admitted>>

\* "queued": the lock is awaited, or has just been granted.
Phases == {"idle", "queued", "sleeping", "admitted", "rejected", "aborted"}

ByTokens == opt.strategy = "token-bucket"

\* A full bucket, and the time in which an empty one gets more than that.
Capacity == opt.burst * opt.interval
FillTime == Capacity \div opt.limit + 1

Init ==
    /\ opt \in Options
    /\ tokens = Capacity
    /\ short = FALSE
    /\ idle = 0
    /\ stamps = <<>>
    /\ lock = <<>>
    /\ phase = [c \in Calls |-> "idle"]
    /\ budget = [c \in Calls |-> 0]
    /\ timer = [c \in Calls |-> 0]
    /\ cancelled = [c \in Calls |-> FALSE]
    /\ waited = [c \in Calls |-> 0]
    /\ admitted = [w \in 0..(opt.interval - 1) |-> 0]
-----------------------------------------------------------------------------
(* Time *)

Later(n, limit) == IF n < limit THEN n + 1 ELSE n
Sooner(n) == IF n > 0 THEN n - 1 ELSE 0

Waiting(c) == phase[c] \in {"queued", "sleeping"}

HasLock(c) == lock # <<>> /\ Head(lock) = c

\* Something the event loop would run now: a continuation or a due timer.
Due ==
    \E c \in Calls :
        /\ HasLock(c)
        /\ phase[c] = "queued" \/ timer[c] = 0 \/ cancelled[c]

\* A call waits out those before it, and then itself.
LongestWait == Cardinality(Calls) * opt.maxWait

Tick ==
    /\ opt.punctual => ~Due
    /\ idle' = IF ByTokens THEN Later(idle, FillTime) ELSE 0
    /\ stamps' = [i \in DOMAIN stamps |-> Later(stamps[i], opt.interval)]
    /\ budget' = [c \in Calls |-> Sooner(budget[c])]
    /\ timer' = [c \in Calls |-> Sooner(timer[c])]
    /\ waited' = [c \in Calls |->
                    IF opt.punctual /\ Waiting(c) THEN Later(waited[c], LongestWait + 1)
                    ELSE waited[c]]
    /\ admitted' = [w \in 0..(opt.interval - 1) |-> IF w = 0 THEN 0 ELSE admitted[w - 1]]
    /\ UNCHANGED <<opt, tokens, short, lock, phase, cancelled>>
-----------------------------------------------------------------------------
(* #acquireTokenBucket, #acquireSlidingWindow *)

AtMost(n, limit) == IF n < limit THEN n ELSE limit
AtLeast(n, limit) == IF n > limit THEN n ELSE limit

Refilled == AtMost(tokens + idle * opt.limit, Capacity)

\* Whether the double is below the count after the refill: a sum that gets
\* beyond the burst is cut to it exactly, any other may be rounded down.
Rounded ==
    IF ~ByTokens \/ idle = 0 THEN {short}
    ELSE IF tokens + idle * opt.limit > Capacity THEN {FALSE}
    ELSE BOOLEAN

\* The admissions that have left the window: the loop drops them from the
\* front until it meets one that has not.
Expired ==
    CHOOSE n \in 0..Len(stamps) :
        /\ \A i \in 1..n : stamps[i] >= opt.interval
        /\ n < Len(stamps) => stamps[n + 1] < opt.interval

Live == SubSeq(stamps, Expired + 1, Len(stamps))

\* A whole token is there, and the double is not just below it.
Allowed(below) ==
    IF ByTokens
    THEN Refilled >= opt.interval /\ (below => Refilled # opt.interval)
    ELSE Len(Live) < opt.limit

\* What is missing to a token.
Missing == opt.interval - Refilled

CeilDiv(a, b) == (a + b - 1) \div b

\* Mutant: rounded down, the sleep ends before the token is there.
RetryAfterRoundedDown ==
    IF ByTokens
    THEN {AtLeast(Missing \div opt.limit, 1)}
    ELSE {AtLeast(opt.interval - Head(Live), 1)}

\* The delays the caller may be told.  A quotient of doubles that should be
\* whole may come out above it; what is missing to a double is never 0.
RetryAfter ==
    IF ByTokens
    THEN {AtLeast(CeilDiv(Missing, opt.limit), 1)} \cup
         {d \in {Missing \div opt.limit + 1} : Missing % opt.limit = 0}
    ELSE {AtLeast(opt.interval - Head(Live), 1)}

\* History: one admission more in every window that ends now.
CountAdmission == admitted' = [w \in 0..(opt.interval - 1) |-> admitted[w] + 1]

\* Mutant: the bucket is refilled for the same time again.
ConsumeKeepsUpdatedAt(below) ==
    /\ tokens' = IF ByTokens THEN Refilled - opt.interval ELSE tokens
    /\ short' = below
    /\ stamps' = IF ByTokens THEN stamps ELSE Append(Live, 0)
    /\ CountAdmission
    /\ UNCHANGED idle

\* One permit is taken; the subtraction of 1 is exact.
Consume(below) ==
    /\ tokens' = IF ByTokens THEN Refilled - opt.interval ELSE tokens
    /\ short' = below
    /\ idle' = IF ByTokens THEN 0 ELSE idle
    /\ stamps' = IF ByTokens THEN stamps ELSE Append(Live, 0)
    /\ CountAdmission

\* No permit: the bucket is refilled, the window trimmed.
Refresh(below) ==
    /\ tokens' = IF ByTokens THEN Refilled ELSE tokens
    /\ short' = below
    /\ idle' = IF ByTokens THEN 0 ELSE idle
    /\ stamps' = IF ByTokens THEN stamps ELSE Live
    /\ UNCHANGED admitted
-----------------------------------------------------------------------------
(* acquire in reject mode *)

AdmitNow(c) ==
    /\ opt.onLimit = "reject"
    /\ phase[c] = "idle"
    /\ \E below \in Rounded : Allowed(below) /\ Consume(below)
    /\ phase' = [phase EXCEPT ![c] = "admitted"]
    /\ UNCHANGED <<opt, lock, sleepers, cancelled, waited>>

RejectNow(c) ==
    /\ opt.onLimit = "reject"
    /\ phase[c] = "idle"
    /\ \E below \in Rounded : ~Allowed(below) /\ Refresh(below)
    /\ phase' = [phase EXCEPT ![c] = "rejected"]
    /\ UNCHANGED <<opt, lock, sleepers, cancelled, waited>>
-----------------------------------------------------------------------------
(* acquire in wait mode *)

\* #withKeyLock: join the chain.
Arrive(c) ==
    /\ opt.onLimit = "wait"
    /\ phase[c] = "idle"
    /\ lock' = Append(lock, c)
    /\ phase' = [phase EXCEPT ![c] = "queued"]
    /\ UNCHANGED <<opt, bucket, sleepers, cancelled, waited, admitted>>

\* The finally of #withKeyLock.
Leave(c, answer) ==
    /\ lock' = Tail(lock)
    /\ phase' = [phase EXCEPT ![c] = answer]
    /\ timer' = [timer EXCEPT ![c] = 0]
    /\ budget' = [budget EXCEPT ![c] = 0]
    /\ waited' = [waited EXCEPT ![c] = 0]
    /\ UNCHANGED <<opt, cancelled>>

\* The holder of the lock sleeps, with "left" ms to go.
Sleep(c, delay, left) ==
    /\ phase' = [phase EXCEPT ![c] = "sleeping"]
    /\ timer' = [timer EXCEPT ![c] = delay]
    /\ budget' = [budget EXCEPT ![c] = left]
    /\ UNCHANGED <<opt, lock, cancelled, waited>>

\* Mutant: the call sleeps for as long as the permit takes.
TryWithoutLimit(c, left) ==
    \E below \in Rounded :
        \/ Allowed(below) /\ Consume(below) /\ Leave(c, "admitted")
        \/ ~Allowed(below) /\ Refresh(below) /\ \E delay \in RetryAfter : Sleep(c, delay, left)

\* One round of the loop of #waitForAdmission, with "left" ms to go.
TryWith(c, left) ==
    \E below \in Rounded :
        \/ /\ Allowed(below)
           /\ Consume(below)
           /\ Leave(c, "admitted")
        \/ /\ ~Allowed(below)
           /\ Refresh(below)
           /\ \E delay \in RetryAfter :
                \/ delay > left /\ Leave(c, "rejected")
                \/ delay <= left /\ Sleep(c, delay, left)

\* The lock is granted and the wait deadline set.
FirstTry(c) ==
    /\ HasLock(c)
    /\ phase[c] = "queued"
    /\ ~cancelled[c]
    /\ TryWith(c, opt.maxWait)

\* The sleep is over.
NextTry(c) ==
    /\ HasLock(c)
    /\ phase[c] = "sleeping"
    /\ timer[c] = 0
    /\ ~cancelled[c]
    /\ TryWith(c, budget[c])

\* The signal of a waiting call fires.  A sleeping call is woken by it; a
\* queued one looks at it when it gets the lock.
Cancel(c) ==
    /\ Waiting(c)
    /\ ~cancelled[c]
    /\ cancelled' = [cancelled EXCEPT ![c] = TRUE]
    /\ UNCHANGED <<opt, bucket, lock, phase, sleepers, waited, admitted>>

\* Mutant: a cancelled call leaves without passing the lock on.
AbortKeepsLock(c) ==
    /\ HasLock(c)
    /\ cancelled[c]
    /\ phase' = [phase EXCEPT ![c] = "aborted"]
    /\ UNCHANGED <<opt, bucket, lock, sleepers, cancelled, waited, admitted>>

Abort(c) ==
    /\ HasLock(c)
    /\ cancelled[c]
    /\ Leave(c, "aborted")
    /\ UNCHANGED <<bucket, admitted>>

\* The caller has its answer and may call again.
Return(c) ==
    /\ phase[c] \in {"admitted", "rejected", "aborted"}
    /\ phase' = [phase EXCEPT ![c] = "idle"]
    /\ cancelled' = [cancelled EXCEPT ![c] = FALSE]
    /\ UNCHANGED <<opt, bucket, lock, sleepers, waited, admitted>>

Continue(c) == FirstTry(c) \/ NextTry(c) \/ Abort(c)

Next ==
    \/ Tick
    \/ \E c \in Calls :
        \/ AdmitNow(c) \/ RejectNow(c) \/ Arrive(c) \/ Cancel(c)
        \/ Continue(c) \/ Return(c)

Spec == Init /\ [][Next]_vars

\* Time passes, and the event loop runs continuations and due timers.
Fairness ==
    /\ WF_vars(Tick)
    /\ \A c \in Calls : WF_vars(Continue(c))

FairSpec == Spec /\ Fairness
-----------------------------------------------------------------------------
(* Properties *)

TypeOK ==
    /\ opt \in Options
    /\ tokens \in 0..Capacity
    /\ short \in BOOLEAN
    /\ idle \in 0..FillTime
    /\ stamps \in Seq(0..opt.interval)
    /\ lock \in Seq(Calls)
    /\ phase \in [Calls -> Phases]
    /\ budget \in [Calls -> 0..opt.maxWait]
    /\ timer \in [Calls -> 0..opt.maxWait]
    /\ cancelled \in [Calls -> BOOLEAN]
    /\ waited \in [Calls -> 0..(LongestWait + 1)]
    /\ admitted \in [0..(opt.interval - 1) -> Nat]

\* The rate: in the last w + 1 milliseconds, up to intervalMs, at most
\* burst + w * limit / intervalMs calls were admitted by a token bucket, and
\* at most limit by a sliding window, whatever the waiters and their
\* cancellations do to the state in between.
RateRespected ==
    \A w \in 0..(opt.interval - 1) :
        IF ByTokens
        THEN admitted[w] * opt.interval <= Capacity + w * opt.limit
        ELSE admitted[w] <= opt.limit

\* The lock chain is the waiting calls, each once, and only the first has
\* got beyond waiting for the lock: two calls never sleep for one permit.
LockIsWaiters ==
    /\ \A i, j \in DOMAIN lock : lock[i] = lock[j] => i = j
    /\ \A c \in Calls : Waiting(c) <=> \E i \in DOMAIN lock : lock[i] = c
    /\ \A i \in DOMAIN lock : i > 1 => phase[lock[i]] = "queued"

\* What a sleep achieves.  When a call wakes up, a sliding window admits it,
\* since nobody else can take the permit it waited for.  A token bucket has
\* refilled a whole token, but the double may be just below it
\* (index.ts:262), and the call is refused again, or rejected if it may wait
\* no longer: retryAfterMs, "Until capacity is expected" in
\* docs/reference/errors.md:116, can be a millisecond short, as it is for
\* limit = intervalMs = burst = 49.  It is so once at most: the sleep that
\* follows is one millisecond, and then the call is admitted, however the
\* doubles are rounded.
SleepSuffices ==
    \A c \in Calls : phase[c] = "sleeping" =>
        /\ timer[c] = 0 /\ ByTokens => Refilled >= opt.interval
        /\ ByTokens /\ tokens >= opt.interval => timer[c] <= 1
        /\ timer[c] = 0 /\ (ByTokens => tokens >= opt.interval) =>
                \A below \in Rounded : Allowed(below)

\* Every waiting call is answered: waits are bounded and the lock is passed
\* on by every way out.
WaiterAnswered == \A c \in Calls : Waiting(c) ~> ~Waiting(c)

\* In a punctual event loop no wait is longer than maxWaitMs for the call and
\* for each of those that can be before it in the line for the lock.  A limit
\* of maxWaitMs alone, as docs/ARCHITECTURE.md:608 has it, does not hold.
WaitsAddUp == \A c \in Calls : waited[c] <= LongestWait
=============================================================================
