------------------------------ MODULE Options ------------------------------
(***************************************************************************)
(* What create of each built-in policy accepts as its options, and the     *)
(* options it then works with: the normalizeOptions of the policies.       *)
(* X_Accepts is FALSE where the code throws a ConfigurationError.          *)
(*                                                                         *)
(* A JavaScript value is a record with its type; a finite number is        *)
(* counted in halves, so that whole and broken numbers can be told apart;  *)
(* "infinite" stands for the infinities and NaN.  An object of options is  *)
(* a function from the names of its options to values.                     *)
(***************************************************************************)
EXTENDS Integers

Undefined == [type |-> "undefined"]
Null == [type |-> "null"]
NotFinite == [type |-> "infinite"]
Function == [type |-> "function"]
Halves(n) == [type |-> "number", halves |-> n]
Number(n) == Halves(2 * n)
Boolean(b) == [type |-> "boolean", holds |-> b]
String(s) == [type |-> "string", text |-> s]
Object(fields) == [type |-> "object", fields |-> fields]

\* No text: an empty string, and one of blanks.
Empty == String("")
Blank == String(" ")

\* `value !== undefined`, and `value ?? default`.
Given(v) == v # Undefined
Or(v, default) == IF v \in {Undefined, Null} THEN default ELSE v

IsObject(v) == v.type = "object"
IsFunction(v) == v.type = "function"
IsBoolean(v) == v.type = "boolean"
IsNumber(v) == v.type = "number"
IsOneOf(v, texts) == v.type = "string" /\ v.text \in texts
IsText(v) == v.type = "string" /\ v \notin {Empty, Blank}

Whole(v) == v.halves % 2 = 0

\* The validators of numbers, as each policy has them.
NumberAtLeast(v, min) == IsNumber(v) /\ v.halves >= 2 * min
NumberAbove(v, min) == IsNumber(v) /\ v.halves > 2 * min
IntegerAtLeast(v, min) == NumberAtLeast(v, min) /\ Whole(v)
Percentage(v) == NumberAbove(v, 0) /\ v.halves <= 2 * 100

\* A partition key is a resolver or a text; the key that a resolver returns,
\* or the name of the service, is looked at when a call comes.
KeyOK(v) == IsFunction(v) \/ IsText(v)
ResolvedKey(key, serviceName, answer) ==
    IF ~Given(key) THEN serviceName ELSE IF IsFunction(key) THEN answer ELSE key

\* What the key function of cache and dedupe may return.
CallKeyOK(v) == v.type \in {"string", "symbol"} \/ IsNumber(v)
-----------------------------------------------------------------------------
(* bulkhead: a number is short for maxConcurrent. *)

BulkheadCandidate(arg) ==
    IF IsNumber(arg)
    THEN [maxConcurrent |-> arg, maxQueue |-> Undefined,
          queueTimeoutMs |-> Undefined, key |-> Undefined]
    ELSE arg.fields

BulkheadAccepts(arg) ==
    LET o == BulkheadCandidate(arg) IN
    /\ IsNumber(arg) \/ IsObject(arg)
    /\ IntegerAtLeast(o.maxConcurrent, 1)
    /\ Given(o.maxQueue) => IntegerAtLeast(o.maxQueue, 0)
    /\ Given(o.queueTimeoutMs) =>
        /\ NumberAtLeast(o.queueTimeoutMs, 0)
        /\ NumberAbove(o.queueTimeoutMs, 0) => Or(o.maxQueue, Number(0)) # Number(0)
    /\ Given(o.key) => KeyOK(o.key)

\* With the defaults that InMemoryBulkhead applies.
BulkheadOptions(arg) ==
    LET o == BulkheadCandidate(arg) IN
    [maxConcurrent |-> o.maxConcurrent,
     maxQueue |-> Or(o.maxQueue, Number(0)),
     queueTimeoutMs |-> Or(o.queueTimeoutMs, Number(0))]
-----------------------------------------------------------------------------
(* timeout: a number is short for perAttemptMs. *)

TimeoutAccepts(arg) ==
    \/ NumberAbove(arg, 0)
    \/ /\ IsObject(arg)
       /\ NumberAbove(arg.fields.perAttemptMs, 0)
       /\ ~Given(arg.fields.deadlineMs)
-----------------------------------------------------------------------------
(* retry *)

RetryFields == {"maxAttempts", "backoff", "baseDelayMs", "maxDelayMs", "maxTotalDelayMs",
                "jitter", "factor", "respectRetryAfter", "idempotentOnly", "retryOn"}

RetryDefaults ==
    [maxAttempts |-> Number(3), backoff |-> String("exponential"),
     baseDelayMs |-> Number(100), maxDelayMs |-> Number(10000),
     maxTotalDelayMs |-> Number(30000), jitter |-> String("none"),
     factor |-> Number(2), respectRetryAfter |-> Boolean(TRUE)]

RetryOptions(arg) ==
    IF arg = Undefined THEN RetryDefaults
    ELSE [f \in DOMAIN RetryDefaults |-> Or(arg.fields[f], RetryDefaults[f])]

RetryAccepts(arg) ==
    LET o == RetryOptions(arg) IN
    \/ arg = Undefined
    \/ /\ IsObject(arg)
       /\ IntegerAtLeast(o.maxAttempts, 1)
       /\ IsOneOf(o.backoff, {"fixed", "exponential"})
       /\ NumberAtLeast(o.baseDelayMs, 0)
       /\ IsNumber(o.maxDelayMs) /\ o.maxDelayMs.halves >= o.baseDelayMs.halves
       /\ NumberAtLeast(o.maxTotalDelayMs, 0)
       /\ NumberAtLeast(o.factor, 1)
       /\ IsBoolean(o.respectRetryAfter)
       /\ o.backoff = String("fixed") => ~Given(arg.fields.factor)
       /\ o.jitter = String("none")
       /\ arg.fields.idempotentOnly \in {Undefined, Boolean(FALSE)}
       /\ Given(arg.fields.retryOn) => IsFunction(arg.fields.retryOn)

\* resolveDelayMs, in milliseconds, for options of whole numbers; retryAfter is
\* what the classifier's function of that name returns.
Least(m, n) == IF m < n THEN m ELSE n
ResolveDelayMs(o, retryAfter, retryIndex) ==
    Least(o.maxDelayMs,
          IF o.respectRetryAfter /\ Given(retryAfter)
          THEN IF retryAfter.halves < 0 THEN 0 ELSE retryAfter.halves \div 2
          ELSE IF o.backoff = "fixed" THEN o.baseDelayMs
          ELSE o.baseDelayMs * o.factor ^ retryIndex)
-----------------------------------------------------------------------------
(* circuit breaker *)

BreakerFields == {"window", "failureRateThreshold", "slowCallDurationMs", "slowCallRateThreshold",
                  "minimumThroughput", "resetTimeoutMs", "halfOpenMaxCalls", "successThreshold", "key"}

BreakerDefaults ==
    [window |-> Object([type |-> String("count"), size |-> Number(100)]),
     failureRateThreshold |-> Number(50),
     slowCallDurationMs |-> Number(0), slowCallRateThreshold |-> Number(100),
     minimumThroughput |-> Number(10), resetTimeoutMs |-> Number(30000),
     halfOpenMaxCalls |-> Number(1), successThreshold |-> Number(1)]

BreakerOptions(arg) ==
    IF arg = Undefined THEN BreakerDefaults
    ELSE [f \in DOMAIN BreakerDefaults |-> Or(arg.fields[f], BreakerDefaults[f])]

\* normalizeWindow: any other type than "count" is a time window.
CountsCalls(window) == window.fields.type = String("count")
WindowOK(window) ==
    /\ IsObject(window)
    /\ IF CountsCalls(window) THEN IntegerAtLeast(window.fields.size, 1)
       ELSE NumberAbove(window.fields.durationMs, 0)

\* A null window raises a TypeError instead of the ConfigurationError.
BreakerAccepts(arg) ==
    LET o == BreakerOptions(arg) IN
    \/ arg = Undefined
    \/ /\ IsObject(arg)
       /\ arg.fields.window # Null
       /\ WindowOK(o.window)
       /\ Percentage(o.failureRateThreshold)
       /\ NumberAtLeast(o.slowCallDurationMs, 0)
       /\ Percentage(o.slowCallRateThreshold)
       /\ IntegerAtLeast(o.minimumThroughput, 1)
       /\ NumberAbove(o.resetTimeoutMs, 0)
       /\ IntegerAtLeast(o.halfOpenMaxCalls, 1)
       /\ IntegerAtLeast(o.successThreshold, 1)
       /\ CountsCalls(o.window) =>
            o.minimumThroughput.halves <= o.window.fields.size.halves
       /\ o.successThreshold.halves <= o.halfOpenMaxCalls.halves
       /\ Given(arg.fields.slowCallRateThreshold) => Given(arg.fields.slowCallDurationMs)
       /\ Given(arg.fields.key) => KeyOK(arg.fields.key)
-----------------------------------------------------------------------------
(* rate limiter *)

LimiterFields == {"strategy", "limit", "intervalMs", "burst", "onLimit", "maxWaitMs", "key"}

LimiterOptions(arg) ==
    [strategy |-> Or(arg.fields.strategy, String("token-bucket")),
     limit |-> arg.fields.limit,
     intervalMs |-> arg.fields.intervalMs,
     burst |-> Or(arg.fields.burst, arg.fields.limit),
     onLimit |-> Or(arg.fields.onLimit, String("reject")),
     maxWaitMs |-> arg.fields.maxWaitMs]

StrategyOK(v) == IsOneOf(v, {"token-bucket", "sliding-window"})
OnLimitOK(v) == IsOneOf(v, {"reject", "wait"})

LimiterAccepts(arg) ==
    LET o == LimiterOptions(arg)
        waits == o.onLimit = String("wait")
    IN
    /\ IsObject(arg)
    /\ StrategyOK(o.strategy)
    /\ IntegerAtLeast(o.limit, 1)
    /\ NumberAbove(o.intervalMs, 0)
    /\ Given(arg.fields.burst) =>
        IntegerAtLeast(arg.fields.burst, 1) /\ o.strategy = String("token-bucket")
    /\ OnLimitOK(o.onLimit)
    /\ IF waits THEN NumberAbove(o.maxWaitMs, 0) ELSE ~Given(o.maxWaitMs)
    /\ Given(arg.fields.key) => KeyOK(arg.fields.key)
-----------------------------------------------------------------------------
(* dedupe, hedge, cache, fallback *)

DedupeAccepts(arg) ==
    /\ IsObject(arg)
    /\ IsFunction(arg.fields.key)
    /\ IsBoolean(Or(arg.fields.abortSharedWhenUnused, Boolean(TRUE)))

HedgeAccepts(arg) ==
    /\ IsObject(arg)
    /\ NumberAtLeast(arg.fields.delay, 0)
    /\ Or(arg.fields.maxAttempts, Number(2)) = Number(2)
    /\ Given(arg.fields.shouldAccept) => IsFunction(arg.fields.shouldAccept)
    /\ IsBoolean(Or(arg.fields.abortLosers, Boolean(TRUE)))

CacheOptionsRead(arg) ==
    [ttl |-> arg.fields.ttl,
     maxEntries |-> Or(arg.fields.maxEntries, Number(1000)),
     cacheNull |-> Or(arg.fields.cacheNull, Boolean(FALSE)),
     cacheUndefined |-> Or(arg.fields.cacheUndefined, Boolean(FALSE))]

CacheAccepts(arg) ==
    LET o == CacheOptionsRead(arg) IN
    /\ IsObject(arg)
    /\ IsFunction(arg.fields.key)
    /\ NumberAbove(o.ttl, 0)
    /\ IntegerAtLeast(o.maxEntries, 1)
    /\ IsBoolean(o.cacheNull)
    /\ IsBoolean(o.cacheUndefined)

FallbackAccepts(arg) ==
    /\ IsObject(arg)
    /\ IsFunction(arg.fields.handler)
    /\ Given(arg.fields.fallbackOn) => IsFunction(arg.fields.fallbackOn)
-----------------------------------------------------------------------------
(* The options of a policy as its model takes them: whole numbers. *)

Count(v) == v.halves \div 2

BulkheadStudied(o) ==
    [maxConcurrent |-> Count(o.maxConcurrent), maxQueue |-> Count(o.maxQueue),
     timed |-> o.queueTimeoutMs.halves > 0]

BreakerStudied(o) ==
    [window |-> IF CountsCalls(o.window) THEN "count" ELSE "time",
     width |-> Count(IF CountsCalls(o.window) THEN o.window.fields.size
                     ELSE o.window.fields.durationMs),
     failureRate |-> Count(o.failureRateThreshold),
     slowCall |-> Count(o.slowCallDurationMs),
     slowRate |-> Count(o.slowCallRateThreshold),
     minimum |-> Count(o.minimumThroughput),
     reset |-> Count(o.resetTimeoutMs),
     maxProbes |-> Count(o.halfOpenMaxCalls),
     successes |-> Count(o.successThreshold)]

LimiterStudied(o, punctual) ==
    [strategy |-> o.strategy.text, limit |-> Count(o.limit), interval |-> Count(o.intervalMs),
     burst |-> Count(o.burst), onLimit |-> o.onLimit.text,
     maxWait |-> IF Given(o.maxWaitMs) THEN Count(o.maxWaitMs) ELSE 0,
     punctual |-> punctual]

CacheStudied(o) ==
    [ttl |-> Count(o.ttl), maxEntries |-> Count(o.maxEntries),
     cacheNull |-> o.cacheNull.holds, cacheUndefined |-> o.cacheUndefined.holds]

RetryStudied(o) ==
    [maxAttempts |-> Count(o.maxAttempts), backoff |-> o.backoff.text,
     baseDelayMs |-> Count(o.baseDelayMs), maxDelayMs |-> Count(o.maxDelayMs),
     maxTotalDelayMs |-> Count(o.maxTotalDelayMs), factor |-> Count(o.factor),
     respectRetryAfter |-> o.respectRetryAfter.holds]

\* All numbers among the options are whole.
AllWhole(o) ==
    \A f \in DOMAIN o :
        /\ IsNumber(o[f]) => Whole(o[f])
        /\ IsObject(o[f]) => \A g \in DOMAIN o[f].fields :
                                IsNumber(o[f].fields[g]) => Whole(o[f].fields[g])
=============================================================================
