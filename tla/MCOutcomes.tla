----------------------------- MODULE MCOutcomes -----------------------------
(* Outcomes of every kind, for the classifiers and adapters of Outcomes.   *)
EXTENDS Outcomes

Llm == INSTANCE Failures

Statuses == {0, 200, 304, 400, 404, 408, 409, 422, 429, 500, 501, 502, 503, 504}

Texts == {[kind |-> "seconds", n |-> n] : n \in {-1, 0, 2}}
            \cup {[kind |-> "date", at |-> at] : at \in {0, 5000, 90000}}
            \cup {[kind |-> "blank"], [kind |-> "other"]}

HeaderObjects == {NoHeaders} \cup
    {HeadersOf(form, name, text) : form \in {"Headers", "Map", "object"},
                                   name \in {"retry-after", "Retry-After"}, text \in Texts}

Answers == {Succeeded(status, NoHeaders) : status \in Statuses}

PolicyErrors ==
    {ErrorOf("TimeoutError", "ERR_TIMEOUT"), ErrorOf("CircuitOpenError", "ERR_CIRCUIT_OPEN"),
     ErrorOf("BulkheadRejectedError", "ERR_BULKHEAD_FULL"),
     ErrorOf("RateLimitExceededError", "ERR_RATE_LIMITED"), AbortError}

Thrown ==
    {PlainError(anError, name, code) :
        anError \in BOOLEAN,
        name \in {"", "Error", "TypeError", "AbortError", "CanceledError"},
        code \in {"", "ECONNRESET", "EPIPE", "EACCES", "ERR_CANCELED", "ABORT_ERR"}}

LlmErrors ==
    {LlmError(c, NoHint) : c \in RetryableClassifications \cup NotTheProvidersFault
                                    \cup {"context_limit_exceeded", "unknown"}}

\* The table "Default HTTP classification" of docs/ARCHITECTURE.md: which
\* outcomes count for the breaker, and which may be retried.
ASSUME TableHolds ==
    \A idempotent \in BOOLEAN :
        /\ \A o \in Answers :
            /\ HttpIsFailure(o) <=> o.value.status \in {408, 500, 502, 503, 504}
            /\ ~HttpIsRetryable(o, idempotent)
        /\ {e.class : e \in {e \in PolicyErrors : HttpIsFailure(Failed(e))}} = {"TimeoutError"}
        /\ {e.class : e \in {e \in PolicyErrors : HttpIsRetryable(Failed(e), idempotent)}}
            = {"TimeoutError", "BulkheadRejectedError", "RateLimitExceededError"}
        /\ \A code \in NetworkCodes :
            LET o == Failed(PlainError(TRUE, "Error", code)) IN
            HttpIsFailure(o) /\ (HttpIsRetryable(o, idempotent) <=> idempotent)

\* A cancellation, in the words of any library and thrown as whatever it is,
\* counts against nobody and ends the call, once it has come through an
\* adapter; without one, if it is an Error.
Cancellations ==
    {AbortError} \cup {e \in Thrown : e.name \in {"AbortError", "CanceledError"}
                                        \/ e.code \in {"ERR_CANCELED", "ABORT_ERR"}}

ASSUME CancellationsAreTerminal ==
    \A e \in Cancellations, idempotent \in BOOLEAN :
        \A o \in {FetchOperation(FALSE, Failed(e), FALSE), FetchOperation(TRUE, Failed(e), FALSE)}
                    \cup (IF e.anError THEN {Failed(e), FetchOperation(FALSE, Failed(e), TRUE)} ELSE {}) :
            /\ ~HttpIsFailure(o) /\ ~LlmIsFailure(o)
            /\ ~HttpIsRetryable(o, idempotent) /\ ~LlmIsRetryable(o, idempotent)

\* Any other Error that a transport throws is a failure, which the adapter
\* does not change; what is no Error becomes one, and is a failure then.
ASSUME FailuresAreKept ==
    \A e \in Thrown \ Cancellations :
        LET o == FetchOperation(FALSE, Failed(e), FALSE) IN
        /\ HttpIsFailure(o)
        /\ e.anError => o = Failed(e)

\* What may pass is a fault of the service or of its load: an error that is
\* retried counts for the breaker, unless a policy of the client raised it.
ASSUME RetriesAreFailures ==
    \A e \in LlmErrors \cup Thrown \cup PolicyErrors, idempotent \in BOOLEAN :
        LlmIsRetryable(Failed(e), idempotent) =>
            LlmIsFailure(Failed(e)) \/ e.class \in {"BulkheadRejectedError", "RateLimitExceededError"}

\* A service that says when to come back is not asked earlier, by a reader
\* that finds its header: for a call that started at any time before the
\* answer comes at `now`.
ASSUME HintsSuffice ==
    \A reader \in {"core", "openai", "gemini"}, headers \in HeaderObjects,
      startedAt \in {0, 3000}, now \in {3000, 7000} :
        LET hint == RetryAfterMs(reader, headers, startedAt) IN
        /\ hint = NoHint \/ hint >= 0
        /\ reader = "core" =>
            LlmRetryAfter(Succeeded(429, headers), startedAt) = hint
        /\ Finds(reader, headers) =>
            /\ headers.text.kind = "seconds" /\ headers.text.n >= 0 => hint = 1000 * headers.text.n
            /\ headers.text.kind = "date" /\ reader = "core" => now + hint >= headers.text.at

\* The errors that the vendors' adapters map are judged as Failures has it,
\* and none of them once a stream has delivered text.
ASSUME VendorsErrorsAreJudgedAlike ==
    \A vendor \in {"openai", "anthropic", "gemini"}, status \in {0, 401, 408, 429, 500, 503},
      token \in {"", "ECONNRESET"}, idempotent \in BOOLEAN :
        LET e == [vendor |-> vendor, status |-> status, token |-> token, name |-> "Error",
                  saysCancelled |-> FALSE]
            o == Failed(LlmError(Llm!Classify(e), NoHint))
        IN
        /\ GuardedIsRetryable(o, idempotent, FALSE) <=> Llm!IsRetryable(e)
        /\ ~GuardedIsRetryable(o, idempotent, TRUE)

\* Only an error is handed to the fallback, and one that fallbackOn refuses
\* is thrown as it is.
ASSUME FallbackAnswersErrors ==
    \A outcome \in Answers \cup {Failed(e) : e \in PolicyErrors},
      answer \in {"true", "false", "undefined"}, handled \in {Succeeded(200, NoHeaders), Failed(AbortError)} :
        Fallback(outcome, answer, handled) # outcome => outcome.status = "error" /\ answer # "false"
=============================================================================
