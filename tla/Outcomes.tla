------------------------------ MODULE Outcomes ------------------------------
(***************************************************************************)
(* What becomes of the outcome of an attempt on its way to the retry loop, *)
(* the circuit breaker and the fallback: the adapters of fetch, axios and  *)
(* undici normalise what the transport throws, httpClassifier and          *)
(* llmClassifier judge it, and the headers of an answer say when to come   *)
(* back.                                                                   *)
(*                                                                         *)
(* An outcome is a value, with the status and headers of a response (0 and *)
(* NoHeaders when it has none), or an error: the class it is an instance   *)
(* of ("Other" when it is none of those that are asked for), whether it is *)
(* an Error at all, its name and code, and what errors of a class carry    *)
(* beside.  Times are in milliseconds.                                     *)
(***************************************************************************)
EXTENDS Integers

NoHint == -1

Succeeded(status, headers) ==
    [status |-> "success", value |-> [status |-> status, headers |-> headers]]

Failed(error) == [status |-> "error", error |-> error]

PlainError(anError, name, code) ==
    [class |-> "Other", anError |-> anError, name |-> name, code |-> code,
     retryAfterMs |-> NoHint, classification |-> "", retryable |-> FALSE]

ErrorOf(class, code) == [PlainError(TRUE, class, code) EXCEPT !.class = class]
AbortError == ErrorOf("AbortError", "ERR_ABORTED")

RetryableClassifications ==
    {"rate_limited", "timeout", "provider_unavailable", "overloaded", "network_transient"}

\* The constructor of LlmError, by default.
LlmError(classification, retryAfterMs) ==
    [ErrorOf("LlmError", "ERR_LLM") EXCEPT
        !.classification = classification,
        !.retryable = classification \in RetryableClassifications,
        !.retryAfterMs = retryAfterMs]
-----------------------------------------------------------------------------
(* Headers: a Headers object, a Map or a plain object, and how retry-after *)
(* is spelled in it; its text is a number of seconds, a date, blank or     *)
(* anything else.                                                          *)

NoHeaders == [form |-> "none"]
HeadersOf(form, name, text) == [form |-> form, name |-> name, text |-> text]

\* getHeaderValue of the core, and getHeader of the vendors' adapters.
Finds(reader, headers) ==
    \/ headers.form = "Headers"
    \/ headers.form = "Map" /\ headers.name = "retry-after"
    \/ headers.form = "object"
       /\ (reader = "core" \/ (reader = "gemini" /\ headers.name = "retry-after"))

\* getRetryAfterMs of the core reads dates as well, from the start of the
\* call; Number("") is 0 in readRetryAfterMs of the vendors.
RetryAfterMs(reader, headers, startedAt) ==
    CASE ~Finds(reader, headers) -> NoHint
      [] headers.text.kind = "seconds" /\ headers.text.n >= 0 -> headers.text.n * 1000
      [] headers.text.kind = "date" /\ reader = "core" ->
            IF headers.text.at > startedAt THEN headers.text.at - startedAt ELSE 0
      [] headers.text.kind = "blank" /\ reader # "core" -> 0
      [] OTHER -> NoHint
-----------------------------------------------------------------------------
(* httpClassifier *)

HttpFailureStatuses == {408, 500, 502, 503, 504}
NetworkCodes == {"ECONNRESET", "ECONNREFUSED", "ENOTFOUND", "EPIPE"}
CancellationNames == {"AbortError", "CanceledError"}
CancellationCodes == {"ERR_ABORTED", "ERR_CANCELED", "ABORT_ERR"}

IsNetworkError(e) == e.code \in NetworkCodes

IsCallerCancellation(e) ==
    e.class = "AbortError"
    \/ (e.anError /\ (e.name \in CancellationNames \/ e.code \in CancellationCodes))

IsErrorFailure(e) ==
    /\ ~IsCallerCancellation(e)
    /\ e.class \notin {"CircuitOpenError", "BulkheadRejectedError", "RateLimitExceededError"}
    /\ IsNetworkError(e) \/ e.anError

IsErrorRetryable(e, idempotent) ==
    \/ e.class \in {"TimeoutError", "BulkheadRejectedError", "RateLimitExceededError"}
    \/ /\ ~IsCallerCancellation(e) /\ e.class # "CircuitOpenError"
       /\ IsNetworkError(e) /\ idempotent

HttpIsFailure(o) ==
    IF o.status = "success" THEN o.value.status \in HttpFailureStatuses ELSE IsErrorFailure(o.error)

HttpIsRetryable(o, idempotent) == o.status = "error" /\ IsErrorRetryable(o.error, idempotent)

HttpRetryAfter(o, startedAt) ==
    CASE o.status = "success" -> RetryAfterMs("core", o.value.headers, startedAt)
      [] o.status = "error" /\ o.error.class \in {"RateLimitExceededError", "CircuitOpenError"} ->
            o.error.retryAfterMs
      [] OTHER -> NoHint
-----------------------------------------------------------------------------
(* llmClassifier, and the guard around the classifier of a stream *)

IsLlmError(o) == o.status = "error" /\ o.error.class = "LlmError"

NotTheProvidersFault ==
    {"budget", "authentication", "authorization", "invalid_request", "content_policy"}

LlmIsFailure(o) ==
    IF IsLlmError(o) THEN o.error.classification \notin NotTheProvidersFault ELSE HttpIsFailure(o)

LlmIsRetryable(o, idempotent) ==
    CASE IsLlmError(o) -> o.error.retryable
      [] o.status = "error" /\ o.error.class = "TimeoutError" -> TRUE
      [] OTHER -> HttpIsRetryable(o, idempotent)

\* composeClassifier: an override that has no answer leaves it to the base.
Composed(override, base) == IF override = NoHint THEN base ELSE override

LlmRetryAfter(o, startedAt) ==
    Composed(IF IsLlmError(o) THEN o.error.retryAfterMs ELSE HttpRetryAfter(o, startedAt),
             HttpRetryAfter(o, startedAt))

\* withStreamCommitRetryGuard
GuardedIsRetryable(o, idempotent, committed) == ~committed /\ LlmIsRetryable(o, idempotent)
-----------------------------------------------------------------------------
(* The operation that each adapter hands to its client *)

IsCallerCancellationShape(e) ==
    e.class = "AbortError" \/ e.name \in CancellationNames \/ e.code \in CancellationCodes

ToCallerAbort(reason) == AbortError

NormalizedError(e) ==
    IF IsCallerCancellationShape(e) THEN ToCallerAbort(e)
    ELSE IF e.anError THEN e ELSE PlainError(TRUE, "Error", "")

\* The transport is called unless the signal of the context is aborted.  What
\* it throws before it returns a promise is not normalised.
FetchOperation(aborted, transport, thrown) ==
    CASE aborted -> Failed(ToCallerAbort("reason"))
      [] ~aborted /\ transport.status = "error" /\ ~thrown ->
            Failed(NormalizedError(transport.error))
      [] OTHER -> transport

AxiosOperation(aborted, transport, thrown) == FetchOperation(aborted, transport, thrown)
UndiciOperation(aborted, transport, thrown) == FetchOperation(aborted, transport, thrown)
-----------------------------------------------------------------------------
(* fallbackPolicy: `answer` is what fallbackOn says, when there is one, and *)
(* `handled` is the outcome of the handler.                                *)

Fallback(outcome, answer, handled) ==
    IF outcome.status = "success" \/ answer = "false" THEN outcome ELSE handled
=============================================================================
