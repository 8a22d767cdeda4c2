------------------------------ MODULE Failures ------------------------------
(***************************************************************************)
(* What an LLM call makes of an error: the adapters map what the SDK of    *)
(* the vendor throws (packages/llm-*/src/errors.ts), llmClassifier and     *)
(* httpClassifier decide whether an attempt that ended with it may be      *)
(* followed by another.                                                    *)
(*                                                                         *)
(* An error is what the adapters read of it: its status (0 when it has     *)
(* none), its code or type, its name, and whether its message speaks of a  *)
(* cancellation.  Errors of Resili's own policies have the vendor "core".  *)
(***************************************************************************)
EXTENDS Integers, Sequences

Row(class, statuses, tokens, names) ==
    [class |-> class, statuses |-> statuses, tokens |-> tokens, names |-> names]

NetworkCodes == {"ECONNRESET", "ECONNREFUSED", "ENOTFOUND", "EPIPE"}

\* One row per branch of classify, in the order of the branches.
OpenAiClassify == <<
    Row("context_limit_exceeded", {}, {"context_length_exceeded"}, {}),
    Row("content_policy", {}, {"content_filter", "content_policy_violation"}, {}),
    Row("authentication", {401}, {}, {"AuthenticationError"}),
    Row("authorization", {403}, {}, {"PermissionDeniedError"}),
    Row("rate_limited", {429}, {}, {"RateLimitError"}),
    Row("timeout", {}, {}, {"APIConnectionTimeoutError", "TimeoutError"}),
    Row("network_transient", {}, NetworkCodes, {"APIConnectionError"}),
    Row("overloaded", {503}, {}, {}),
    Row("provider_unavailable", 500..599, {}, {"InternalServerError"}),
    Row("invalid_request", {400, 404, 422}, {},
        {"BadRequestError", "NotFoundError", "UnprocessableEntityError"}) >>

AnthropicClassify == <<
    Row("overloaded", {529}, {"overloaded_error"}, {}),
    Row("timeout", {408}, {"timeout_error"}, {"APIConnectionTimeoutError"}),
    Row("authentication", {401}, {"authentication_error"}, {"AuthenticationError"}),
    Row("authorization", {403}, {"permission_error"}, {"PermissionDeniedError"}),
    Row("rate_limited", {429}, {"rate_limit_error"}, {"RateLimitError"}),
    Row("network_transient", {}, NetworkCodes, {"APIConnectionError"}),
    Row("context_limit_exceeded", {413}, {"request_too_large"}, {}),
    Row("network_transient", {409}, {}, {"ConflictError"}),
    Row("overloaded", {503}, {}, {}),
    Row("provider_unavailable", 500..599, {"api_error"}, {"InternalServerError"}),
    Row("invalid_request", {400, 402, 404, 422},
        {"invalid_request_error", "not_found_error", "billing_error"},
        {"BadRequestError", "NotFoundError", "UnprocessableEntityError"}) >>

GeminiClassify == <<
    Row("authentication", {401}, {"UNAUTHENTICATED"}, {"AuthenticationError"}),
    Row("authorization", {403}, {"PERMISSION_DENIED"}, {"PermissionDeniedError"}),
    Row("rate_limited", {429}, {"RESOURCE_EXHAUSTED", "RESOURCE_EXHAUSTED_ERROR"}, {"RateLimitError"}),
    Row("timeout", {408, 504}, {"DEADLINE_EXCEEDED"}, {}),
    Row("network_transient", {}, NetworkCodes, {}),
    Row("overloaded", {503}, {"UNAVAILABLE"}, {}),
    Row("provider_unavailable", 500..599, {}, {"InternalServerError"}),
    Row("invalid_request", {400, 404, 422}, {"INVALID_ARGUMENT", "NOT_FOUND", "FAILED_PRECONDITION"}, {}) >>

Branches(vendor) ==
    CASE vendor = "openai" -> OpenAiClassify
      [] vendor = "anthropic" -> AnthropicClassify
      [] vendor = "gemini" -> GeminiClassify

\* The first branch that knows the error.
Classify(e) ==
    LET branches == Branches(e.vendor)
        Knows(i) == e.status \in branches[i].statuses
                    \/ e.token \in branches[i].tokens \/ e.name \in branches[i].names
        first == {i \in DOMAIN branches : Knows(i) /\ \A j \in 1..(i - 1) : ~Knows(j)}
    IN IF first = {} THEN "unknown" ELSE branches[CHOOSE i \in first : TRUE].class

\* A cancellation becomes an AbortError, whatever else the error carries.
IsAbortLike(e) ==
    \/ e.name = "AbortError"
    \/ e.vendor \in {"openai", "anthropic"} /\ e.name = "APIUserAbortError"
    \/ /\ e.vendor = "gemini"
       /\ \/ e.token \in {"CANCELLED", "CANCELED"}
          \/ e.status = 499 /\ e.saysCancelled

RetryableClassifications ==
    {"rate_limited", "timeout", "provider_unavailable", "overloaded", "network_transient"}

\* The errors of the policies themselves, as httpClassifier knows them.
RetryableByCore == {"TimeoutError", "BulkheadRejectedError", "RateLimitExceededError"}

\* Mutant: a cancellation is put to the table like any other error.
IsRetryableAlsoWhenCancelled(e) ==
    IF e.vendor = "core" THEN e.name \in RetryableByCore
    ELSE Classify(e) \in RetryableClassifications

IsRetryable(e) ==
    /\ ~IsAbortLike(e)
    /\ IF e.vendor = "core" THEN e.name \in RetryableByCore
       ELSE Classify(e) \in RetryableClassifications

\* Reference, from what HTTP and the SDKs mean by them: errors that may be
\* gone by the next attempt, none of which is a cancellation.
MayPass(e) ==
    /\ e.name \notin {"AbortError", "APIUserAbortError"}
    /\ e.token \notin {"CANCELLED", "CANCELED"}
    /\ \/ e.status \in {408, 409, 429} \cup (500..599)
       \/ e.token \in NetworkCodes \cup {"overloaded_error", "DEADLINE_EXCEEDED"}
       \/ e.name \in {"APIConnectionError", "APIConnectionTimeoutError"} \cup RetryableByCore
=============================================================================
