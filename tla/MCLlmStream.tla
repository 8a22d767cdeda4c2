---------------------------- MODULE MCLlmStream ----------------------------
(* Errors of each vendor that pass and that do not, cancellations in the   *)
(* words of each, and those of the inner policies.                         *)
EXTENDS LlmStream, MCProviderFrames

MCError(vendor, status, token, name, saysCancelled) ==
    [vendor |-> vendor, status |-> status, token |-> token, name |-> name,
     saysCancelled |-> saysCancelled]

MCErrors == {
    MCError("openai", 429, "", "RateLimitError", FALSE),
    MCError("openai", 503, "", "InternalServerError", FALSE),
    MCError("openai", 0, "ECONNRESET", "APIConnectionError", FALSE),
    MCError("openai", 400, "context_length_exceeded", "BadRequestError", FALSE),
    MCError("openai", 401, "", "AuthenticationError", FALSE),
    MCError("openai", 0, "", "APIUserAbortError", FALSE),
    MCError("anthropic", 529, "overloaded_error", "APIError", FALSE),
    MCError("anthropic", 408, "timeout_error", "APIError", FALSE),
    MCError("anthropic", 409, "", "ConflictError", FALSE),
    MCError("anthropic", 413, "request_too_large", "APIError", FALSE),
    MCError("anthropic", 400, "billing_error", "BadRequestError", FALSE),
    MCError("anthropic", 0, "", "APIUserAbortError", FALSE),
    MCError("gemini", 504, "DEADLINE_EXCEEDED", "ApiError", FALSE),
    MCError("gemini", 429, "RESOURCE_EXHAUSTED", "ApiError", FALSE),
    MCError("gemini", 404, "NOT_FOUND", "ApiError", FALSE),
    MCError("gemini", 500, "CANCELLED", "ApiError", FALSE),
    MCError("gemini", 499, "", "ApiError", TRUE),
    MCError("gemini", 499, "", "ApiError", FALSE),
    MCError("core", 0, "", "RateLimitExceededError", FALSE),
    MCError("core", 0, "", "CircuitOpenError", FALSE),
    MCError("core", 0, "", "BulkheadRejectedError", FALSE) }
=============================================================================
