----------------------------- MODULE LlmClient -----------------------------
(***************************************************************************)
(* The LLM client around its core client: what createLlmClient accepts,    *)
(* and what generate() and a stream tell about a request that has ended,   *)
(* to the caller, the listeners and the metrics                            *)
(* (packages/llm/src/client.ts, stream.ts, events.ts, metrics.ts).         *)
(*                                                                         *)
(* generate() has one await, the call of the core client, whose outcome is *)
(* one of Outcomes: everything else follows from it.  Options are those of *)
(* Contracts.  An error that wraps another carries it as `last`.           *)
(***************************************************************************)
EXTENDS Contracts, Outcomes

ConfigurationError == ErrorOf("ConfigurationError", "ERR_CONFIG")
-----------------------------------------------------------------------------
(* createLlmClient *)

OnUnknownPricing(budget) == Or(Get(budget, "onUnknownPricing"), String("reject"))
AmountOK(v) == Given(v) => NumberAtLeast(v, 0)

\* normalizeBudgetOptions; amounts in USD, and the default ratio of 0.8 is any
\* between 0 and 1.
BudgetAccepts(budget) ==
    LET ratio == Or(Get(budget, "warningThresholdRatio"), Halves(1))
        scope == Get(budget, "scope")
        caps == {Get(budget, "maxCostPerRequestUsd"), Get(budget, "maxAccumulatedCostUsd")}
    IN
    /\ IsObject(budget)
    /\ NumberAbove(ratio, 0) /\ ratio.halves <= 2
    /\ IsOneOf(OnUnknownPricing(budget), {"allow", "reject"})
    /\ Given(scope) => scope.type \in {"string", "function"}
    /\ caps # {Undefined}
    /\ \A cap \in caps : AmountOK(cap)

LlmClientAccepts(options) ==
    LET budget == Get(options, "budget") IN
    /\ IsObject(options)
    /\ HasMethods(Get(options, "provider"), {"execute"})
    /\ Given(Get(options, "model")) => IsText(Get(options, "model"))
    /\ Given(budget) =>
        /\ BudgetAccepts(budget)
        /\ OnUnknownPricing(budget) = String("reject") => Given(Get(options, "pricing"))

\* What the core client is made of: the caller's policies and, last, the
\* budget guard.
CorePolicies(options) ==
    Or(Get(options, "policies"), Array(<<>>)).elements
        \o (IF Given(Get(options, "budget")) THEN <<"budget">> ELSE <<>>)

CanStream(options) == IsFunction(Get(Get(options, "provider"), "stream"))

\* Null stands for the ConfigurationError.
ResolveModel(requestModel, defaultModel) ==
    IF IsText(requestModel) THEN requestModel ELSE Or(defaultModel, Null)
-----------------------------------------------------------------------------
(* Events and metrics *)

Event(type) == [type |-> type, classification |-> "", retryable |-> FALSE]
FailedEvent(type, e) == [type |-> type, classification |-> e.classification, retryable |-> e.retryable]

\* The instruments of recordLlmMetrics, in the order in which it writes them.
LlmMetrics(result, priced) ==
    CASE result = "failure" -> <<"requests", "failures", "latencyMs">>
      [] result = "budget_rejected" -> <<"requests", "budgetRejections", "latencyMs">>
      [] result = "success" ->
            <<"requests", "latencyMs", "inputTokens", "outputTokens", "tokens">>
                \o (IF priced THEN <<"costMicroUsd">> ELSE <<>>)

\* recordLlmStreamMetrics
LlmStreamMetrics(result, anyText) ==
    IF result = "failure" THEN <<"streams", "streamFailures", "streamDurationMs">>
    ELSE <<"streams", "streamDurationMs">> \o (IF anyText THEN <<"streamTtftMs">> ELSE <<>>)
            \o <<"streamChunks", "streamOutputTokens">>

\* The first instrument that throws is the last that is tried.
Recorded(instruments, broken) ==
    SelectSeq(instruments,
        LAMBDA i : \A m, n \in DOMAIN instruments :
            instruments[m] \in broken /\ instruments[n] = i => n < m)
-----------------------------------------------------------------------------
(* Errors *)

APIUserAbortError == "APIUserAbortError"

\* isCallerCancellationShape of client.ts, then that of stream.ts.
IsCancellationOfCall(e) ==
    \/ e.name \in CancellationNames \cup {APIUserAbortError}
    \/ e.class = APIUserAbortError \/ e.code \in CancellationCodes
IsCancellationOfStream(e) == e.name \in CancellationNames \/ e.code \in CancellationCodes

NormalizeCallerCancellation(e) ==
    IF e.class = "AbortError" THEN e ELSE IF IsCancellationOfCall(e) THEN AbortError ELSE e

NormalizeAbortReasonIfAbort(e) ==
    IF e.class = "AbortError" THEN e ELSE IF IsCancellationOfStream(e) THEN AbortError ELSE e

\* An LlmError, and the LlmBudgetExceededError that extends it.
ToEventError(e) == IF e.class = "LlmError" THEN e ELSE LlmError("unknown", NoHint)

FinalLlmError(classification) == [LlmError(classification, NoHint) EXCEPT !.retryable = FALSE]

AfterCommit(e, committed) ==
    CASE ~committed -> NormalizeAbortReasonIfAbort(e)
      [] committed /\ e.class = "TimeoutError" -> FinalLlmError("timeout")
      [] committed /\ e.class # "TimeoutError" /\ NormalizeAbortReasonIfAbort(e).class = "AbortError" ->
            NormalizeAbortReasonIfAbort(e)
      [] OTHER -> FinalLlmError(ToEventError(e).classification)

\* toThrown; a value that is no Error is wrapped.
ToThrown(e) == IF e.anError THEN e ELSE LlmError("unknown", NoHint)

PumpThrows(e, committed) == ToThrown(AfterCommit(e, committed))

UnwrapRetryExceeded(e, last) ==
    IF e.class = "RetryExceededError" /\ last.class = "TimeoutError" THEN last ELSE e

NormalizeFinalError(e, last, committed) ==
    IF committed THEN AfterCommit(UnwrapRetryExceeded(e, last), TRUE) ELSE e
-----------------------------------------------------------------------------
(* The end of a request: its events in order, the metrics that are written *)
(* and the outcome that the caller gets.                                   *)

End(events, metrics, outcome) == [events |-> events, metrics |-> metrics, outcome |-> outcome]

\* `price` is what resolveCost makes of a response: "none", "cost", or
\* "throws".
Priced(called, price) ==
    IF called.status = "success" /\ price = "throws"
    THEN Failed(PlainError(TRUE, "Error", "")) ELSE called

Generate(aborted, model, called, price) ==
    CASE aborted -> End(<<>>, <<>>, Failed(AbortError))
      [] ~aborted /\ model = Null -> End(<<>>, <<>>, Failed(ConfigurationError))
      [] OTHER ->
            LET outcome == Priced(called, price) IN
            IF outcome.status = "success"
            THEN End(<<Event("LlmRequestStarted"), Event("LlmUsageRecorded"),
                       Event("LlmRequestCompleted")>>,
                     LlmMetrics("success", price = "cost"), outcome)
            ELSE LET thrown == NormalizeCallerCancellation(outcome.error)
                     known == ToEventError(thrown)
                 IN End(<<Event("LlmRequestStarted"), FailedEvent("LlmRequestFailed", known)>>,
                        LlmMetrics(IF known.classification = "budget" THEN "budget_rejected"
                                   ELSE "failure", FALSE),
                        Failed(thrown))

\* The last handler of the promise of execute(), for a stream that failed
\* with `e` (and `last`), having delivered text or not.
StreamFails(e, last, committed) ==
    LET normalized == NormalizeFinalError(e, last, committed)
    IN End(<<Event("LlmStreamStarted"), FailedEvent("LlmStreamFailed", ToEventError(normalized))>>,
           LlmStreamMetrics("failure", committed), Failed(normalized))
=============================================================================
