---------------------------- MODULE MCLlmClient ----------------------------
(* Options, and ends of a request of every kind, for LlmClient.            *)
EXTENDS LlmClient, FiniteSets

Classes == RetryableClassifications \cup NotTheProvidersFault \cup {"unknown"}

LlmErrors == {LlmError(c, NoHint) : c \in Classes}

PolicyErrors ==
    {ErrorOf("TimeoutError", "ERR_TIMEOUT"), ErrorOf("CircuitOpenError", "ERR_CIRCUIT_OPEN"),
     ErrorOf("RetryExceededError", "ERR_RETRY_EXCEEDED"), ConfigurationError}

\* openai@7 names its cancellation "Error".
UserAborts == {PlainError(TRUE, APIUserAbortError, ""),
               [PlainError(TRUE, "Error", "") EXCEPT !.class = APIUserAbortError]}

NativeAborts ==
    {PlainError(anError, name, code) : anError \in BOOLEAN, name \in {"", "AbortError"},
                                       code \in {"ABORT_ERR", "ERR_CANCELED"}}
    \cup {PlainError(TRUE, "CanceledError", ""), AbortError}

Others == {PlainError(anError, "TypeError", code) : anError \in BOOLEAN, code \in {"", "EPIPE"}}

AllErrors == LlmErrors \cup PolicyErrors \cup UserAborts \cup NativeAborts \cup Others
CallOutcomes == {Succeeded(200, NoHeaders)} \cup {Failed(e) : e \in AllErrors}
ResponsePrices == {"none", "cost", "throws"}

ForEachRequest(P(_, _)) ==
    \A aborted \in BOOLEAN, model \in {Null, String("m")}, called \in CallOutcomes,
      price \in ResponsePrices :
        P(called, Generate(aborted, model, called, price))

EventTypes(end) == [n \in DOMAIN end.events |-> end.events[n].type]

\* A request is told of from its start to its end: once it has begun there is
\* one last word, "completed" with the usage before it if the caller gets the
\* response, "failed" if not, and nothing at all about a request that was
\* refused before it began.
ASSUME EveryRequestHasOneEnd ==
    ForEachRequest(LAMBDA called, end :
        EventTypes(end) =
            CASE end.outcome.status = "success" ->
                    <<"LlmRequestStarted", "LlmUsageRecorded", "LlmRequestCompleted">>
              [] end.metrics = <<>> -> <<>>
              [] OTHER -> <<"LlmRequestStarted", "LlmRequestFailed">>)

\* Listeners and callers hear the same of an error of the provider.
ASSUME FailuresAreToldAsThrown ==
    ForEachRequest(LAMBDA called, end :
        end.outcome.status = "error" /\ end.outcome.error.class = "LlmError" =>
            LET told == end.events[2] IN
            /\ told.classification = end.outcome.error.classification
            /\ told.retryable = LlmIsRetryable(end.outcome, FALSE))

\* A request that began is counted, as one that the budget refused, failed or
\* used tokens, and a recorder that breaks anywhere never leaves more failures
\* than requests.
ASSUME RequestsAreCountedOnce ==
    ForEachRequest(LAMBDA called, end :
        LET Written(broken) == {Recorded(end.metrics, broken)[n] :
                                    n \in DOMAIN Recorded(end.metrics, broken)}
            kinds == {"failures", "budgetRejections", "tokens"}
        IN
        /\ Cardinality(Written({}) \cap kinds) = IF end.events = <<>> THEN 0 ELSE 1
        /\ "budgetRejections" \in Written({}) =>
            end.outcome.status = "error" /\ ~LlmIsFailure(end.outcome)
        /\ \A i \in kinds \cup {"requests", "latencyMs"} :
            Written({i}) \cap kinds # {} => "requests" \in Written({i}))

\* A caller that gave up sees an AbortError, in whatever words the provider
\* said so, before and while the request is on its way: nobody is blamed and
\* nothing is tried again.
ASSUME CancellationsBecomeAborts ==
    /\ ForEachRequest(LAMBDA called, end :
        called.status = "error" /\ called.error \in UserAborts \cup NativeAborts /\ end.events # <<>> =>
            /\ end.outcome = Failed(AbortError)
            /\ ~LlmIsFailure(end.outcome) /\ ~end.events[2].retryable)
    /\ \A e \in NativeAborts, committed \in BOOLEAN :
        StreamFails(PumpThrows(e, committed), e, committed).outcome = Failed(AbortError)

\* Only a cancellation is mistaken for one.
ASSUME FailuresAreNoAborts ==
    \A e \in AllErrors \ (UserAborts \cup NativeAborts), committed \in BOOLEAN :
        /\ NormalizeCallerCancellation(e) = e
        /\ PumpThrows(e, committed).class # "AbortError"
        /\ StreamFails(e, e, committed).outcome.error.class # "AbortError"

\* Once text was delivered every failure is final: whatever the pump or a
\* policy throws, no classifier would have it tried again, and what kind of
\* failure it was can still be told.
ASSUME CommittedFailuresAreFinal ==
    \A e \in AllErrors, last \in AllErrors, byThePump, idempotent \in BOOLEAN :
        LET end == StreamFails(IF byThePump THEN PumpThrows(e, TRUE) ELSE e, last, TRUE)
            cause == IF e.class = "RetryExceededError" /\ ~byThePump /\ last.class = "TimeoutError"
                     THEN last ELSE e
        IN
        /\ ~LlmIsRetryable(end.outcome, idempotent) /\ ~end.events[2].retryable
        /\ cause.class = "LlmError" => end.outcome.error.classification = cause.classification
        /\ cause.class = "TimeoutError" => end.outcome.error.classification = "timeout"

\* Before that, the retry loop is told the truth.
ASSUME UncommittedFailuresAreKept ==
    \A e \in LlmErrors \cup PolicyErrors : PumpThrows(e, FALSE) = e

\* A response that cannot be priced is lost: the request has failed, although
\* the provider answered it and the budget guard has settled it.
ASSUME UnpricedResponsesAreLost ==
    Generate(FALSE, String("m"), Succeeded(200, NoHeaders), "throws").outcome.status = "error"

\* A client with a budget that turns away what it cannot price has prices,
\* and its guard is the last of the policies.
ASSUME BudgetsArePriced ==
    \A budget \in {Undefined, Object(<<>>)} \cup
            {Object([maxCostPerRequestUsd |-> cap, onUnknownPricing |-> unknown,
                     warningThresholdRatio |-> ratio]) :
                cap \in {Undefined, Number(-1), Number(1)},
                unknown \in {Undefined, Null, String("allow"), String("reject"), String("warn")},
                ratio \in {Undefined, Number(0), Halves(1), Number(1), Number(2)}},
      pricing \in {Undefined, Object(<<>>)},
      provider \in {Object(<<>>), Object([execute |-> Function])} :
        LET options == Object([provider |-> provider, pricing |-> pricing, budget |-> budget,
                               policies |-> Array(<<"retry">>)]) IN
        LlmClientAccepts(options) =>
            /\ provider # Object(<<>>)
            /\ Given(budget) =>
                /\ CorePolicies(options) = <<"retry", "budget">>
                /\ pricing = Undefined => budget.fields.onUnknownPricing = String("allow")
                /\ budget.fields.maxCostPerRequestUsd = Number(1)
=============================================================================
