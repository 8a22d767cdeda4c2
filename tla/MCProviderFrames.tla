-------------------------- MODULE MCProviderFrames --------------------------
(* Answers of the three vendors for ProviderFrames: the same text, usage   *)
(* and reason as one response and as a stream, cut in every way.           *)
EXTENDS ProviderFrames

Letters == {"a", "b"}
Texts == UNION {[1..n -> Letters] : n \in 0..2}
Deltas == UNION {[1..n -> Texts] : n \in 0..3}

Models == {None, Some("fallback"), Some("dated")}
Part(text, visible) == [text |-> text, visible |-> visible]

\* What every vendor's chunks and responses are made of here.
Chunk(model, text, reason, usage) ==
    [model |-> model, text |-> Some(text), reason |-> reason, usage |-> usage,
     parts |-> <<Part(text, TRUE), Part(<<"t">>, FALSE)>>,
     candidate |-> TRUE, blocked |-> FALSE]

\* Reports of usage, and the part of one that Anthropic sends with the start.
Reports ==
    [openai |-> {<<>>, [prompt_tokens |-> Number(3), completion_tokens |-> Halves(5),
                        total_tokens |-> Undefined],
                 [prompt_tokens |-> Number(3), completion_tokens |-> Null,
                  total_tokens |-> Number(9), cached_tokens |-> Number(2)]},
     anthropic |-> {<<>>, [input_tokens |-> Number(3), output_tokens |-> Number(4)],
                    [input_tokens |-> Null, output_tokens |-> Number(4),
                     cache_read_input_tokens |-> Number(2), thinking_tokens |-> Null]},
     gemini |-> {<<>>, [promptTokenCount |-> Number(3), candidatesTokenCount |-> NotFinite],
                 [promptTokenCount |-> Number(3), totalTokenCount |-> Number(9),
                  thoughtsTokenCount |-> Number(-1)]}]

Without(report, names) == [n \in DOMAIN report \ names |-> report[n]]

\* The deltas of one text as each vendor sends them, with the usage last.
OpenAiStream(model, deltas, reason, usage) ==
    OpenAiFrames([n \in DOMAIN deltas |-> Chunk(model, deltas[n], None, None)]
                    \o <<Chunk(model, <<>>, Some(reason), None),
                         Chunk(model, <<>>, None, Some(usage))>>, "fallback")

Event(type, chunk) == [type |-> type] @@ chunk
AnthropicStream(model, deltas, reason, usage) ==
    AnthropicFrames(
        <<Event("message_start", Chunk(model, <<>>, None, Some(Without(usage, {"output_tokens"}))))>>
            \o [n \in DOMAIN deltas |->
                    Event("content_block_delta", Chunk(None, deltas[n], None, None))]
            \o <<Event("message_delta", Chunk(None, <<>>, Some(reason),
                                              Some(Without(usage, {"input_tokens"})))),
                 Event("message_stop", Chunk(None, <<>>, None, None))>>, "fallback")

\* Gemini's usage comes with every chunk, and grows.
Before(report) == [n \in DOMAIN report |-> Number(1)]
GeminiStream(model, deltas, reason, usage) ==
    GeminiFrames([n \in DOMAIN deltas |-> Chunk(model, deltas[n], None, Some(Before(usage)))]
                    \o <<Chunk(model, <<>>, Some(reason), Some(usage))>>, "fallback")

\* A stream that is read to its end says what the response would have said,
\* however its text is cut.
ASSUME StreamsEqualResponses ==
    \A deltas \in Deltas, model \in Models :
        LET text == FlattenSeq(deltas) IN
        /\ \A usage \in Reports.openai, reason \in {"function_call", "new"} :
            Streamed("openai", OpenAiStream(model, deltas, reason, usage), "fallback")
                = NormalizeCompletion(Chunk(model, text, Some(reason), Some(usage)), "fallback")
        /\ \A usage \in Reports.anthropic, reason \in {"end_turn", "refusal"} :
            Streamed("anthropic", AnthropicStream(model, deltas, reason, usage), "fallback")
                = NormalizeMessage(Chunk(model, text, Some(reason), Some(usage)), "fallback")

\* Gemini's chunks may hold the text from the start each time, or only what is
\* new; the adapter cannot know.  It is right for texts that grow, and for
\* deltas none of which begins with, or is the beginning of, the one before.
Growing(deltas) ==
    LET texts == SelectSeq(deltas, LAMBDA text : text # <<>>)
    IN \A n \in 2..Len(texts) : IsPrefix(texts[n - 1], texts[n])
Latest(deltas) == FoldLeft(LAMBDA last, text : IF text = <<>> THEN last ELSE text, <<>>, deltas)
Distinct(deltas) ==
    \A n \in 2..Len(deltas) : ~IsPrefix(deltas[n - 1], deltas[n]) /\ ~IsPrefix(deltas[n], deltas[n - 1])

ASSUME GeminiTextIsKept ==
    \A deltas \in Deltas, usage \in Reports.gemini :
        LET text == IF Growing(deltas) THEN Latest(deltas) ELSE FlattenSeq(deltas) IN
        Growing(deltas) \/ Distinct(deltas) =>
            Streamed("gemini", GeminiStream(Some("dated"), deltas, "RECITATION", usage), "fallback")
                = NormalizeResponse(Chunk(Some("dated"), text, Some("RECITATION"), Some(usage)), "fallback")

\* And it does lose text of deltas that repeat, which docs/providers/gemini.md
\* says "pass through unchanged".
ASSUME RepeatedDeltasAreLost ==
    Streamed("gemini", GeminiStream(None, <<<<"a">>, <<"a">>, <<"a", "b">>>>, "STOP", <<>>),
             "fallback").content = <<"a", "b">>

\* Counts are whole and never negative, those that are missing are 0, and a
\* total that is not reported is their sum.
ASSUME UsageIsCounted ==
    /\ {MapUsage(OpenAiUsage, Some(usage)).totalTokens : usage \in Reports.openai} = {0, 5, 9}
    /\ {MapUsage(AnthropicUsage, Some(usage)).totalTokens : usage \in Reports.anthropic} = {0, 7, 4}
    /\ {MapUsage(GeminiUsage, Some(usage)).totalTokens : usage \in Reports.gemini} = {0, 3, 9}
    /\ {DOMAIN MapUsage(AnthropicUsage, Some(usage)).dimensions : usage \in Reports.anthropic}
        = {{}, {"cacheReadInputTokens"}}
    /\ \A usage \in Reports.gemini : DOMAIN MapUsage(GeminiUsage, Some(usage)).dimensions = {}

\* A prompt that was refused is so in either way.
ASSUME BlockedPromptsAreFiltered ==
    LET blocked == [Chunk(None, <<>>, None, None) EXCEPT !.candidate = FALSE, !.blocked = TRUE,
                                                         !.parts = <<>>] IN
    /\ NormalizeResponse(blocked, "fallback").finishReason = "content_filter"
    /\ Streamed("gemini", GeminiFrames(<<blocked>>, "fallback"), "fallback").finishReason
        = "content_filter"

\* Options are accepted by no other vendor's provider, and every request that
\* a provider is given has a model unless neither it nor the provider has one.
ASSUME ProvidersAreUsable ==
    LET create == Object([create |-> Function])
        client == [openai |-> Object([chat |-> Object([completions |-> create])]),
                   anthropic |-> Object([messages |-> create]),
                   gemini |-> Object([models |-> Object([generateContent |-> Function])])]
    IN
    \A vendor \in DOMAIN client, model, request \in {Undefined, Empty, Blank, String("m")},
      maxTokens \in {Undefined, Number(0), Halves(3), Number(9)} :
        LET options == Object([client |-> client[vendor], model |-> model, maxTokens |-> maxTokens])
            accepting == (IF OpenAiOptionsOK(options) THEN {"openai"} ELSE {})
                \cup (IF AnthropicOptionsOK(options) THEN {"anthropic"} ELSE {})
                \cup (IF GeminiOptionsOK(options) THEN {"gemini"} ELSE {})
        IN
        /\ accepting = IF model \in {Empty, Blank} \/ (vendor = "anthropic" /\ maxTokens # Number(9))
                       THEN {} ELSE {vendor}
        /\ accepting # {} /\ (IsText(model) \/ IsText(request))
            => IsText(ResolveModel(request, model))
        /\ ProviderOK(Object([name |-> String(vendor), execute |-> Function]))

\* An SDK that answers with what was not asked for is an error of
\* configuration, which is never mistaken for one of the vendor's, except by
\* Gemini's provider, which maps it.
ASSUME AnswersAreChecked ==
    LET chunk == Event("message_start", Chunk(None, <<>>, None, None))
        answers == {[kind |-> "response", value |-> chunk], [kind |-> "stream", value |-> <<chunk>>],
                    [kind |-> "error", configuration |-> TRUE],
                    [kind |-> "error", configuration |-> FALSE]}
    IN
    \A wanted \in {"response", "stream"}, created \in answers :
        LET kinds == {OpenAiCall(wanted, created, "m").kind, AnthropicCall(wanted, created, "m").kind} IN
        /\ (kinds = {wanted}) <=> (created.kind = wanted)
        /\ (kinds = {"mapped"}) <=> (created.kind = "error" /\ ~created.configuration)
        /\ kinds \subseteq {wanted, "mapped", "configuration"}
        /\ created.kind = "error" => GeminiCall(wanted, TRUE, created, "m").kind = "mapped"
=============================================================================
