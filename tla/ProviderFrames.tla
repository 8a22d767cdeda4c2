--------------------------- MODULE ProviderFrames ---------------------------
(***************************************************************************)
(* How the three providers read what their SDKs answer: the responses of   *)
(* execute, the frames of stream, and the response that the pump of        *)
(* packages/llm/src/stream.ts puts together from frames.                   *)
(*                                                                         *)
(* What an answer may lack is an option, <<>> or <<value>>.  A text is a   *)
(* sequence of letters.  The usage that an SDK reports is a function from  *)
(* its names of counts to values of Options.                               *)
(***************************************************************************)
EXTENDS Contracts, SequencesExt, FiniteSets

None == <<>>
Some(x) == <<x>>
Else(option, default) == IF option = None THEN default ELSE option[1]
-----------------------------------------------------------------------------
(* Finish reasons *)

OpenAiReasons ==
    [stop |-> "stop", length |-> "length", content_filter |-> "content_filter",
     tool_calls |-> "tool_calls", function_call |-> "tool_calls"]

AnthropicReasons ==
    [end_turn |-> "stop", stop_sequence |-> "stop", max_tokens |-> "length",
     model_context_window_exceeded |-> "length", tool_use |-> "tool_calls",
     refusal |-> "content_filter"]

GeminiReasons ==
    [reason \in {"SAFETY", "RECITATION", "BLOCKLIST", "PROHIBITED_CONTENT", "SPII",
                 "IMAGE_SAFETY", "IMAGE_PROHIBITED_CONTENT"} |-> "content_filter"]
    @@ [STOP |-> "stop", MAX_TOKENS |-> "length", MALFORMED_FUNCTION_CALL |-> "tool_calls",
        UNEXPECTED_TOOL_CALL |-> "tool_calls"]

MapFinishReason(reasons, reason) ==
    IF reason # None /\ reason[1] \in DOMAIN reasons THEN reasons[reason[1]] ELSE "unknown"

\* A frame that gives no reason leaves the one of an earlier frame.
MapGivenReason(reasons, reason) ==
    IF reason = None THEN None ELSE Some(MapFinishReason(reasons, reason))
-----------------------------------------------------------------------------
(* Usage *)

Renamed(names, usage) ==
    [f \in {f \in DOMAIN names : names[f] \in DOMAIN usage /\ Given(usage[names[f]])} |->
        usage[names[f]]]

StreamUsage(counts, dimensions, usage) ==
    LET given == Renamed(dimensions, usage) IN
    Renamed(counts, usage) @@ (IF DOMAIN given = {} THEN <<>> ELSE [dimensions |-> given])

OpenAiUsage(usage) ==
    StreamUsage([inputTokens |-> "prompt_tokens", outputTokens |-> "completion_tokens",
                 totalTokens |-> "total_tokens"],
                [cachedTokens |-> "cached_tokens", reasoningTokens |-> "reasoning_tokens"],
                usage)

\* Anthropic's null is as good as nothing.
AnthropicUsage(usage) ==
    StreamUsage([inputTokens |-> "input_tokens", outputTokens |-> "output_tokens"],
                [cacheCreationInputTokens |-> "cache_creation_input_tokens",
                 cacheReadInputTokens |-> "cache_read_input_tokens",
                 thinkingTokens |-> "thinking_tokens"],
                [n \in {n \in DOMAIN usage : usage[n] # Null} |-> usage[n]])

GeminiUsage(usage) ==
    StreamUsage([inputTokens |-> "promptTokenCount", outputTokens |-> "candidatesTokenCount",
                 totalTokens |-> "totalTokenCount"],
                [n \in {"cachedContentTokenCount", "thoughtsTokenCount",
                        "toolUsePromptTokenCount"} |-> n],
                usage)

NormalizeTokenCount(v) == IF NumberAtLeast(v, 0) THEN v.halves \div 2 ELSE 0

NormalizeDimensions(dimensions) ==
    [d \in {d \in DOMAIN dimensions : NumberAtLeast(dimensions[d], 0)} |->
        NormalizeTokenCount(dimensions[d])]

\* No dimensions at all are the same as empty ones here.
NormalizeUsage(usage) ==
    LET Tokens(f) == IF f \in DOMAIN usage THEN NormalizeTokenCount(usage[f]) ELSE 0 IN
    [inputTokens |-> Tokens("inputTokens"),
     outputTokens |-> Tokens("outputTokens"),
     totalTokens |-> IF "totalTokens" \in DOMAIN usage THEN Tokens("totalTokens")
                     ELSE Tokens("inputTokens") + Tokens("outputTokens"),
     dimensions |-> IF "dimensions" \in DOMAIN usage
                    THEN NormalizeDimensions(usage.dimensions) ELSE <<>>]

\* mapUsage, for the usage of a response, if any.
MapUsage(Read(_), usage) == NormalizeUsage(Read(Else(usage, <<>>)))
-----------------------------------------------------------------------------
(* Responses of execute *)

LlmResponse(vendor, model, content, usage, finishReason) ==
    [provider |-> vendor, model |-> model, content |-> content,
     usage |-> usage, finishReason |-> finishReason]

NormalizeCompletion(completion, fallbackModel) ==
    LlmResponse("openai", Else(completion.model, fallbackModel), Else(completion.text, <<>>),
             MapUsage(OpenAiUsage, completion.usage), MapFinishReason(OpenAiReasons, completion.reason))

\* extractText of Anthropic and Gemini: the texts of the blocks or parts that
\* are meant to be seen.
VisibleText(parts) ==
    FlattenSeq([i \in DOMAIN parts |-> IF parts[i].visible THEN parts[i].text ELSE <<>>])

NormalizeMessage(message, fallbackModel) ==
    LlmResponse("anthropic", Else(message.model, fallbackModel), VisibleText(message.parts),
             MapUsage(AnthropicUsage, message.usage), MapFinishReason(AnthropicReasons, message.reason))

\* A prompt that is blocked has no candidate.
GeminiReason(response) ==
    IF response.blocked /\ ~response.candidate THEN Some("SAFETY") ELSE response.reason

NormalizeResponse(response, fallbackModel) ==
    LlmResponse("gemini", Else(response.model, fallbackModel), VisibleText(response.parts),
             MapUsage(GeminiUsage, response.usage), MapFinishReason(GeminiReasons, GeminiReason(response)))
-----------------------------------------------------------------------------
(* Frames of stream *)

Frame(model, text, finishReason, usage) ==
    [model |-> model, text |-> text, finishReason |-> finishReason, usage |-> usage]

FrameUsage(Read(_), usage) == IF usage = None THEN None ELSE Some(Read(usage[1]))

OpenAiFrame(chunk, fallbackModel) ==
    Frame(Some(Else(chunk.model, fallbackModel)), chunk.text,
          MapGivenReason(OpenAiReasons, chunk.reason), FrameUsage(OpenAiUsage, chunk.usage))

AnthropicFrame(event, fallbackModel) ==
    CASE event.type = "message_start" ->
            Frame(Some(Else(event.model, fallbackModel)), None, None,
                  FrameUsage(AnthropicUsage, event.usage))
      [] event.type = "content_block_delta" -> Frame(None, event.text, None, None)
      [] event.type = "message_delta" ->
            Frame(None, None, MapGivenReason(AnthropicReasons, event.reason),
                  FrameUsage(AnthropicUsage, event.usage))
      [] OTHER -> Frame(None, None, None, None)

OpenAiFrames(chunks, fallbackModel) ==
    [n \in DOMAIN chunks |-> OpenAiFrame(chunks[n], fallbackModel)]

AnthropicFrames(events, fallbackModel) ==
    [n \in DOMAIN events |-> AnthropicFrame(events[n], fallbackModel)]

IncrementalVisibleText(previous, incoming) ==
    CASE incoming = <<>> -> <<>>
      [] IsPrefix(previous, incoming) -> SubSeq(incoming, Len(previous) + 1, Len(incoming))
      [] IsPrefix(incoming, previous) -> <<>>
      [] OTHER -> incoming

GeminiFrame(chunk, fallbackModel, emitted) ==
    LET delta == IncrementalVisibleText(emitted, VisibleText(chunk.parts)) IN
    Frame(Some(Else(chunk.model, fallbackModel)), IF delta = <<>> THEN None ELSE Some(delta),
          MapGivenReason(GeminiReasons, GeminiReason(chunk)), FrameUsage(GeminiUsage, chunk.usage))

\* `emitted` of mapGeminiStream: the last text that was not empty.
NextEmitted(chunk, emitted) ==
    LET incoming == VisibleText(chunk.parts) IN IF incoming = <<>> THEN emitted ELSE incoming

GeminiFrames(chunks, fallbackModel) ==
    FoldLeft(LAMBDA read, chunk :
                [emitted |-> NextEmitted(chunk, read.emitted),
                 frames |-> Append(read.frames, GeminiFrame(chunk, fallbackModel, read.emitted))],
             [emitted |-> <<>>, frames |-> <<>>], chunks).frames

\* What pump() makes of all frames; its text is what it delivered, all of it
\* if the consumer was always there.
Streamed(vendor, frames, requestModel) ==
    LET usage == FoldLeft(LAMBDA partial, frame : Else(frame.usage, <<>>) @@ partial, <<>>, frames)
        Latest(default, field(_)) ==
            FoldLeft(LAMBDA last, frame : Else(field(frame), last), default, frames)
    IN LlmResponse(vendor,
                Latest(requestModel, LAMBDA frame : frame.model),
                FlattenSeq([n \in DOMAIN frames |-> Else(frames[n].text, <<>>)]),
                NormalizeUsage(usage),
                Latest("unknown", LAMBDA frame : frame.finishReason))
-----------------------------------------------------------------------------
(* Providers: their options and their calls of the SDK, which fails (an    *)
(* "error", perhaps one of configuration) or answers with a "response" or  *)
(* a "stream" of chunks, whatever it was asked for.  A call ends with an   *)
(* error of configuration, with the error mapped to one of the vendor's,   *)
(* or with the answer that was wanted, made of what the SDK answered.      *)

HasMethodAt(value, path) == IsFunction(FoldLeft(LAMBDA v, key : Get(v, key), value, path))

ClientAndModelOK(options, method) ==
    /\ IsObject(options)
    /\ HasMethodAt(Get(options, "client"), method)
    /\ Given(Get(options, "model")) => IsText(Get(options, "model"))

OpenAiOptionsOK(options) == ClientAndModelOK(options, <<"chat", "completions", "create">>)

AnthropicOptionsOK(options) ==
    /\ ClientAndModelOK(options, <<"messages", "create">>)
    /\ IntegerAtLeast(Get(options, "maxTokens"), 1)

GeminiOptionsOK(options) == ClientAndModelOK(options, <<"models", "generateContent">>)

\* Null stands for the ConfigurationError.
ResolveModel(requestModel, defaultModel) ==
    IF IsText(requestModel) THEN requestModel ELSE Or(defaultModel, Null)

Ended(kind, value) == [kind |-> kind, value |-> value]

CheckedCall(wanted, created, Read(_)) ==
    IF \/ created.kind = "error" /\ created.configuration
       \/ created.kind \notin {"error", wanted}
    THEN Ended("configuration", <<>>)
    ELSE IF created.kind = "error" THEN Ended("mapped", <<>>)
    ELSE Ended(wanted, Read(created.value))

OpenAiCall(wanted, created, model) ==
    CheckedCall(wanted, created,
        LAMBDA value : IF wanted = "response" THEN NormalizeCompletion(value, model)
                       ELSE OpenAiFrames(value, model))

AnthropicCall(wanted, created, model) ==
    CheckedCall(wanted, created,
        LAMBDA value : IF wanted = "response" THEN NormalizeMessage(value, model)
                       ELSE AnthropicFrames(value, model))

\* Gemini has a method for each answer, the one for streams being optional,
\* believes it, and maps every error.
GeminiCall(wanted, canStream, created, model) ==
    CASE wanted = "stream" /\ ~canStream -> Ended("configuration", <<>>)
      [] created.kind = "error" -> Ended("mapped", <<>>)
      [] wanted = "response" -> Ended(wanted, NormalizeResponse(created.value, model))
      [] OTHER -> Ended(wanted, GeminiFrames(created.value, model))

\* defineProvider
ProviderOK(v) == HasMethods(v, {"execute"}) /\ IsText(Get(v, "name"))
=============================================================================
