----------------------------- MODULE ChatRequest ------------------------------
(***************************************************************************)
(* The chat completion request every dialect is turned into: what it must  *)
(* look like, what each provider accepts of it, and what is sent.          *)
(***************************************************************************)
EXTENDS Transcript

CONSTANT MaxTools       \* 128

ASSUME MaxToolsAssumption == MaxTools \in Nat

Providers == {"codex", "openrouter", "deepseek"}

\* openai.ChatCompletionRequest.  options are the names of the fields the
\* request has besides its model, messages and tools (PresentFields), set to
\* something that is not their default.  stop is the Go type that "stop" has
\* then: what JSON decodes to, or a []string.
ChatRequest(messages, options) ==
    [messages |-> messages, options |-> options, stop |-> "decoded", stream |-> FALSE,
     tools |-> <<>>, toolChoice |-> "absent",
     codexInput |-> <<>>, codexInstructions |-> <<>>, codexTools |-> <<>>]

\* Of provider_options, what Codex has a place for.
CodexNested == {"codex.effort", "codex.verbosity", "codex.format", "codex.service_tier"}

\* The fields a chat client may send.
ChatFields ==
    CodexNested \cup
      {"stream_options", "max_tokens", "max_completion_tokens", "temperature", "top_p", "top_k",
       "min_p", "top_a", "repetition_penalty", "seed", "presence_penalty", "frequency_penalty",
       "stop", "response_format", "parallel_tool_calls", "prediction", "user",
       "prompt_cache_key", "service_tier", "reasoning_effort", "session_id", "metadata",
       "logprobs", "top_logprobs", "logit_bias"}

\* One message on its own (validateRawMessages, and again in Validate).
ContentAllowed(msg) ==
    CASE msg.role = "system" -> msg.content.form = "string"
      [] msg.role = "user" ->
             \/ msg.content.form = "string"
             \/ msg.content.form = "array" /\ msg.content.parts # <<>>
      [] msg.role = "assistant" ->
             IF msg.calls = <<>> THEN msg.content.form = "string"
             ELSE msg.content.form \in {"string", "null", "missing"}
      [] msg.role = "tool" -> msg.content.form = "string" /\ msg.id # NoId
      [] OTHER -> FALSE

\* Names are unique, a named call has an id, a choice needs something to choose.
ToolNamesUnique(req) ==
    \A i, j \in DOMAIN req.tools : req.tools[i].name = req.tools[j].name => i = j
CallsNamed(req) == \A i \in DOMAIN req.messages : NoId \notin ToSet(req.messages[i].calls)
ChoosesTools(req) == req.toolChoice \notin {"absent", "none"} => req.tools # <<>>
ToolsAllowed(req) ==
    Len(req.tools) <= MaxTools /\ ToolNamesUnique(req) /\ CallsNamed(req) /\ ChoosesTools(req)

\* Options that depend on each other.
OneLimit(req) == ~({"max_tokens", "max_completion_tokens"} \subseteq req.options)
LogprobsAgree(req) == "top_logprobs" \in req.options => "logprobs" \in req.options
StreamOptionsAgree(req) == "stream_options" \in req.options => req.stream

\* validateStop knows a string and a []any, and takes a []string for neither.
StopAllowed(req) == "stop" \in req.options => req.stop = "decoded"

Validate(req) ==
    /\ req.messages # <<>> \/ req.codexInput # <<>>
    /\ OneLimit(req) /\ LogprobsAgree(req) /\ StreamOptionsAgree(req) /\ StopAllowed(req)
    /\ ToolsAllowed(req)
    /\ \A i \in DOMAIN req.messages : ContentAllowed(req.messages[i])
-----------------------------------------------------------------------------
(* What a provider accepts (HTTPChatAdapter.ValidateChatRequest).          *)

OpenRouterOnly == {"top_k", "min_p", "top_a", "repetition_penalty", "seed", "logit_bias",
                   "session_id", "metadata"}

\* chatValidationPolicyForInstance
Unsupported(provider) ==
    CASE provider = "codex" ->
           OpenRouterOnly \cup
             {"prediction", "user", "logprobs", "top_logprobs", "max_tokens", "temperature",
              "top_p", "presence_penalty", "frequency_penalty", "stop"}
      [] provider = "deepseek" ->
           OpenRouterOnly \cup
             {"service_tier", "presence_penalty", "frequency_penalty", "parallel_tool_calls",
              "prediction", "user", "reasoning_effort"}
      [] provider = "openrouter" -> {"reasoning_effort"}

\* validateCodexToolTranscript: a result answers a call of an assistant before it, and no
\* result before it did.
ResultsAt(messages) == {i \in DOMAIN messages : messages[i].role = "tool"}
AnsweredOnce(messages) ==
    \A i, j \in ResultsAt(messages) : messages[i].id = messages[j].id => i = j
CodexToolTranscript(messages) ==
    /\ AnsweredOnce(messages)
    /\ \A i \in ResultsAt(messages) :
         \E c \in 1 .. (i - 1) :
           messages[c].role = "assistant" /\ messages[i].id \in ToSet(messages[c].calls)

\* The exclusive options of Codex: the one at the top, and its double inside
\* of provider_options.
Doubled == {<<"reasoning_effort", "codex.effort">>, <<"response_format", "codex.format">>}

ValidateChatRequest(provider, req) ==
    /\ req.options \cap Unsupported(provider) = {}
    /\ provider # "codex" => req.options \cap CodexNested = {}
    /\ provider = "deepseek" =>
           \A i \in DOMAIN req.messages : req.messages[i].content.form # "array"
    /\ provider = "codex" =>
           /\ \A pair \in Doubled : ~({pair[1], pair[2]} \subseteq req.options)
           /\ req.toolChoice # "named"
           /\ CodexToolTranscript(req.messages)
    /\ \A i \in DOMAIN req.tools : ~req.tools[i].strict
-----------------------------------------------------------------------------
(* What is sent.                                                           *)

Sent(messages, items, instructions, options) ==
    [messages |-> messages, items |-> items, instructions |-> instructions,
     options |-> options, tools |-> <<>>, toolChoice |-> "absent"]

\* codexFunctionCallItems
CodexCalls(calls) == [i \in DOMAIN calls |-> Item("function_call", "none", <<>>, calls[i])]

\* A turn of the conversation as input items; system turns go elsewhere.
CodexItems(msg) ==
    CASE msg.role = "system" -> <<>>
      [] msg.role = "user" -> <<Item("message", "user", msg.content.parts, NoId)>>
      [] msg.role = "assistant" ->
             (IF msg.content.form = "string"
              THEN <<Item("message", "assistant", msg.content.parts, NoId)>> ELSE <<>>)
               \o CodexCalls(msg.calls)
      [] msg.role = "tool" -> <<Item("function_call_output", "none", msg.content.parts, msg.id)>>

SystemTexts(messages) ==
    LET system == Only(messages, {i \in DOMAIN messages : messages[i].role = "system"})
    IN  [i \in DOMAIN system |-> system[i].content.parts]

\* codexTranslatedToolChoice: the only tool, if one is required.
CodexChoice(choice, tools) ==
    IF choice = "required" /\ Len(tools) = 1 THEN "the tool" ELSE choice

\* codexRequestOptions; every other field has no place in the request.
\* Mutant: the effort of a chat client is left behind.
CodexOptionsFewer == {"codex.effort", "response_format", "codex.format",
                      "codex.verbosity", "service_tier", "codex.service_tier", "codex_cache_key"}
CodexOptions == {"reasoning_effort", "codex.effort", "response_format", "codex.format",
                 "codex.verbosity", "service_tier", "codex.service_tier", "codex_cache_key"}

\* The tier inside of provider_options wins over the one at the top.
CodexSent(options) ==
    {option \in options \cap CodexOptions :
       option = "service_tier" => "codex.service_tier" \notin options}

\* Instructions are one text or none, for which the model's own are sent.
Optional(text) == IF text = <<>> THEN <<>> ELSE <<text>>

\* marshalCodexResponsesRequest
MarshalCodex(req) ==
    LET system == SystemTexts(req.messages)
        items == Flatten([i \in DOMAIN req.messages |-> CodexItems(req.messages[i])])
        out == IF req.codexInput # <<>>
               THEN Sent(<<>>, req.codexInput, Optional(req.codexInstructions), {})
               ELSE Sent(<<>>, [i \in DOMAIN items |-> Marshalled(items[i])],
                         IF system = <<>> THEN <<>> ELSE <<Flatten(system)>>, {})
    IN  [out EXCEPT !.options = CodexSent(req.options),
                    !.tools = IF req.codexTools # <<>> THEN req.codexTools ELSE req.tools,
                    !.toolChoice = CodexChoice(IF req.toolChoice = "absent" THEN "auto"
                                               ELSE req.toolChoice, req.tools)]

\* marshalChatCompletionsRequest: DeepSeek knows the limit by its older name.
HTTPOptions(provider, options) ==
    LET kept == options \ {"max_completion_tokens", "prompt_cache_key", "codex_cache_key"}
    IN  IF "max_completion_tokens" \notin options THEN kept
        ELSE kept \cup {IF provider = "deepseek" THEN "max_tokens" ELSE "max_completion_tokens"}

MarshalHTTP(provider, req) ==
    [Sent(req.messages, <<>>, <<>>, HTTPOptions(provider, req.options))
       EXCEPT !.tools = req.tools, !.toolChoice = req.toolChoice]

Marshal(provider, req) ==
    IF provider = "codex" THEN MarshalCodex(req) ELSE MarshalHTTP(provider, req)
=============================================================================
