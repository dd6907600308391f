--------------------------- MODULE ResponsesRequest ---------------------------
(***************************************************************************)
(* A request of the Responses dialect: its input items, their transcript   *)
(* of tool calls, and its way into a chat completion request.              *)
(* body.turns are input items, with two marks besides: structured (an      *)
(* output that is no text) and namespaced (a call of a namespace's tool).  *)
(***************************************************************************)
EXTENDS ChatRequest

CallTypes == {"function_call", "custom_tool_call", "tool_search_call"}
\* responsesOutputMatchesCall
Answers == [function_call_output |-> "function_call",
            custom_tool_call_output |-> "custom_tool_call",
            tool_search_output |-> "tool_search_call"]
OtherTypes == {"web_search_call", "compaction"}

\* A call and its output carry the call's id.
CallAllowed(item) == item.type \in CallTypes \cup DOMAIN Answers /\ item.id # NoId

ItemAllowed(item) ==
    IF item.type = "message"
    THEN item.role \in {"user", "assistant", "system", "developer"} /\ item.parts # <<>>
    ELSE CallAllowed(item) \/ item.type \in OtherTypes

\* validateResponsesToolTranscript
\* Mutant: an output may come before its call.
ToolTranscriptAnyOrder(items) ==
    LET calls == {i \in DOMAIN items : items[i].type \in CallTypes}
        outputs == {i \in DOMAIN items : items[i].type \in DOMAIN Answers}
    IN  /\ \A i, j \in calls : items[i].id = items[j].id => i = j
        /\ \A o \in outputs : \E c \in calls : items[c].id = items[o].id
ToolTranscript(items) ==
    LET calls == {i \in DOMAIN items : items[i].type \in CallTypes}
        outputs == {i \in DOMAIN items : items[i].type \in DOMAIN Answers}
        Answered(o) == {c \in calls : c < o /\ items[c].id = items[o].id}
    IN  /\ \A i, j \in calls : items[i].id = items[j].id => i = j
        /\ \A i, j \in outputs : items[i].id = items[j].id => i = j
        /\ \A o \in outputs : \E c \in Answered(o) : items[c].type = Answers[items[o].type]
        /\ \A c \in calls : \E o \in outputs : items[o].id = items[c].id

ResponsesFields == {"parallel_tool_calls", "reasoning", "store", "include", "service_tier", "text",
                    "prompt_cache_key", "client_metadata", "metadata"}

\* DecodeNativeResponsesEnvelope, all of a body the native route looks at.
DecodeEnvelope(body) == body.stream /\ "store" \notin body.options

DecodeResponses(body) ==
    /\ body.options \subseteq ResponsesFields
    /\ DecodeEnvelope(body)
    /\ body.turns # <<>>
    /\ \A i \in DOMAIN body.turns : ItemAllowed(body.turns[i])
    /\ ToolTranscript(body.turns)
    /\ body.toolChoice \in {"absent", "auto"}
    /\ "include" \in body.options => "reasoning" \in body.options
-----------------------------------------------------------------------------
(* ToChatCompletionRequest, by the policy of the provider's routes.        *)

Preserves(provider) == provider = "codex"
AllowsParallel(provider) == provider \in {"codex", "openrouter"}

Texts(parts) == Only(parts, {i \in DOMAIN parts : parts[i] \notin Images})

IsSystem(item) == item.type = "message" /\ item.role \in {"system", "developer"}

\* codexResponsesInputAndInstructions: items go as they came.
Raw(item) == Item(item.type, item.role, item.parts, item.id)
CodexInput(items) ==
    LET kept == Only(items, {i \in DOMAIN items : ~IsSystem(items[i])})
    IN  [i \in DOMAIN kept |-> Raw(kept[i])]
InstructionsOf(body) ==
    LET system == Only(body.turns, {i \in DOMAIN body.turns : IsSystem(body.turns[i])})
    IN  Flatten(body.system) \o Flatten([i \in DOMAIN system |-> Texts(system[i].parts)])

\* responsesInputToChatMessages
ChatContent(item) == IF HasImage(item.parts) THEN Array(item.parts) ELSE String(item.parts)

ItemConvertible(item) ==
    CASE item.type = "message" -> HasImage(item.parts) => item.role = "user"
      [] item.type = "function_call" -> ~item.namespaced
      [] item.type = "function_call_output" -> ~item.structured
      [] OTHER -> FALSE

\* Calls that follow each other become one message.
\* Mutant: a run of calls swallows the item after it.
RunStartsSwallowing(items) ==
    {i \in DOMAIN items : i > 1 => items[i - 1].type # "function_call"}
RunStarts(items) ==
    {i \in DOMAIN items :
       i > 1 => items[i].type # "function_call" \/ items[i - 1].type # "function_call"}

ChatOf(run) ==
    LET item == Head(run)
    IN  CASE item.type = "message" ->
               Message(IF item.role = "developer" THEN "system" ELSE item.role,
                       ChatContent(item), <<>>, NoId)
          [] item.type = "function_call" ->
               Message("assistant", Null, [i \in DOMAIN run |-> run[i].id], NoId)
          [] item.type = "function_call_output" ->
               Message("tool", String(item.parts), <<>>, item.id)

InputToChatMessages(body) ==
    LET system == IF Flatten(body.system) = <<>> THEN <<>>
                  ELSE <<Message("system", String(Flatten(body.system)), <<>>, NoId)>>
        runs == Cut(body.turns, RunStarts(body.turns))
    IN  system \o [i \in DOMAIN runs |-> ChatOf(runs[i])]

\* responsesToolsToChatTools
ToolConvertible(provider, tool) ==
    ~Preserves(provider) => tool.kind = "function" /\ ~tool.strict /\ ~tool.deferred

CodexFields == {"reasoning", "text", "service_tier"}

Convertible(provider, body) ==
    /\ ~Preserves(provider) => \A i \in DOMAIN body.turns : ItemConvertible(body.turns[i])
    /\ Len(body.tools) <= MaxTools
    /\ \A i \in DOMAIN body.tools : ToolConvertible(provider, body.tools[i])
    /\ ~Preserves(provider) =>
           \A i, j \in DOMAIN body.tools : body.tools[i].name = body.tools[j].name => i = j
    /\ "parallel_tool_calls" \in body.options => AllowsParallel(provider)
    /\ body.options \cap CodexFields # {} => provider = "codex"

\* The names the options have from here on.
Renamed(options) ==
    (options \cap {"parallel_tool_calls"})
      \cup (IF "reasoning" \in options THEN {"codex.effort"} ELSE {})
      \cup (IF "text" \in options THEN {"codex.verbosity", "codex.format"} ELSE {})
      \cup (IF "service_tier" \in options THEN {"codex.service_tier"} ELSE {})
      \cup (IF "prompt_cache_key" \in options THEN {"codex_cache_key"} ELSE {})

ToChatCompletionRequest(provider, body) ==
    IF Preserves(provider)
    THEN [ChatRequest(<<>>, Renamed(body.options)) EXCEPT
            !.codexInput = CodexInput(body.turns),
            !.codexInstructions = InstructionsOf(body),
            !.codexTools = body.tools]
    ELSE [ChatRequest(InputToChatMessages(body), Renamed(body.options)) EXCEPT
            !.tools = body.tools,
            !.toolChoice = IF body.tools # <<>> THEN "auto" ELSE "absent"]
=============================================================================
