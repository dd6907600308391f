--------------------------- MODULE AnthropicRequest ---------------------------
(***************************************************************************)
(* A request of Anthropic's Messages dialect and its way into a chat       *)
(* completion request.  body.turns are messages of a role and blocks; a    *)
(* block is a text, an image, a thought, a use of a tool or its result.    *)
(***************************************************************************)
EXTENDS ChatRequest

Thoughts == {"thinking", "redacted_thinking"}
TextTypes == {"text", "compaction"}

\* decodeContent: a system message holds text only.
BlockAllowed(role, block) ==
    /\ block.type \in TextTypes \cup Thoughts \cup {"image", "tool_use", "tool_result"}
    /\ role = "system" => block.type \in TextTypes \cup Thoughts
    /\ block.type \in {"tool_use", "tool_result"} => block.id # NoId

\* decodeMessages
MessageAllowed(msg) ==
    /\ msg.role \in {"user", "assistant", "system"} /\ msg.blocks # <<>>
    /\ \A b \in DOMAIN msg.blocks : BlockAllowed(msg.role, msg.blocks[b])

AnthropicFields == {"max_tokens", "temperature", "top_p", "top_k", "stop_sequences", "metadata",
                    "cache_control", "thinking", "context_management", "output_config"}

DecodeRequest(body) ==
    /\ body.options \subseteq AnthropicFields
    /\ "max_tokens" \in body.options
    /\ body.turns # <<>>
    /\ \A i \in DOMAIN body.turns : MessageAllowed(body.turns[i])
    /\ body.toolChoice \in {"absent", "auto"}
-----------------------------------------------------------------------------
(* ToChatCompletion                                                        *)

\* Only the blocks of these types, and a text that is empty does not count.
Blocks(msg, types) ==
    Only(msg.blocks,
         {b \in DOMAIN msg.blocks :
            /\ msg.blocks[b].type \in types
            /\ msg.blocks[b].type \in TextTypes => msg.blocks[b].parts # <<>>})
PartsOf(blocks) == Flatten([i \in DOMAIN blocks |-> blocks[i].parts])
IdsOf(blocks) == [i \in DOMAIN blocks |-> blocks[i].id]

\* userMessageToChat: the results first, then what the user says.
ResultMessages(msg) ==
    LET results == Blocks(msg, {"tool_result"})
    IN  [i \in DOMAIN results |-> Message("tool", String(results[i].parts), <<>>, results[i].id)]

UserMessage(msg) ==
    LET said == Blocks(msg, TextTypes \cup {"image"})
    IN  CASE said = <<>> -> <<>>
          [] Len(said) = 1 /\ said[1].type # "image" ->
                 <<Message("user", String(said[1].parts), <<>>, NoId)>>
          [] OTHER -> <<Message("user", Array(PartsOf(said)), <<>>, NoId)>>

AssistantMessage(msg) ==
    LET texts == Blocks(msg, TextTypes)
        uses == Blocks(msg, {"tool_use"})
    IN  Message("assistant",
                IF uses # <<>> /\ texts = <<>> THEN Null ELSE String(PartsOf(texts)),
                IdsOf(uses), NoId)

SystemMessage(parts) == Message("system", String(parts), <<>>, NoId)

UserTurn(msg) == ResultMessages(msg) \o UserMessage(msg)

Turn(msg) ==
    CASE msg.role = "system" -> <<SystemMessage(PartsOf(Blocks(msg, TextTypes)))>>
      [] msg.role = "user" -> UserTurn(msg)
      [] msg.role = "assistant" -> <<AssistantMessage(msg)>>

Uses(msg) == IF msg.role = "assistant" THEN IdsOf(Blocks(msg, {"tool_use"})) ELSE <<>>
Results(msg) == IF msg.role = "user" THEN IdsOf(Blocks(msg, {"tool_result"})) ELSE <<>>

\* A block of another speaker has no place in a message.
InPlace(msg) ==
    /\ msg.role = "user" => Blocks(msg, {"tool_use"}) = <<>>
    /\ msg.role = "assistant" => Blocks(msg, {"image", "tool_result"}) = <<>>

\* pendingToolIDs and seenToolIDs: a result answers a use in a message before its own, once.
Answered(turns) == Flatten([i \in DOMAIN turns |-> Results(turns[i])])
ResultsAnswer(turns) ==
    /\ \A i, j \in DOMAIN Answered(turns) : Answered(turns)[i] = Answered(turns)[j] => i = j
    /\ \A i \in DOMAIN turns : \A id \in ToSet(Results(turns[i])) :
         \E c \in 1 .. (i - 1) : id \in ToSet(Uses(turns[c]))

\* IncludeGenerationOptions: Codex has no place for them.
\* Mutant: they are included whatever the provider.
GenerationOptionsAlways(provider, options) == options \cap {"max_tokens", "temperature", "top_p", "top_k"}
GenerationOptions(provider, options) ==
    IF provider = "codex" THEN {}
    ELSE (options \cap {"max_tokens", "temperature", "top_p", "top_k"})
           \cup (IF "stop_sequences" \in options THEN {"stop"} ELSE {})

Possible(body) ==
    /\ \A i \in DOMAIN body.turns : InPlace(body.turns[i])
    /\ ResultsAnswer(body.turns)

Messages(body) ==
    [i \in DOMAIN body.system |-> SystemMessage(body.system[i])]
      \o Flatten([i \in DOMAIN body.turns |-> Turn(body.turns[i])])

\* Stop is a copy of StopSequences, and so a []string.
ToChatCompletion(provider, body) ==
    [ChatRequest(Messages(body), GenerationOptions(provider, body.options)) EXCEPT
       !.stop = "strings", !.tools = body.tools, !.toolChoice = body.toolChoice]
=============================================================================
