---------------------------- MODULE RequestRoutes -----------------------------
(***************************************************************************)
(* One request on its way through its route, up to the document that goes  *)
(* to the upstream: the handlers of the chat, Responses, Anthropic and     *)
(* token counting routes do the same checks in orders of their own.        *)
(*                                                                         *)
(* The client is external: it writes a conversation in its dialect, turn   *)
(* by turn or in groups of the same speaker.                               *)
(***************************************************************************)
EXTENDS ChatRequest

CONSTANTS Requests,     \* [dialect, provider, said, limit, grouped, options,
                        \*  tools, toolChoice, stream, native, trouble]
          Turns,        \* what may be said, up to the limit of the request
          CallIds       \* the ids clients give to their calls

\* A request goes to the route of its dialect and of a provider.
ASSUME DialectAssumption ==
    \A q \in Requests :
      /\ q = [field \in DOMAIN q |-> q[field]]
      /\ {"dialect", "provider", "native", "said", "grouped", "options"} \subseteq DOMAIN q
      /\ q.dialect \in {"chat", "responses", "anthropic", "count_tokens"}
      /\ q.provider \in Providers

VARIABLES request, stage, body, chat, sent, told, recorded, asked

vars == <<request, stage, body, chat, sent, told, recorded, asked>>

R == INSTANCE ResponsesRequest
A == INSTANCE AnthropicRequest

None == [status |-> 0]
-----------------------------------------------------------------------------
(* What the client writes.  said is a sequence of turns: a kind ("system", *)
(* "user", "assistant", "call", "result"), parts, and the id of a call.    *)

Speaker == [system |-> "system", user |-> "user", result |-> "user",
            assistant |-> "assistant", call |-> "assistant"]

\* Turns that go into one message: grouped, those of one speaker that follow each other.
Opens(said) ==
    {i \in DOMAIN said :
       i > 1 => \/ Speaker[said[i].kind] = "system"
                \/ Speaker[said[i].kind] # Speaker[said[i - 1].kind]}
Runs(said, grouped) == Cut(said, IF grouped THEN Opens(said) ELSE DOMAIN said)

Kind(run, kind) == Only(run, {i \in DOMAIN run : run[i].kind = kind})

\* A chat client: one assistant message for its words and its calls.
UserContent(parts) == IF HasImage(parts) THEN Array(parts) ELSE String(parts)
ChatTurn(turn) ==
    CASE turn.kind = "result" -> Message("tool", String(turn.parts), <<>>, turn.id)
      [] turn.kind = "user" -> Message("user", UserContent(turn.parts), <<>>, NoId)
      [] turn.kind = "system" -> Message("system", String(turn.parts), <<>>, NoId)
ChatRun(run) ==
    IF Speaker[Head(run).kind] # "assistant" THEN [i \in DOMAIN run |-> ChatTurn(run[i])]
    ELSE LET texts == Kind(run, "assistant")
             calls == Kind(run, "call")
         IN  <<Message("assistant",
                       IF texts = <<>> THEN Null
                       ELSE String(Flatten([i \in DOMAIN texts |-> texts[i].parts])),
                       [i \in DOMAIN calls |-> calls[i].id], NoId)>>

ResponsesType == [call |-> "function_call", result |-> "function_call_output"]
ResponsesItem(turn) ==
    [type |-> IF turn.kind \in DOMAIN ResponsesType THEN ResponsesType[turn.kind] ELSE "message",
     role |-> IF turn.kind \in DOMAIN ResponsesType THEN "none" ELSE turn.kind,
     parts |-> turn.parts, id |-> turn.id,
     structured |-> FALSE, namespaced |-> FALSE]

\* Only the user shows images, and what a call is given is not told apart.
ASSUME ConversationAssumption ==
    /\ Turns \subseteq [kind : DOMAIN Speaker, parts : Seq(Pieces), id : CallIds \cup {NoId}]
    /\ NoId \notin CallIds /\ Images \subseteq Pieces
    /\ \A turn \in Turns :
         /\ turn.kind \in {"call", "result"} => turn.id \in CallIds
         /\ turn.kind = "call" => turn.parts = <<>>
         /\ turn.kind # "user" => ~HasImage(turn.parts)
    /\ \A q \in Requests : q.said \in Seq(Turns) /\ q.grouped \in BOOLEAN

BlockType == [system |-> "text", assistant |-> "text",
              call |-> "tool_use", result |-> "tool_result"]
Block(turn) ==
    [type |-> IF turn.kind # "user" THEN BlockType[turn.kind]
              ELSE IF HasImage(turn.parts) THEN "image" ELSE "text",
     parts |-> turn.parts, id |-> turn.id]

\* The system prompt of a grouped request has a field of its own.
Body(r) ==
    LET lifted == r.grouped /\ r.said # <<>> /\ r.said[1].kind = "system" /\ r.dialect # "chat"
        rest == IF lifted THEN Tail(r.said) ELSE r.said
        runs == Runs(rest, r.grouped)
    IN  [system |-> IF lifted THEN <<r.said[1].parts>> ELSE <<>>,
         turns |-> CASE r.dialect = "chat" -> Flatten([i \in DOMAIN runs |-> ChatRun(runs[i])])
                     [] r.dialect = "responses" -> [i \in DOMAIN rest |-> ResponsesItem(rest[i])]
                     [] OTHER ->
                          [i \in DOMAIN runs |->
                             [role |-> Speaker[Head(runs[i]).kind],
                              blocks |-> [j \in DOMAIN runs[i] |-> Block(runs[i][j])]]],
         options |-> r.options, tools |-> r.tools, toolChoice |-> r.toolChoice, stream |-> r.stream]
-----------------------------------------------------------------------------
(* The routes.                                                             *)

\* The order of the four handlers.  The native route of Responses ends at
\* its credentials with the body as it came.
\* Mutant: the token of Anthropic's upstream is got ready before the request is accepted.
StagesEager ==
    [chat |-> <<"auth", "read", "validate", "resolve", "registry", "adapter", "accept",
                "credentials", "execute">>,
     responses |-> <<"auth", "read", "resolve", "registry", "decode", "adapter", "convert",
                     "validate", "accept", "credentials", "execute">>,
     native |-> <<"auth", "read", "resolve", "registry", "credentials", "execute">>,
     anthropic |-> <<"auth", "read", "resolve", "registry", "credentials", "convert", "validate",
                     "adapter", "accept", "execute">>,
     count_tokens |-> <<"auth", "read", "resolve", "registry", "count">>]
Stages ==
    [chat |-> <<"auth", "read", "validate", "resolve", "registry", "adapter", "accept",
                "credentials", "execute">>,
     responses |-> <<"auth", "read", "resolve", "registry", "decode", "adapter", "convert",
                     "validate", "accept", "credentials", "execute">>,
     native |-> <<"auth", "read", "resolve", "registry", "credentials", "execute">>,
     anthropic |-> <<"auth", "read", "resolve", "registry", "convert", "validate", "adapter",
                     "accept", "credentials", "execute">>,
     count_tokens |-> <<"auth", "read", "resolve", "registry", "count">>]
Route == IF request.dialect = "responses" /\ request.native THEN "native" ELSE request.dialect
Place == CHOOSE i \in DOMAIN Stages[Route] : Stages[Route][i] = stage
NextStage ==
    IF Place = Len(Stages[Route]) THEN "done" ELSE Stages[Route][Place + 1]

Document == IF request.dialect \in {"anthropic", "count_tokens"} THEN "anthropic" ELSE "openai"

Refuse(status, class) ==
    /\ told' = [status |-> status, class |-> class, document |-> Document]
    /\ stage' = "done"
    /\ UNCHANGED <<request, body, chat, sent, asked>>

\* Refused, and a row of metadata says so.
Reject(status, class) ==
    /\ Refuse(status, class)
    /\ recorded' = [status |-> status, class |-> class]
RefuseOffTheBooks(status, class) == Refuse(status, class) /\ UNCHANGED recorded

Pass ==
    /\ stage' = NextStage
    /\ UNCHANGED <<request, body, chat, sent, told, recorded, asked>>

Trouble(kind) == request.trouble = kind

\* withAuth
Authorize ==
    /\ stage = "auth"
    /\ IF Trouble("unauthorized") THEN RefuseOffTheBooks(401, "authentication_error") ELSE Pass

\* DecodeChatCompletion, down to the agreement of its raw values.
DecodeChat ==
    LET req == [ChatRequest(body.turns, body.options) EXCEPT
                  !.stream = body.stream, !.tools = body.tools, !.toolChoice = body.toolChoice]
    IN  /\ body.options \subseteq ChatFields
        /\ \A i \in DOMAIN body.turns : ContentAllowed(body.turns[i])
        /\ ToolsAllowed(req) /\ LogprobsAgree(req) /\ StreamOptionsAgree(req)

Decodes ==
    CASE request.dialect = "chat" -> DecodeChat
      [] request.dialect = "responses" -> R!DecodeEnvelope(body)
      [] request.dialect = "anthropic" -> A!DecodeRequest(body)
      [] request.dialect = "count_tokens" ->
             A!DecodeRequest([body EXCEPT !.options = @ \cup {"max_tokens"}])

\* The body is read and decoded; only the token counter records a failure.
ReadBody ==
    /\ stage = "read"
    /\ IF Trouble("too large") \/ Trouble("invalid json") \/ ~Decodes
       THEN LET status == IF Document = "anthropic" /\ Trouble("too large") THEN 413 ELSE 400
            IN  IF request.dialect = "count_tokens" THEN Reject(status, "invalid_json")
                ELSE RefuseOffTheBooks(status, "invalid_json")
       ELSE /\ stage' = NextStage
            /\ chat' = IF request.dialect = "chat"
                       THEN [ChatRequest(body.turns, body.options) EXCEPT
                               !.stream = body.stream, !.tools = body.tools,
                               !.toolChoice = body.toolChoice]
                       ELSE chat
            /\ UNCHANGED <<request, body, sent, told, recorded, asked>>

Checked ==
    /\ stage = "validate"
    /\ IF Validate(chat) THEN Pass ELSE Reject(400, "unsupported_request")

ResolveModel ==
    /\ stage = "resolve"
    /\ IF Trouble("unknown model") THEN Reject(400, "invalid_model") ELSE Pass

Registered ==
    /\ stage = "registry"
    /\ IF Trouble("unknown provider") THEN Reject(404, "provider_not_configured") ELSE Pass

DecodeBody ==
    /\ stage = "decode"
    /\ IF R!DecodeResponses(body) THEN Pass ELSE Reject(400, "unsupported_request")

\* preflightProviderAdapter
Adapter ==
    /\ stage = "adapter"
    /\ CASE Trouble("no capability") -> Reject(501, "unsupported_provider_capability")
         [] Trouble("no adapter") -> Reject(501, "provider_unavailable")
         [] OTHER -> Pass

\* ToChatCompletionRequest and ToChatCompletion
Convert ==
    /\ stage = "convert"
    /\ LET responses == request.dialect = "responses"
           possible == IF responses THEN R!Convertible(request.provider, body)
                       ELSE A!Possible(body) /\ A!Messages(body) # <<>>
       IN  IF ~possible THEN Reject(400, "unsupported_request")
           ELSE /\ stage' = NextStage
                /\ chat' = IF responses THEN R!ToChatCompletionRequest(request.provider, body)
                           ELSE A!ToChatCompletion(request.provider, body)
                /\ UNCHANGED <<request, body, sent, told, recorded, asked>>

\* preflightAdapterRequest
Accept ==
    /\ stage = "accept"
    /\ IF ValidateChatRequest(request.provider, chat) THEN Pass
       ELSE Reject(400, "unsupported_request")

\* The bearers are resolved, which may refresh them and list their models.
Credentials ==
    /\ stage = "credentials"
    /\ CASE Trouble("no credential") -> Reject(401, "credential_unavailable")
         [] Trouble("no entitlement") -> Reject(503, "model_entitlement_unavailable")
         [] OTHER ->
              /\ stage' = NextStage /\ asked' = TRUE
              /\ UNCHANGED <<request, body, chat, sent, told, recorded>>

Tiers == {"service_tier", "codex.service_tier"}

\* The attempt writes its document; Codex knows the tiers of each model.
Execute ==
    /\ stage = "execute"
    /\ IF /\ Route # "native" /\ request.provider = "codex"
          /\ \/ "max_tokens" \in chat.options
             \/ Trouble("tier not offered") /\ chat.options \cap Tiers # {}
       THEN Reject(400, "invalid_request")
       ELSE /\ stage' = NextStage
            /\ sent' = IF Route = "native" THEN [native |-> body]
                       ELSE Marshal(request.provider, chat)
            /\ UNCHANGED <<request, body, chat, told, recorded, asked>>

CountTokens ==
    /\ stage = "count" /\ stage' = NextStage
    /\ told' = [status |-> 200, class |-> "", document |-> Document]
    /\ recorded' = [status |-> 200, class |-> ""]
    /\ UNCHANGED <<request, body, chat, sent, asked>>

Init ==
    /\ request \in Requests
    /\ stage = "written"
    /\ body = None /\ chat = None /\ sent = None /\ told = None /\ recorded = None /\ asked = FALSE

\* The client goes on with its conversation, or sends it.
Speak(turn) ==
    /\ stage = "written" /\ Len(request.said) < request.limit
    /\ request' = [request EXCEPT !.said = Append(@, turn)]
    /\ UNCHANGED <<stage, body, chat, sent, told, recorded, asked>>
Send ==
    /\ stage = "written" /\ request.said # <<>>
    /\ stage' = "auth" /\ body' = Body(request)
    /\ UNCHANGED <<request, chat, sent, told, recorded, asked>>

Next ==
    \/ Send \/ \E turn \in Turns : Speak(turn)
    \/ Authorize \/ ReadBody \/ Checked \/ ResolveModel \/ Registered \/ DecodeBody \/ Adapter
    \/ Convert \/ Accept \/ Credentials \/ Execute \/ CountTokens

Spec == Init /\ [][Next]_vars
-----------------------------------------------------------------------------
(* Properties.                                                             *)

\* What a conversation says, however it is cut into messages: words of one
\* role that follow each other are one message, and no words are none.
Words(item) ==
    IF item.type = "message"
    THEN [p \in DOMAIN item.parts |-> [by |-> item.role, id |-> NoId, parts |-> <<item.parts[p]>>]]
    ELSE <<[by |-> item.type, id |-> item.id, parts |-> item.parts]>>
Meaning(items) == Flatten([i \in DOMAIN items |-> Words(items[i])])

SaidItem(turn) ==
    CASE turn.kind = "call" -> Item("function_call", "none", turn.parts, turn.id)
      [] turn.kind = "result" -> Item("function_call_output", "none", turn.parts, turn.id)
      [] OTHER -> Item("message", turn.kind, turn.parts, NoId)
Spoken == Only(request.said, {i \in DOMAIN request.said : request.said[i].kind # "system"})
SaidItems == [i \in DOMAIN Spoken |-> SaidItem(Spoken[i])]
SaidInstructions ==
    LET system == Kind(request.said, "system")
    IN  Flatten([i \in DOMAIN system |-> system[i].parts])

SentItems ==
    sent.items \o Flatten([i \in DOMAIN sent.messages |-> CodexItems(sent.messages[i])])
SentInstructions == Flatten(sent.instructions) \o Flatten(SystemTexts(sent.messages))

\* A message of a dialect that groups its turns has one order: results, then
\* what the user says; what the assistant says, then its calls.
Orderly ==
    \A i \in 1..(Len(request.said) - 1) :
      <<request.said[i].kind, request.said[i + 1].kind>>
        \notin {<<"user", "result">>, <<"call", "assistant">>}

Converted == sent # None /\ Route # "native"

\* The upstream is sent the conversation the client wrote: every turn, once,
\* in its order, with its words, ids and speaker, and all the instructions,
\* from each dialect to each kind of upstream (ToChatCompletionRequest,
\* ToChatCompletion, marshalCodexResponsesRequest).
SameConversation ==
    Converted /\ (request.grouped => Orderly) =>
        /\ Meaning(SentItems) = Meaning(SaidItems)
        /\ SentInstructions = SaidInstructions

\* No upstream is sent the result of a tool without the call before it, or
\* two results of one call, unless a chat client sends them to a provider
\* that takes its messages as they are.
PairedResults ==
    Converted /\ ~(request.dialect = "chat" /\ request.provider # "codex") =>
        \A i \in DOMAIN SentItems :
          SentItems[i].type = "function_call_output" =>
            /\ \E c \in CallPlaces(SentItems, SentItems[i].id) : c < i
            /\ OutputPlaces(SentItems, SentItems[i].id) = {i}

Of(kind) == {i \in DOMAIN request.said : request.said[i].kind = kind}
SameId(i, j) == request.said[i].id = request.said[j].id
WellFormed ==
    /\ \A i, j \in Of("call") : SameId(i, j) => i = j
    /\ \A i, j \in Of("result") : SameId(i, j) => i = j
    /\ \A c \in Of("call") : \E o \in Of("result") : c < o /\ SameId(c, o)
    /\ \A o \in Of("result") : \E c \in Of("call") : c < o /\ SameId(c, o)
    /\ \A w \in Of("system") \cup Of("user") \cup Of("assistant") : request.said[w].parts # <<>>

\* DeepSeek takes texts that are strings; Anthropic's texts of one message
\* become an array.
StringsOnly ==
    /\ \A i \in DOMAIN request.said : ~HasImage(request.said[i].parts)
    /\ request.dialect = "anthropic" /\ request.grouped =>
         \A i, j \in Of("user") :
           i < j => \E k \in i .. j : Speaker[request.said[k].kind] # "user"

\* Nothing but a conversation and what the dialect cannot do without.
Plain ==
    /\ request.options = IF request.dialect = "anthropic" THEN {"max_tokens"} ELSE {}
    /\ request.tools = <<>> /\ request.toolChoice = "absent"
    /\ request.dialect = "responses" => request.stream

\* A conversation whose tool calls are all answered once and later is refused
\* by no dialect and no provider, however its turns are grouped.
WellFormedAccepted ==
    stage = "done" /\ request.trouble = "none" /\ Plain /\ WellFormed /\ Spoken # <<>>
      /\ (request.provider = "deepseek" => StringsOnly)
    => told.status \in {0, 200}

\* The options a route keeps to itself, by where it leads.
LocalOptions ==
    CASE request.dialect = "chat" ->
           IF request.provider = "codex"
           THEN {"max_completion_tokens", "parallel_tool_calls", "stream_options",
                 "prompt_cache_key"}
                  \cup {option \in {"service_tier"} : "codex.service_tier" \in request.options}
           ELSE {"prompt_cache_key"}
      [] request.dialect = "responses" ->
           {"metadata", "client_metadata", "include"}
             \cup {IF request.provider = "codex" THEN "parallel_tool_calls" ELSE "prompt_cache_key"}
      [] request.dialect = "anthropic" ->
           IF request.provider = "codex" THEN A!AnthropicFields
           ELSE {"metadata", "thinking", "context_management", "output_config", "cache_control"}

\* The name an option has upstream.
Upstream(option) ==
    CASE option = "reasoning" -> "codex.effort"
      [] option = "text" -> "codex.verbosity"
      [] option = "service_tier" /\ request.dialect = "responses" -> "codex.service_tier"
      [] option = "prompt_cache_key" -> "codex_cache_key"
      [] option = "stop_sequences" -> "stop"
      [] option = "max_completion_tokens" /\ request.provider = "deepseek" -> "max_tokens"
      [] OTHER -> option

\* An option the client sets reaches the upstream under its name there, or
\* the request is refused; only the declared ones are dropped in silence.
OnlyLocalOptionsDropped ==
    Converted =>
        \A option \in request.options \ LocalOptions : Upstream(option) \in sent.options

\* What docs/plans/191-anthropic-messages-compat.md:50 says of an Anthropic client's
\* options: one that the upstream knows, or that is kept local, is accepted.
\* validateStop refuses the []string that ToChatCompletion makes of stop_sequences.
KnownOrLocal ==
    {option \in {"max_tokens", "temperature", "top_p", "top_k", "stop_sequences", "metadata"} :
       option \in LocalOptions \/ Upstream(option) \notin Unsupported(request.provider)}
StopSequencesAccepted ==
    /\ stage = "done" /\ request.trouble = "none" /\ request.dialect = "anthropic"
    /\ {"max_tokens"} \subseteq request.options /\ request.options \subseteq KnownOrLocal
    /\ request.tools = <<>> /\ request.toolChoice = "absent"
    /\ WellFormed /\ Spoken # <<>> /\ (request.provider = "deepseek" => StringsOnly)
    => told.status \in {0, 200}

\* A request that is refused for what it says has cost nothing: no bearer was
\* refreshed and no list of models asked for; and its row of metadata has the
\* status the client was told, whatever handler refused it.
RefusedBeforeCredentials ==
    /\ told.status = 400 /\ told.class # "invalid_request" => ~asked
    /\ told # None /\ told.class \notin {"authentication_error", "invalid_json"} =>
         recorded = [status |-> told.status, class |-> told.class]
=============================================================================
