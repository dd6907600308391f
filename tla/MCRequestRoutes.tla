--------------------------- MODULE MCRequestRoutes ---------------------------
(***************************************************************************)
(* The requests TLC runs through the routes: every short conversation in   *)
(* every dialect, and one simple conversation with every option, tool and  *)
(* trouble.                                                                *)
(***************************************************************************)
EXTENDS RequestRoutes

CONSTANTS MaxTurns,     \* the turns of the longest conversation
          Ask, Photo, Rule, Say, Output

Turn(kind, parts, id) == [kind |-> kind, parts |-> parts, id |-> id]

AllTurns ==
    {Turn("system", <<Rule>>, NoId), Turn("user", <<Ask>>, NoId), Turn("user", <<Photo>>, NoId),
     Turn("assistant", <<Say>>, NoId), Turn("user", <<>>, NoId)}
      \cup {Turn("call", <<>>, id) : id \in CallIds}
      \cup {Turn("result", <<Output>>, id) : id \in CallIds}

Dialects == {"chat", "responses", "anthropic"}

Request(dialect, provider, said, grouped, limit) ==
    [dialect |-> dialect, provider |-> provider, said |-> said, grouped |-> grouped, limit |-> limit,
     options |-> IF dialect = "anthropic" THEN {"max_tokens"} ELSE {},
     tools |-> <<>>, toolChoice |-> "absent", stream |-> TRUE, native |-> FALSE,
     trouble |-> "none"]

\* What is said grows turn by turn; DeepSeek gets shorter conversations.
Conversations ==
    {Request(dialect, provider, <<>>, grouped,
             IF provider = "deepseek" \/ (dialect = "responses" /\ grouped) THEN 2 ELSE MaxTurns) :
       dialect \in Dialects, provider \in Providers, grouped \in BOOLEAN}

Simple(dialect, provider) == Request(dialect, provider, <<Turn("user", <<Ask>>, NoId)>>, TRUE, 1)

Options ==
    [chat |-> {"max_tokens", "max_completion_tokens", "temperature", "top_k", "stop", "logprobs",
               "top_logprobs", "stream_options", "parallel_tool_calls", "reasoning_effort",
               "response_format", "codex.effort", "codex.format", "codex.service_tier",
               "service_tier", "prompt_cache_key", "user", "verbosity"},
     responses |-> R!ResponsesFields,
     anthropic |-> A!AnthropicFields]

WithOptions ==
    {[Simple(dialect, provider) EXCEPT !.options = @ \cup extra, !.stream = stream, !.trouble = trouble] :
       <<dialect, provider, extra, stream, trouble>> \in
         UNION {{dialect} \X Providers \X {{a, b} : a, b \in Options[dialect]} \X BOOLEAN
                  \X {"none", "tier not offered"} : dialect \in Dialects}}

Tool(name, kind, strict, deferred) ==
    [name |-> name, kind |-> kind, strict |-> strict, deferred |-> deferred]
ToolSets ==
    {<<>>, <<Tool("f", "function", FALSE, FALSE)>>, <<Tool("f", "function", TRUE, FALSE)>>,
     <<Tool("f", "function", FALSE, FALSE), Tool("f", "function", FALSE, FALSE)>>,
     <<Tool("f", "function", FALSE, FALSE), Tool("g", "function", FALSE, FALSE)>>}
ResponsesToolSets == ToolSets \cup {<<Tool("f", "custom", FALSE, FALSE)>>, <<Tool("f", "function", FALSE, TRUE)>>}

WithTools ==
    {[Simple(dialect, provider) EXCEPT !.tools = tools, !.toolChoice = choice] :
       dialect \in Dialects, provider \in Providers, tools \in ResponsesToolSets,
       choice \in {"absent", "none", "auto", "required", "named"}}

Troubles ==
    {"unauthorized", "too large", "invalid json", "unknown model", "unknown provider",
     "no capability", "no adapter", "no credential", "no entitlement"}
WithTrouble ==
    {[Simple(dialect, provider) EXCEPT !.trouble = trouble, !.native = native] :
       dialect \in Dialects \cup {"count_tokens"}, provider \in Providers,
       trouble \in Troubles \cup {"none"}, native \in BOOLEAN}

AllRequests ==
    Conversations \cup WithOptions \cup {r \in WithTools : r.dialect = "responses" \/ r.tools \in ToolSets}
      \cup {r \in WithTrouble : r.native => r.dialect = "responses" /\ r.provider = "codex"}
=============================================================================
