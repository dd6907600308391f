-------------------------- MODULE MCStreamExchange --------------------------
EXTENDS StreamExchange

MCMessages == {<<"text">>, <<"call">>, <<"text", "call">>, <<"call", "text">>,
               <<"call", "call">>, <<"text", "text">>, <<"custom">>, <<"custom", "call">>}
MCLateMessages == {<<"text", "call">>}
MCTextWays == {{"deltas"}, {"whole"}, {"item"}, {"deltas", "whole", "item"}}
MCCallWays == {{"item"}, {"added", "deltas"}, {"added", "deltas", "item"},
               {"added", "whole"}, {"added", "deltas", "whole", "item"}}

Ending(type, usage, class) == <<[Blank EXCEPT !.type = type, !.usage = usage, !.class = class]>>
MCEndings == {Ending("response.completed", "complete", ""), Ending("response.completed", "partial", ""),
              Ending("response.failed", "absent", "rate_limit_exceeded"),
              Ending("error", "absent", "rate_limit_exceeded"),
              Ending("response.incomplete", "absent", "upstream_response_incomplete"), <<>>}

ChatChunk(choices, usage) == [Blank EXCEPT !.type = "chunk", !.choices = choices, !.usage = usage]
DoneMark == [Blank EXCEPT !.type = "[DONE]"]
MCChatStreams ==
    {<<ChatChunk("delta", "absent"), ChatChunk("none", "complete"), DoneMark>>,
     <<ChatChunk("delta", "absent"), ChatChunk("delta", "absent")>>,
     <<ChatChunk("none", "absent"), DoneMark>>, <<DoneMark>>,
     <<ChatChunk("delta", "absent"), ChatChunk("bad call", "absent"), DoneMark>>,
     <<ChatChunk("bad logprobs", "complete")>>, <<ChatChunk("delta", "partial")>>,
     <<ChatChunk("delta", "absent"), [Blank EXCEPT !.type = "error", !.class = "rate_limit_exceeded"]>>,
     <<[Blank EXCEPT !.type = "error", !.class = "upstream_stream_error"], DoneMark>>}

MCStrays ==
    {[Blank EXCEPT !.type = "invalid"], [Blank EXCEPT !.type = "tool_event"], DoneMark,
     Event("response.function_call_arguments.delta", "none", ItemId(1), NoId, <<>>),
     Event("response.function_call_arguments.done", "none", ItemId(1), NoId, <<13>>),
     Event("response.output_item.added", "function_call", ItemId(1), CallId(9), <<>>),
     Event("response.output_item.done", "function_call", NoId, CallId(1), <<14>>),
     Event("response.output_item.done", "user message", NoId, NoId, <<15>>),
     Event("response.output_item.done", "tool_search_call", ItemId(5), CallId(5), <<>>),
     Event("response.output_item.done", "web_search_call", NoId, NoId, <<>>),
     Event("response.custom_tool_call_input.delta", "none", NoId, CallId(1), <<16>>)}
=============================================================================
