----------------------------- MODULE CodexStream ----------------------------
(***************************************************************************)
(* The reader that turns the event stream of Codex Responses into chat     *)
(* completion chunks while it runs (codex_responses_stream.go).            *)
(***************************************************************************)
EXTENDS StreamSink

CONSTANTS NoId,             \* the empty string as an identifier
          MaxAggregate,     \* a.maxCodexAggregateBytes(), in pieces of text
          IncludeUsage      \* the client asked for stream_options.include_usage

VARIABLE state      \* codexStreamState

NewState == [wroteRole |-> FALSE, sawDelta |-> FALSE, sawToolCall |-> FALSE,
             outputTextDone |-> <<>>, outputItemDone |-> <<>>,
             toolCalls |-> <<>>, events |-> 0]

\* state.codexToolCall(key): places count from 1, the index the client sees
\* from 0.  A call that is not tracked was written whole.
Tracked(key) ==
    {i \in DOMAIN state.toolCalls :
        key # NoId /\ state.toolCalls[i].key = key /\ state.toolCalls[i].tracked}
PlaceOf(key) == CHOOSE i \in Tracked(key) : TRUE
Call(key) == state.toolCalls[PlaceOf(key)]

NewCall(key, id, tracked) ==
    [key |-> key, id |-> id, arguments |-> <<>>, finalized |-> FALSE, tracked |-> tracked]

AggregateBytes(s) ==
    Len(s.outputTextDone) + Len(s.outputItemDone)
      + FoldSeq(LAMBDA call, total : total + IF call.tracked THEN Len(call.arguments) ELSE 0,
                0, s.toolCalls)

\* Mutant: the finished arguments are sent whole.
SuffixWhole(text, written) == text
Suffix(text, written) == SubSeq(text, Len(written) + 1, Len(text))
Role == IF state.wroteRole THEN <<>> ELSE <<Chunk("role", 0, <<>>)>>
ArgumentsChunk(place, text) ==
    IF text = <<>> THEN <<>> ELSE <<Chunk("args", place - 1, text)>>

\* Events are not read after the limit, and what is kept is bounded.
Keeps(s) ==
    IF AggregateBytes(s) > MaxAggregate THEN Fails("upstream_stream_too_large", "too_large")
    ELSE Continues

Becomes(s, chunks) ==
    /\ state' = [s EXCEPT !.events = @ + 1]
    /\ Writes(chunks)
    /\ Keeps(s)

Rejects(class, chunks) ==
    /\ state' = [state EXCEPT !.events = @ + 1]
    /\ Writes(chunks)
    /\ Fails(class, "upstream_invalid")

Ignores == Becomes(state, <<>>)

\* writeCodexToolCallArgumentsByIndex: the client is told what is kept.
Extends(s, place, text) == [s EXCEPT !.toolCalls[place].arguments = @ \o text]

TextDelta(e) ==
    IF e.text = <<>> THEN Ignores
    ELSE Becomes([state EXCEPT !.wroteRole = TRUE, !.sawDelta = TRUE],
                 Role \o <<Chunk("text", 0, e.text)>>)

TextDone(e) == Becomes([state EXCEPT !.outputTextDone = @ \o e.text], <<>>)

\* writeCodexToolCallStartChunk
CallAdded(e) ==
    LET opened == [state EXCEPT !.wroteRole = TRUE, !.sawToolCall = TRUE]
    IN  CASE e.id = NoId -> Rejects("upstream_stream_invalid", Role)
          [] e.id # NoId /\ Tracked(e.key) = {} ->
                 Becomes([opened EXCEPT !.toolCalls = Append(@, NewCall(e.key, e.id, TRUE))],
                         Append(Role, Chunk("call", Len(state.toolCalls), <<>>)))
          [] e.id # NoId /\ Tracked(e.key) # {} ->
                 IF Call(e.key).id # e.id \/ Call(e.key).finalized
                 THEN Rejects("upstream_invalid_response", Role)
                 ELSE Becomes(opened, Role)

ArgumentsDelta(e) ==
    CASE Tracked(e.key) = {} -> Rejects("upstream_invalid_response", <<>>)
      [] Tracked(e.key) # {} /\ e.text = <<>> -> Ignores
      [] Tracked(e.key) # {} /\ e.text # <<>> ->
             Becomes([Extends(state, PlaceOf(e.key), e.text)
                        EXCEPT !.wroteRole = TRUE, !.sawToolCall = TRUE],
                     Role \o ArgumentsChunk(PlaceOf(e.key), e.text))

\* The rest of the arguments is sent and the call is closed.
Completes(place, text, role) ==
    LET written == state.toolCalls[place].arguments
        more == IF IsPrefix(written, text) THEN Suffix(text, written) ELSE <<>>
    IN  Becomes([Extends(state, place, more)
                   EXCEPT !.toolCalls[place].finalized = TRUE,
                          !.wroteRole = TRUE, !.sawToolCall = TRUE],
                role \o ArgumentsChunk(place, more))

\* writeCodexToolCallArgumentsDoneChunk
ArgumentsDone(e) ==
    CASE Tracked(e.key) = {} -> Rejects("upstream_invalid_response", <<>>)
      [] Tracked(e.key) # {} /\ e.text = <<>> -> Ignores
      [] Tracked(e.key) # {} /\ e.text # <<>> ->
             IF IsPrefix(Call(e.key).arguments, e.text)
             THEN Completes(PlaceOf(e.key), e.text, Role)
             ELSE Rejects("upstream_invalid_response", Role)

\* writeCodexToolCallChunk: a call not announced is written whole.
CallDone(e) ==
    CASE e.id = NoId -> Rejects("upstream_stream_invalid", Role)
      [] e.id # NoId /\ Tracked(e.key) = {} ->
             Becomes([state EXCEPT !.wroteRole = TRUE, !.sawToolCall = TRUE,
                        !.toolCalls = Append(@, [NewCall(e.key, e.id, FALSE)
                                                   EXCEPT !.arguments = e.text])],
                     Append(Role, Chunk("call", Len(state.toolCalls), e.text)))
      [] e.id # NoId /\ Tracked(e.key) # {} ->
             IF Call(e.key).finalized THEN Rejects("upstream_invalid_response", Role)
             ELSE Completes(PlaceOf(e.key), e.text, Role)

ItemDone(e) ==
    CASE e.item = "function_call" -> CallDone(e)
      [] e.item \in {"reasoning", "web_search_call"} -> Ignores
      [] e.item = "message" -> Becomes([state EXCEPT !.outputItemDone = @ \o e.text], <<>>)
      [] OTHER -> Rejects("upstream_invalid_response", <<>>)

ItemAdded(e) ==
    CASE e.item = "function_call" -> CallAdded(e)
      [] e.item \in {"message", "reasoning", "web_search_call"} -> Ignores
      [] OTHER -> Rejects("upstream_invalid_response", <<>>)

\* The text kept back is sent only if nothing was streamed.
KeptText ==
    CASE state.sawDelta \/ state.sawToolCall -> <<>>
      [] ~(state.sawDelta \/ state.sawToolCall) /\ state.outputTextDone # <<>> -> state.outputTextDone
      [] OTHER -> state.outputItemDone

\* writeCodexFinishChunk, writeCodexUsageChunk and the end of the stream
FinishChunks(usage) ==
    <<Chunk("finish", 0, <<>>)>>
      \o (IF IncludeUsage /\ usage THEN <<Chunk("usage", 0, <<>>)>> ELSE <<>>)
      \o <<Chunk("done", 0, <<>>)>>

Completion(e, kept) ==
    IF e.usage = "partial" THEN Rejects("upstream_stream_invalid", <<>>)
    ELSE /\ state' = [state EXCEPT !.events = @ + 1, !.wroteRole = @ \/ kept # <<>>]
         /\ reader' = reader
         /\ summary' = [summary EXCEPT !.Usage = e.usage = "complete"]
         /\ Writes((IF kept = <<>> THEN <<>> ELSE Append(Role, Chunk("text", 0, kept)))
                     \o FinishChunks(e.usage = "complete"))

\* handleCodexStreamEvent, under the limit of readCodexStream
StreamEvent(e) ==
    /\ adapter = "codex"
    /\ IF state.events >= MaxEvents
       THEN /\ Fails("upstream_event_limit", "event_limit")
            /\ Writes(<<>>)
            /\ UNCHANGED state
       ELSE CASE e.type = "invalid" -> Rejects("upstream_stream_invalid", <<>>)
              [] e.type = "tool_event" -> Rejects("upstream_invalid_response", <<>>)
              [] e.type = "response.output_text.delta" -> TextDelta(e)
              [] e.type = "response.output_text.done" -> TextDone(e)
              [] e.type = "response.output_item.added" -> ItemAdded(e)
              [] e.type = "response.function_call_arguments.delta" -> ArgumentsDelta(e)
              [] e.type = "response.function_call_arguments.done" -> ArgumentsDone(e)
              [] e.type = "response.output_item.done" -> ItemDone(e)
              [] e.type = "response.completed" -> Completion(e, KeptText)
              [] e.type \in {"response.failed", "error", "response.incomplete"} ->
                     /\ state' = [state EXCEPT !.events = @ + 1]
                     /\ Writes(<<>>)
                     /\ Fails(e.class, "upstream_error")
              [] OTHER -> Ignores
=============================================================================
