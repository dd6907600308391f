---------------------------- MODULE StreamRelay -----------------------------
(***************************************************************************)
(* The two adapters that pass an upstream stream on: chat completions,     *)
(* chunk by chunk (http_stream.go), and native Responses, block by block   *)
(* (codex_responses_relay.go).                                             *)
(***************************************************************************)
EXTENDS StreamSink

VARIABLE events     \* codexNativeResponsesState.events

\* A choice must carry something the gateway passes on; calls and
\* probabilities are passed on whole or not at all.
SupportedChoice(chunk) == chunk.choices # "unsupported"
ValidToolCalls(chunk) == chunk.choices # "bad call"
ValidLogprobs(chunk) == chunk.choices # "bad logprobs"
ValidUsage(chunk) == chunk.usage # "partial"

\* NormalizeStreamChunk: an object of the right kind with choices, or with
\* complete usage alone.
Normalizes(chunk) ==
    /\ chunk.object = "chat.completion.chunk"
    /\ chunk.choices # "missing"
    /\ chunk.choices = "none" => chunk.usage = "complete"
    /\ ValidUsage(chunk) /\ SupportedChoice(chunk)
    /\ ValidToolCalls(chunk) /\ ValidLogprobs(chunk)

IsStreamError(e) == e.type = "error"

\* handleStreamEvent of http_stream.go
RelayChunk(e) ==
    /\ adapter = "chat"
    /\ UNCHANGED events
    /\ CASE e.type = "[DONE]" -> Continues /\ Writes(<<Chunk("done", 0, <<>>)>>)
         [] IsStreamError(e) ->
                /\ Fails(e.class, "upstream_error")
                /\ Writes(IF summary.Started THEN <<Chunk("error", 0, <<>>)>> ELSE <<>>)
         [] e.type \notin {"[DONE]", "error"} /\ (e.type = "invalid" \/ ~Normalizes(e)) ->
                Fails("upstream_stream_invalid", "upstream_invalid") /\ Writes(<<>>)
         [] OTHER ->
                IF summary.ChunkCount >= MaxEvents
                THEN Fails("upstream_event_limit", "event_limit") /\ Writes(<<>>)
                ELSE /\ reader' = reader
                     /\ summary' = [summary EXCEPT !.Usage = @ \/ e.usage = "complete"]
                     /\ Writes(<<Chunk("chunk", 0, <<>>)>>)

Failures == {"response.failed", "error", "response.incomplete"}

\* handleCodexNativeResponsesEvent: the upstream's own failure is passed on
\* before the adapter gives up; an unreadable event is not.
RelayBlock(e) ==
    /\ adapter = "native"
    /\ events' = events + 1
    /\ CASE events' > MaxEvents -> Fails("upstream_event_limit", "event_limit") /\ Writes(<<>>)
         [] events' <= MaxEvents /\ e.type \in {"invalid", "[DONE]"} ->
                Fails("upstream_stream_invalid", "upstream_invalid") /\ Writes(<<>>)
         [] events' <= MaxEvents /\ e.type \in Failures ->
                Fails(e.class, "upstream_error") /\ Writes(<<Chunk("block", 0, <<>>)>>)
         [] events' <= MaxEvents /\ e.type = "response.completed" ->
                /\ reader' = reader
                /\ summary' = [summary EXCEPT !.Done = TRUE, !.CompletionStatus = "completed",
                                              !.Usage = @ \/ e.usage = "complete"]
                /\ Writes(<<Chunk("block", 0, <<>>)>>)
         [] OTHER -> Continues /\ Writes(<<Chunk("block", 0, <<>>)>>)

\* A native stream ends after the block that carries its completion.
BlockEnds ==
    /\ adapter = "native" /\ reader = "reading" /\ pending = <<>> /\ summary.Done
    /\ reader' = "ended"
    /\ UNCHANGED <<adapter, rest, summary, pending, client, sink, answer, events>>
=============================================================================
