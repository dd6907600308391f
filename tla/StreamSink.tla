----------------------------- MODULE StreamSink -----------------------------
(***************************************************************************)
(* What the three stream adapters share: the upstream's events still to    *)
(* come, the summary of the attempt, the chunks a handler has yet to       *)
(* write, the client, and the document the route writes when no byte of a  *)
(* stream was sent.  A handler writes its chunks one by one; the client    *)
(* may be gone at each of them, and nothing is read before all are out.    *)
(***************************************************************************)
EXTENDS Joining, Integers, FiniteSets, SequencesExt

CONSTANT MaxEvents      \* a.maxStreamEvents()

VARIABLES
    adapter,    \* which adapter serves the request: Adapters
    rest,       \* the upstream's events still to come
    reader,     \* "connecting", "reading", "failing", "ended"
    summary,    \* ChatStreamSummary
    pending,    \* chunks of the current event still to be written
    client,     \* what reached the client, in order
    sink,       \* streamSink.started
    answer      \* the document written in place of a stream, or "none"

sinkVars == <<adapter, rest, reader, summary, pending, client, sink, answer>>

Adapters == {"codex", "chat", "native"}

NoSummary == [Started |-> FALSE, Done |-> FALSE, ErrorClass |-> "",
              CompletionStatus |-> "completed", NormalizedErrorSent |-> FALSE,
              PreStreamError |-> FALSE, ChunkCount |-> 0, Usage |-> FALSE]

\* A failure of the connection, by the adapter that reads it.
ReadFaults == {"eof", "timeout", "cancelled", "network", "line_too_long"}
ReadClass(fault) ==
    CASE fault = "eof" -> "upstream_stream_invalid"
      [] fault = "timeout" -> "upstream_timeout"
      [] fault = "cancelled" -> "client_disconnected"
      [] fault = "network" -> "upstream_network_error"
      [] fault = "line_too_long" ->
             IF adapter = "chat" THEN "upstream_stream_too_large" ELSE "upstream_invalid_response"

\* Mutant: an error without a status of its own passes for a completion.
StatusOfDefault(class) ==
    IF class \in {"client_disconnected", "canceled", "upstream_timeout"} THEN class ELSE "completed"

\* streamStatusForError
StatusOf(class) ==
    CASE class \in {"client_disconnected", "canceled", "upstream_timeout"} -> class
      [] class = "upstream_stream_too_large" -> "too_large"
      [] class = "upstream_event_limit" -> "event_limit"
      [] class \in {"upstream_http_error", "upstream_stream_error", "upstream_network_error"} ->
             "upstream_error"
      [] OTHER -> "upstream_invalid"

\* classifyTransportError: no answer at all.
TransportClasses == {"upstream_timeout", "client_disconnected", "upstream_network_error"}

\* A status outside of 2xx. The Codex adapters tell a refused bearer from the rest, and
\* fail in their own ways on the body that comes with it.
HTTPRefusals ==
    IF adapter = "chat" THEN {"upstream_http_error"}
    ELSE {"upstream_http_error", "upstream_auth_failed", "upstream_body_too_large",
          "upstream_network_error"}

\* resolveCodexResponsesModel: the chat adapter of Codex looks the model up before it
\* composes the request.
LookupRefusals ==
    IF adapter # "codex" THEN {}
    ELSE TransportClasses \cup {"upstream_http_error", "rate_limit_exceeded",
                                "upstream_body_too_large", "upstream_invalid_response"}

LookupUnauthorized == IF adapter = "codex" THEN {"model_discovery_auth_failed"} ELSE {}

\* The summaries of a request that no stream answers: class and completion status.
Refusals == {<<c, StatusOf(c)>> : c \in TransportClasses \cup LookupRefusals}
                \cup (HTTPRefusals \cup LookupUnauthorized) \X {"upstream_error"}

Fails(class, status) ==
    /\ reader' = "failing"
    /\ summary' = [summary EXCEPT !.ErrorClass = class, !.CompletionStatus = status]

Connect ==
    /\ reader = "connecting"
    /\ \/ reader' = "reading" /\ UNCHANGED summary
       \/ \E refusal \in Refusals :
             /\ reader' = "failing"
             /\ summary' = [summary EXCEPT !.ErrorClass = refusal[1], !.CompletionStatus = refusal[2],
                                           !.PreStreamError = TRUE]
    /\ UNCHANGED <<adapter, rest, pending, client, sink, answer>>

Continues == reader' = reader /\ summary' = summary
Writes(chunks) == pending' = chunks

Chunk(kind, index, text) == [kind |-> kind, index |-> index, text |-> text]
Normal == {"role", "text", "call", "args", "finish", "usage", "chunk", "block"}

\* summary after a chunk has reached the sink.
Written(s, kind) ==
    CASE kind \in Normal -> [s EXCEPT !.Started = TRUE, !.ChunkCount = @ + 1]
      [] kind = "done" -> [s EXCEPT !.Done = TRUE]
      [] kind = "error" -> [s EXCEPT !.NormalizedErrorSent = TRUE]

Write ==
    /\ pending # <<>>
    /\ sink' = TRUE
    /\ \/ /\ client' = Append(client, Head(pending))
          /\ pending' = Tail(pending)
          /\ summary' = Written(summary, Head(pending).kind)
          /\ reader' = IF Head(pending).kind = "done" THEN "ended" ELSE reader
       \/ /\ pending' = <<>>
          /\ summary' = [summary EXCEPT !.ErrorClass = "client_disconnected",
                                        !.CompletionStatus = "client_disconnected"]
          /\ reader' = "failing"
          /\ UNCHANGED client
    /\ UNCHANGED <<adapter, rest, answer>>

\* The adapter returns with an error: the one event an adapter that composes
\* its stream adds, then the marks of the summary and the route's document.
OwesErrorEventEarly ==                          \* mutant: before anything was sent
    /\ adapter = "codex" /\ summary.ErrorClass # "client_disconnected"
    /\ ~summary.NormalizedErrorSent /\ ~summary.Done

OwesErrorEvent ==
    /\ adapter = "codex" /\ summary.Started
    /\ summary.ErrorClass # "client_disconnected"
    /\ ~summary.NormalizedErrorSent /\ ~summary.Done

AddErrorEvent ==
    /\ reader = "failing" /\ pending = <<>> /\ OwesErrorEvent
    /\ Writes(<<Chunk("error", 0, <<>>)>>)
    /\ UNCHANGED <<adapter, rest, reader, summary, client, sink, answer>>

\* The marks every adapter leaves on the summary of a failed stream.
Marked == [summary EXCEPT
             !.CompletionStatus = IF @ = "completed" THEN StatusOf(summary.ErrorClass) ELSE @,
             !.PreStreamError = @ \/ ~summary.Started]

Return ==
    /\ reader = "failing" /\ pending = <<>> /\ ~OwesErrorEvent
    /\ reader' = "ended"
    /\ summary' = Marked
    /\ answer' = IF sink THEN "none" ELSE "error document"
    /\ UNCHANGED <<adapter, rest, pending, client, sink>>

\* The loop of a reader: nothing left to write and no end reached.
Reads == reader = "reading" /\ pending = <<>> /\ ~summary.Done

\* The connection fails, ends early or is given up between two events.
ReadFault ==
    /\ Reads
    /\ \E fault \in ReadFaults :
          /\ fault = "eof" => rest = <<>>
          /\ Fails(ReadClass(fault), StatusOf(ReadClass(fault)))
    /\ UNCHANGED <<adapter, rest, pending, client, sink, answer>>
=============================================================================
