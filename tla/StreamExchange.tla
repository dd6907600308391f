--------------------------- MODULE StreamExchange ---------------------------
(***************************************************************************)
(* One streamed request: the upstream's events, the adapter that reads     *)
(* them and the client.  Beside the streaming reader of Codex runs the     *)
(* collecting one, on the same events: what one client gets piece by piece *)
(* the other gets at once.  The upstream is external: it sends every item  *)
(* of a kind in the same way, and at most MaxFaults of its events are      *)
(* lost, repeated or out of place.                                         *)
(***************************************************************************)
EXTENDS StreamRelay, CodexStream

CONSTANTS Messages,     \* sequences of items: "text", "call", "custom"
          TextWays,     \* how text is sent: sets of "deltas", "whole", "item"
          CallWays,     \* how a call is sent: "added", "deltas", "whole", "item"
          Endings,      \* last events of a stream of Codex Responses, or none
          ChatStreams,  \* streams of chat completion chunks
          Strays,       \* events out of place
          MaxFaults

VARIABLES message, faults, native, parse, outcome

vars == <<sinkVars, events, state, message, faults, native, parse, outcome>>

Collector == INSTANCE CodexCollect

Blank == [type |-> "other", item |-> "none", key |-> NoId, id |-> NoId, text |-> <<>>,
          usage |-> "absent", class |-> "", object |-> "chat.completion.chunk", choices |-> "delta"]
Event(type, item, key, id, text) ==
    [Blank EXCEPT !.type = type, !.item = item, !.key = key, !.id = id, !.text = text]

Pieces(i) == <<10 * i + 1, 10 * i + 2>>
ItemId(i) == 2 * i
CallId(i) == 2 * i + 1

When(way, ways, evs) == IF way \in ways THEN evs ELSE <<>>

TextEvents(i, ways) ==
    When("deltas", ways, [p \in 1..2 |-> Event("response.output_text.delta", "none", NoId, NoId,
                                               <<Pieces(i)[p]>>)])
      \o When("whole", ways, <<Event("response.output_text.done", "none", NoId, NoId, Pieces(i))>>)
      \o When("item", ways, <<Event("response.output_item.done", "message", NoId, NoId, Pieces(i))>>)

\* A call is announced, its arguments follow, and it is finished.
CallEvents(i, ways, item, delta, done) ==
    When("added", ways, <<Event("response.output_item.added", item, ItemId(i), CallId(i), <<>>)>>)
      \o When("deltas", ways, [p \in 1..2 |-> Event(delta, "none", ItemId(i), NoId,
                                                    <<Pieces(i)[p]>>)])
      \o When("whole", ways, <<Event(done, "none", ItemId(i), NoId, Pieces(i))>>)
      \o When("item", ways, <<Event("response.output_item.done", item, ItemId(i), CallId(i), Pieces(i))>>)

EventsOf(m, i, text, call) ==
    CASE m[i] = "text" -> TextEvents(i, text)
      [] m[i] = "call" -> CallEvents(i, call, "function_call",
                                     "response.function_call_arguments.delta",
                                     "response.function_call_arguments.done")
      [] m[i] = "custom" -> CallEvents(i, call, "custom_tool_call",
                                       "response.custom_tool_call_input.delta",
                                       "response.custom_tool_call_input.done")

\* An item has text, or is a call whose arguments come in full; they come in pieces
\* or as a whole only once the call was announced.
ASSUME CodexAssumption ==
    /\ NoId \notin Nat \ {0}
    /\ \A items \in Messages : items \in Seq({"text", "call", "custom"})
    /\ \A ways \in TextWays : ways # {} /\ ways \subseteq {"deltas", "whole", "item"}
    /\ \A ways \in CallWays :
         /\ ways \cap {"deltas", "whole", "item"} # {}
         /\ ways \cap {"deltas", "whole"} # {} => "added" \in ways
    /\ \A ending \in Endings :
         ending = <<>> \/ /\ ending = <<ending[1]>>
                          /\ ending[1].type \in {"response.completed", "error", "response.failed",
                                                 "response.incomplete"}

NoMessage == [items |-> <<>>, text |-> {}, call |-> {}, ending |-> <<>>]

Has(m, kind) == \E i \in DOMAIN m.items : m.items[i] = kind

Stream(m) ==
    Flatten([i \in DOMAIN m.items |-> EventsOf(m.items, i, m.text, m.call)]) \o m.ending

Init ==
    /\ adapter \in Adapters
    /\ \/ /\ adapter = "chat"
          /\ message = NoMessage
          /\ rest \in ChatStreams
       \/ /\ adapter # "chat"
          /\ message \in {m \in [items : Messages, text : TextWays \cup {{}}, call : CallWays \cup {{}},
                                 ending : Endings] :
                            /\ m.text = {} <=> ~Has(m, "text")
                            /\ m.call = {} <=> ~(Has(m, "call") \/ Has(m, "custom"))}
          /\ rest = Stream(message)
    /\ native \in {FALSE, adapter = "codex"}
    /\ reader = "connecting" /\ summary = NoSummary
    /\ pending = <<>> /\ client = <<>> /\ sink = FALSE /\ answer = "none"
    /\ events = 0 /\ state = NewState /\ faults = 0
    /\ parse = Collector!NewParse
    /\ outcome = IF adapter = "codex" THEN "reading" ELSE "none"

Streamed == UNCHANGED <<events, state>>
Collected == UNCHANGED <<native, parse, outcome>>

\* An event reaches every reader that still reads.
Reaches(e) ==
    /\ reader \in {"reading", "ended"} /\ pending = <<>>
    /\ Reads \/ outcome = "reading"
    /\ IF Reads
       THEN \/ (RelayChunk(e) \/ RelayBlock(e)) /\ UNCHANGED state
            \/ StreamEvent(e) /\ UNCHANGED events
       ELSE UNCHANGED <<reader, summary, pending, state, events>>
    /\ IF outcome = "reading" THEN Collector!CollectEvent(e) ELSE Collected
    /\ UNCHANGED <<adapter, client, sink, answer, message>>

Deliver ==
    /\ rest # <<>> /\ Reaches(Head(rest))
    /\ rest' = Tail(rest) /\ UNCHANGED faults

MayFail == faults < MaxFaults /\ faults' = faults + 1 /\ rest # <<>>

Repeat == MayFail /\ Reaches(Head(rest)) /\ UNCHANGED rest
Stray == MayFail /\ adapter # "chat" /\ UNCHANGED rest /\ \E e \in Strays : Reaches(e)
Lose ==
    /\ MayFail /\ reader = "reading" /\ pending = <<>>
    /\ rest' = Tail(rest)
    /\ UNCHANGED <<adapter, reader, summary, pending, client, sink, answer, message>>
    /\ Streamed /\ Collected

\* A connection that fails, and a client that leaves, do so for both readers.
Server ==
    /\ \/ Connect \/ Write \/ ReadFault
       \/ AddErrorEvent \/ Return
    /\ IF reader # "failing" /\ reader' = "failing" /\ outcome = "reading"
       THEN \/ reader = "connecting" /\ Collector!Refused(summary'.ErrorClass)
            \/ reader # "connecting" /\ Collector!CollectFault(summary'.ErrorClass)
       ELSE Collected
    /\ UNCHANGED <<message, faults>> /\ Streamed

Relayed == BlockEnds /\ Collected /\ UNCHANGED <<state, message, faults>>

CollectorFails ==
    /\ reader = "ended" /\ rest = <<>>
    /\ Collector!CollectFault("upstream_stream_invalid")
    /\ UNCHANGED <<sinkVars, message, faults>> /\ Streamed

Next == Deliver \/ Repeat \/ Stray \/ Lose \/ Server \/ Relayed \/ CollectorFails

Spec == Init /\ [][Next]_vars
-----------------------------------------------------------------------------
(* What the client has, put together from the chunks it received. *)

TextIn(chunks) ==
    Flatten([i \in DOMAIN chunks |-> IF chunks[i].kind = "text" THEN chunks[i].text ELSE <<>>])
CallsIn(chunks) ==
    Flatten([i \in DOMAIN chunks |-> IF chunks[i].kind = "call" THEN <<chunks[i].index>> ELSE <<>>])
ArgumentsIn(chunks, index) ==
    Flatten([i \in DOMAIN chunks |->
               IF chunks[i].kind \in {"call", "args"} /\ chunks[i].index = index
               THEN chunks[i].text ELSE <<>>])
ClientText == TextIn(client)
ClientCalls == [n \in DOMAIN CallsIn(client) |-> ArgumentsIn(client, CallsIn(client)[n])]

Sent(kind) ==
    Flatten([i \in DOMAIN message.items |->
               IF message.items[i] = kind THEN <<Pieces(i)>> ELSE <<>>])
SentText == Flatten(Sent("text"))

LastKind == IF client = <<>> THEN "nothing" ELSE client[Len(client)].kind

\* A stream of Codex that ends with [DONE] has delivered every call with its
\* arguments in order, and the text, unless the text was kept back and a call
\* came between (docs/plans/016 says otherwise: see LateTextDelivered).
StreamedExactly ==
    (adapter = "codex" /\ faults = 0 /\ summary.Done) =>
        /\ ClientCalls = Sent("call")
        /\ ("deltas" \in message.text \/ ~Has(message, "call")) => ClientText = SentText

\* The answer collected from an undisturbed stream is the message: text once,
\* calls and custom calls in order with their whole arguments.
CollectedExactly ==
    (faults = 0 /\ outcome = "completed") =>
        /\ Collector!FinalText = SentText
        /\ [n \in DOMAIN parse.toolCalls |-> parse.toolCalls[n].text] = Sent("call")
        /\ LET items == Collector!CustomItems(parse)
           IN  [n \in DOMAIN items |-> items[n].text] =
                   IF "item" \in message.call THEN Sent("custom") ELSE <<>>

\* The metadata says "completed" of exactly the streams whose end the client
\* has, and a summary that allows another credential has sent nothing. Of every
\* failure a client that is still there is told: by the document if nothing was
\* sent, by the error event if a stream composed here had begun.
CompletedMeansDelivered ==
    reader = "ended" =>
        /\ (summary.CompletionStatus = "completed") <=>
               (\/ LastKind = "done"
                \/ /\ adapter = "native" /\ summary.Done
                   /\ summary.ErrorClass # "client_disconnected")
        /\ summary.PreStreamError => client = <<>>
        /\ ~summary.Done /\ summary.ErrorClass # "client_disconnected" =>
               /\ client = <<>> => answer = "error document"
               /\ (adapter = "codex" /\ client # <<>>) => LastKind = "error"

\* No event of an undisturbed stream is taken for an invalid one, except the
\* second end of a call that was ended by its arguments and by its item.
TwiceEnded == {"whole", "item"} \subseteq message.call
HonestStep == faults' = 0 /\ rest' # rest /\ adapter = "codex" /\ Head(rest).usage # "partial"
WithinBounds == parse'.events < MaxEvents /\ Collector!Aggregate(parse') <= MaxAggregate
HonestEventsAccepted ==
    [][(HonestStep /\ ~Has(message, "custom")) =>
           /\ (outcome = "reading" /\ WithinBounds) => outcome' # "upstream_invalid_response"
           /\ (reader = "reading" /\ ~TwiceEnded) => summary'.CompletionStatus # "upstream_invalid"]_vars

\* Text that was not sent in deltas reaches the client when the stream ends.
LateTextDelivered ==
    (adapter = "codex" /\ faults = 0 /\ summary.Done) => ClientText = SentText

Phase ==
    CASE answer # "none" -> "refused"
      [] answer = "none" /\ LastKind = "done" -> "done"
      [] answer = "none" /\ LastKind = "error" -> "failed"
      [] answer = "none" /\ LastKind \notin {"done", "error"} /\ reader = "ended" ->
             IF adapter = "native" /\ summary.Done /\ summary.ErrorClass = "" THEN "done" ELSE "cut"
      [] answer = "none" /\ reader # "ended" /\ LastKind \in {"finish", "usage"} -> "finished"
      [] answer = "none" /\ reader # "ended" /\ LastKind = "nothing" -> "waiting"
      [] OTHER -> "open"

\* Every adapter keeps the promise of ClientStream.
Promise == INSTANCE ClientStream WITH phase <- Phase, composed <- (adapter = "codex")
KeepsPromise == Promise!Spec
=============================================================================
