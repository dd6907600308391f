---------------------------- MODULE CodexCollect ----------------------------
(***************************************************************************)
(* The reader that collects the event stream of Codex Responses into one   *)
(* answer (codex_responses_parse.go), for clients that do not stream.      *)
(***************************************************************************)
EXTENDS Joining, Integers, FiniteSets, SequencesExt

CONSTANTS NoId,             \* the empty string as an identifier
          MaxEvents,        \* a.maxStreamEvents()
          MaxAggregate      \* a.maxCodexAggregateBytes(), in pieces of text

VARIABLES
    native,     \* state.allowNativeOutputItems
    parse,      \* codexResponseParseState
    outcome     \* "reading", "completed", or the class of the error

\* Maps are sequences of entries in the order of their creation.
NewParse == [deltaText |-> <<>>, textDoneText |-> <<>>, itemDoneText |-> <<>>,
             sawItemDoneText |-> FALSE, calls |-> <<>>, toolCalls |-> <<>>,
             customs |-> <<>>, aliases |-> {}, items |-> <<>>, events |-> 0]

Entry(calls, key) == {i \in DOMAIN calls : calls[i].key = key}
At(calls, key) == CHOOSE i \in Entry(calls, key) : TRUE

LengthOf(calls) == FoldSeq(LAMBDA call, total : total + Len(call.text), 0, calls)
Aggregate(p) ==
    Len(p.deltaText) + Len(p.textDoneText) + Len(p.itemDoneText)
      + LengthOf(p.calls) + LengthOf(p.customs) + LengthOf(p.toolCalls)

Keeps(p) ==
    /\ parse' = [p EXCEPT !.events = @ + 1]
    /\ outcome' = IF Aggregate(p) > MaxAggregate THEN "upstream_invalid_response" ELSE outcome

Rejects(class) ==
    /\ parse' = [parse EXCEPT !.events = @ + 1]
    /\ outcome' = class

Invalid == Rejects("upstream_invalid_response")
Ignores == Keeps(parse)

\* addCodexFunctionCall
WithCall(p, e) ==
    IF Entry(p.calls, e.key) # {} THEN p
    ELSE [p EXCEPT !.calls = Append(@, [key |-> e.key, id |-> e.id, text |-> <<>>, emitted |-> FALSE])]

\* Mutant: a call announced before is refused when it is finished.
ConflictsAlways(e) == e.id = NoId \/ Entry(parse.calls, e.key) # {}

Conflicts(e) ==
    \/ e.id = NoId
    \/ \E i \in Entry(parse.calls, e.key) : parse.calls[i].id # e.id

\* emitCodexFunctionCall
Answered(call) == [id |-> call.id, text |-> call.text]
Emit(p, i) ==
    [p EXCEPT !.calls[i].emitted = TRUE,
              !.toolCalls = Append(@, Answered(p.calls[i])),
              !.items = Append(@, "function_call")]

CallAdded(e) == IF Conflicts(e) THEN Invalid ELSE Keeps(WithCall(parse, e))

\* The arguments of the finished item replace what the deltas gave.
CallDone(e) ==
    IF Conflicts(e) \/ \E i \in Entry(parse.calls, e.key) : parse.calls[i].emitted THEN Invalid
    ELSE LET p == WithCall(parse, e)
             i == At(p.calls, e.key)
         IN  Keeps(Emit([p EXCEPT !.calls[i].text = e.text], i))

\* appendCodexFunctionCallArguments
ArgumentsDelta(e) ==
    IF e.text = <<>> \/ Entry(parse.calls, e.key) = {} THEN Invalid
    ELSE Keeps([parse EXCEPT !.calls[At(parse.calls, e.key)].text = @ \o e.text])

\* finishCodexFunctionCallArguments
ArgumentsDone(e) ==
    IF \/ e.text = <<>> \/ Entry(parse.calls, e.key) = {}
       \/ ~IsPrefix(parse.calls[At(parse.calls, e.key)].text, e.text)
    THEN Invalid
    ELSE Keeps([parse EXCEPT !.calls[At(parse.calls, e.key)].text = e.text])

\* Custom tool calls are found by call, by item, or by the item's alias.
AliasOf(item) == {pair[2] : pair \in {a \in parse.aliases : a[1] = item}}
AddKey(e) ==
    CASE e.key # NoId /\ AliasOf(e.key) # {} -> CHOOSE k \in AliasOf(e.key) : TRUE
      [] e.key # NoId /\ AliasOf(e.key) = {} /\ Entry(parse.customs, e.key) # {} -> e.key
      [] OTHER -> e.id
InputKey(e) ==
    CASE e.id # NoId -> e.id
      [] e.id = NoId /\ AliasOf(e.key) # {} -> CHOOSE k \in AliasOf(e.key) : TRUE
      [] OTHER -> e.key

\* The input of a custom call grows to a text it is a prefix of.
Grows(written, text) == text = <<>> \/ IsPrefix(written, text)
Grown(written, text) == IF text = <<>> THEN written ELSE text

Custom(key, id, named) ==
    [key |-> key, id |-> id, named |-> named, text |-> <<>>, emitted |-> FALSE]
Aliased(aliases, item, key) ==
    IF item = NoId THEN aliases ELSE {a \in aliases : a[1] # item} \cup {<<item, key>>}
WithCustom(key, e, named) ==
    IF Entry(parse.customs, key) # {} THEN parse
    ELSE [parse EXCEPT !.customs = Append(@, Custom(key, e.id, named)),
                       !.aliases = Aliased(@, e.key, key)]

\* addCodexCustomToolCall
AddsCustom(e, key) ==
    /\ e.id # NoId
    /\ \A i \in Entry(parse.customs, key) :
          parse.customs[i].id = e.id /\ Grows(parse.customs[i].text, e.text)
CustomAdded(e, key) ==
    LET p == WithCustom(key, e, TRUE)
        i == At(p.customs, key)
    IN  [p EXCEPT !.customs[i].named = TRUE,
                  !.customs[i].text = Grown(@, e.text),
                  !.aliases = Aliased(@, e.key, key)]

\* appendCodexCustomToolInput
CustomDelta(e, key) ==
    CASE e.text = <<>> -> Ignores
      [] e.text # <<>> /\ (key = NoId \/ (Entry(parse.customs, key) = {} /\ e.id = NoId)) -> Invalid
      [] OTHER ->
             LET p == WithCustom(key, e, FALSE)
             IN  Keeps([p EXCEPT !.customs[At(p.customs, key)].text = @ \o e.text])

\* finishCodexCustomToolInput
CustomInputDone(e, key) ==
    CASE e.text = <<>> -> Ignores
      [] e.text # <<>> /\ (key = NoId \/ (Entry(parse.customs, key) = {} /\ e.id = NoId)) -> Invalid
      [] OTHER ->
             LET p == WithCustom(key, e, FALSE)
                 i == At(p.customs, key)
             IN  IF Grows(p.customs[i].text, e.text)
                 THEN Keeps([p EXCEPT !.customs[i].text = e.text])
                 ELSE Invalid

\* finishCodexCustomToolCall
CustomDone(e, key) ==
    IF ~AddsCustom(e, key) \/ \E i \in Entry(parse.customs, key) : parse.customs[i].emitted
    THEN Invalid
    ELSE LET p == CustomAdded(e, key) IN Keeps([p EXCEPT !.customs[At(p.customs, key)].emitted = TRUE])

\* customToolItems
CustomItems(p) ==
    Only(p.customs, {i \in DOMAIN p.customs : p.customs[i].emitted /\ p.customs[i].named})

Hosted == {"tool_search_call", "web_search_call"}

ItemAdded(e) ==
    CASE e.item = "function_call" -> CallAdded(e)
      [] e.item = "custom_tool_call" ->
             IF AddsCustom(e, AddKey(e)) THEN Keeps(CustomAdded(e, AddKey(e))) ELSE Invalid
      [] e.item \in Hosted \cup {"message", "reasoning"} -> Ignores
      [] e.item = "missing" -> Invalid
      [] OTHER -> IF native THEN Ignores ELSE Invalid

\* addCodexToolSearchCall, addCodexWebSearchCall, addCodexRawOutputItem
KeepsItem(e, ok) ==
    IF ok THEN Keeps([parse EXCEPT !.items = Append(@, e.item)]) ELSE Invalid

ItemDone(e) ==
    CASE e.item = "function_call" -> CallDone(e)
      [] e.item = "custom_tool_call" -> CustomDone(e, AddKey(e))
      [] e.item = "tool_search_call" -> KeepsItem(e, e.id # NoId)
      [] e.item = "web_search_call" -> KeepsItem(e, e.key # NoId)
      [] e.item = "message" ->
             Keeps([parse EXCEPT !.itemDoneText = @ \o e.text, !.sawItemDoneText = TRUE])
      [] e.item \in {"reasoning", "user message"} -> Ignores
      [] OTHER -> KeepsItem(e, native /\ e.item # "missing")

\* flushCodexFunctionCalls, in the order the calls were first seen
Flushed ==
    LET late == Only(parse.calls, {i \in DOMAIN parse.calls : ~parse.calls[i].emitted})
    IN  [parse EXCEPT !.calls = [i \in DOMAIN @ |-> [@[i] EXCEPT !.emitted = TRUE]],
                      !.toolCalls = @ \o [i \in DOMAIN late |-> Answered(late[i])],
                      !.items = @ \o [i \in DOMAIN late |-> "function_call"]]

\* A completion without a response or with partial usage is invalid.
Completion(e) ==
    /\ parse' = [Flushed EXCEPT !.events = @ + 1]
    /\ outcome' = IF e.usage = "partial" \/ Aggregate(Flushed) > MaxAggregate
                  THEN "upstream_invalid_response" ELSE "completed"

\* Mutant: what the deltas gave is kept beside the finished text.
FinalTextJoined == parse.deltaText \o parse.itemDoneText \o parse.textDoneText

\* codexFinalText
FinalText ==
    CASE parse.sawItemDoneText -> parse.itemDoneText
      [] ~parse.sawItemDoneText /\ parse.textDoneText # <<>> -> parse.textDoneText
      [] OTHER -> parse.deltaText

\* completeCodexChat: no stream answers the request. Only the collecting reader gives
\* the status 429 a class of its own.
Refused(class) ==
    /\ outcome = "reading"
    /\ outcome' \in {class} \cup (IF class = "upstream_http_error" THEN {"rate_limit_exceeded"} ELSE {})
    /\ UNCHANGED <<native, parse>>

\* classifyCodexReadError
ReadErrorClass(class) ==
    IF class \in {"upstream_timeout", "upstream_network_error", "client_disconnected"}
    THEN class ELSE "upstream_invalid_response"

\* The connection ends early or fails.
CollectFault(class) ==
    /\ outcome = "reading"
    /\ outcome' = ReadErrorClass(class)
    /\ UNCHANGED <<native, parse>>

\* handleCodexEvent, under the limits of readCodexResponses
CollectEvent(e) ==
    /\ UNCHANGED native
    /\ IF parse.events >= MaxEvents THEN Invalid
       ELSE CASE e.type = "invalid" -> Invalid
              [] e.type = "tool_event" -> IF native THEN Ignores ELSE Invalid
              [] e.type = "response.output_text.delta" ->
                     Keeps([parse EXCEPT !.deltaText = @ \o e.text])
              [] e.type = "response.output_text.done" ->
                     Keeps([parse EXCEPT !.textDoneText = @ \o e.text])
              [] e.type = "response.output_item.added" -> ItemAdded(e)
              [] e.type = "response.function_call_arguments.delta" -> ArgumentsDelta(e)
              [] e.type = "response.function_call_arguments.done" -> ArgumentsDone(e)
              [] e.type = "response.custom_tool_call_input.delta" -> CustomDelta(e, InputKey(e))
              [] e.type = "response.custom_tool_call_input.done" -> CustomInputDone(e, InputKey(e))
              [] e.type = "response.output_item.done" -> ItemDone(e)
              [] e.type = "response.completed" -> Completion(e)
              [] e.type \in {"response.failed", "response.incomplete"} -> Rejects(e.class)
              [] OTHER -> Ignores
=============================================================================
