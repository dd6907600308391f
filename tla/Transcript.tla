------------------------------ MODULE Transcript ------------------------------
(***************************************************************************)
(* The words of a conversation as the three dialects and the upstreams     *)
(* write it: contents, chat messages, and the input items of Codex.  A     *)
(* text is a sequence of pieces; the line breaks that join pieces are      *)
(* layout.  An image is a piece of its own.                                *)
(***************************************************************************)
EXTENDS Joining, Integers, SequencesExt, FiniteSets

CONSTANTS NoId,         \* the empty string as the id of a call
          Pieces,       \* what texts are made of
          Images        \* the pieces that are images

String(parts) == [form |-> "string", parts |-> parts]
Array(parts) == [form |-> "array", parts |-> parts]
Null == [form |-> "null", parts |-> <<>>]

HasImage(parts) == \E i \in DOMAIN parts : parts[i] \in Images

\* openai.Message: calls are the ids of its tool_calls.
Message(role, content, calls, id) ==
    [role |-> role, content |-> content, calls |-> calls, id |-> id]

\* codexResponseItem, and a raw item of a Responses request: "omitted" is
\* a text that is empty and left out of the document (omitempty).
Item(type, role, parts, id) ==
    [type |-> type, role |-> role, parts |-> parts, id |-> id, omitted |-> FALSE]
Marshalled(item) == [item EXCEPT !.omitted = item.type # "function_call" /\ item.parts = <<>>]

\* A sequence cut before each of these places, of which the first is one.
EndFrom(seq, cuts, i) ==
    CHOOSE j \in i .. Len(seq) :
      (j = Len(seq) \/ j + 1 \in cuts) /\ \A k \in (i + 1) .. j : k \notin cuts
Cut(seq, cuts) ==
    Flatten([i \in DOMAIN seq |->
               IF i \in cuts THEN <<SubSeq(seq, i, EndFrom(seq, cuts, i))>> ELSE <<>>])

\* The place in items of the first call with that id, 0 for none.
CallPlaces(items, id) ==
    {i \in DOMAIN items : items[i].type = "function_call" /\ items[i].id = id}
OutputPlaces(items, id) ==
    {i \in DOMAIN items : items[i].type = "function_call_output" /\ items[i].id = id}
=============================================================================
