---------------------------- MODULE ClientStream ----------------------------
(***************************************************************************)
(* What the client of a streamed answer is promised, whichever provider    *)
(* adapter serves it: chunks, then one end.  The end is [DONE], one error  *)
(* event, an error document in place of a stream, or a cut.  An answer     *)
(* composed here rather than relayed ("composed") is finished before it is *)
(* done, and nothing is added to it afterwards.                            *)
(***************************************************************************)
VARIABLES phase, composed

clientVars == <<phase, composed>>

Closed == {"done", "failed", "refused", "cut"}

Init == phase = "waiting" /\ composed \in BOOLEAN

\* A chunk of the answer: role, text, a call, or a relayed event.
Chunk == phase \in {"waiting", "open"} /\ phase' = "open"

\* The chunk with the finish reason.
Finish == composed /\ phase \in {"waiting", "open"} /\ phase' = "finished"

Done ==
    /\ phase = IF composed THEN "finished" ELSE phase
    /\ phase \notin Closed
    /\ phase' = "done"

\* The error event can only follow a chunk, the error document only nothing.
Fail == phase = "open" /\ phase' = "failed"
Refuse == phase = "waiting" /\ phase' = "refused"
Cut == phase \notin Closed /\ phase' = "cut"

Next ==
    /\ Chunk \/ Finish \/ Done \/ Fail \/ Refuse \/ Cut
    /\ UNCHANGED composed

Spec == Init /\ [][Next]_clientVars
=============================================================================
