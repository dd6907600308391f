-------------------------- MODULE MCCredentialPool --------------------------
(* Small instances of CredentialPool for TLC. *)
EXTENDS CredentialPool

\* Two handlers of one token contend for an OAuth route with two accounts.  The first
\* carries an affinity key and streams, the second asks for a completed answer.  What a
\* native stream does, the first does as well: the native loop only lacks the retry
\* after discovery.
MCPair      == {"r1", "r2"}
MCTwo       == <<"a", "b">>
MCPairRoute == [r \in MCPair |-> "codex"]
MCPairToken == [r \in MCPair |-> "t"]
MCPairKind  == [r \in MCPair |-> IF r = "r1" THEN "stream" ELSE "complete"]
MCPairHash  == [r \in MCPair |-> IF r = "r1" THEN 1 ELSE 0]
MCReplies   == {"ok", "auth401", "discovery401", "quota", "unavailable", "fatal"}
MCWholePool == {Credentials}
=============================================================================
