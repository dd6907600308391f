------------------------------- MODULE Joining -------------------------------
(***************************************************************************)
(* Sequences put together of sequences, as the loops that append to a      *)
(* slice or to a buffer do.                                                *)
(***************************************************************************)
EXTENDS Integers, Sequences

\* The sequences one after the other.
Joined(seqs) ==
    LET upto[n \in 0 .. Len(seqs)] == IF n = 0 THEN <<>> ELSE upto[n - 1] \o seqs[n]
    IN  upto
Flatten(seqs) == Joined(seqs)[Len(seqs)]

\* What a sequence has at these places, in its order.
Only(seq, places) == Flatten([i \in DOMAIN seq |-> IF i \in places THEN <<seq[i]>> ELSE <<>>])
=============================================================================
