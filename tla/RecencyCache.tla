---------------------------- MODULE RecencyCache ----------------------------
(***************************************************************************)
(* What the memory of last listings promises its caller: it holds at most  *)
(* one listing for an identifier, answers with what was put last, never    *)
(* with one that is past its time, and when there is no room for another   *)
(* the least recently used ones go, no more of them than needed.           *)
(*                                                                         *)
(* Slots, sequence numbers and byte counters are the business of           *)
(* EphemeralModelCache, which implements this specification.               *)
(***************************************************************************)
EXTENDS Naturals, FiniteSets

CONSTANTS
    Ids,        \* what listings are kept for
    Size,       \* [listings -> bytes they take]
    Lifetime,   \* ticks a listing may be answered with
    MaxEntries, \* limit of listings held
    MaxBytes,   \* limit of their bytes
    None        \* no listing, no answer

Listings == DOMAIN Size

VARIABLES
    held,   \* the listing held for each identifier, or None
    left,   \* ticks it may still be answered with
    older,  \* pairs of held identifiers, the less recently used first
    answer  \* what the latest call returned

vars == <<held, left, older, answer>>

Held == {i \in Ids : held[i] # None}
Live == {i \in Held : left[i] > 0}
\* Their bytes, counted one by one.
Bytes(S) == Cardinality(UNION {{i} \X (1 .. Size[held[i]]) : i \in S})

\* Keep S; i becomes the most recently used.
Use(i, S) == older' = {e \in older : e[1] \in S \ {i} /\ e[2] \in S \ {i}} \cup ((S \ {i}) \X {i})

\* Those of S that stay when there must be room for a listing of the given size: the
\* most recently used ones, as many as possible.
Staying(S, size) ==
    LET recent == {T \in SUBSET S : \A i \in T, j \in S \ T : <<j, i>> \in older}
        fits   == {T \in recent : Cardinality(T) < MaxEntries /\ Bytes(T) + size <= MaxBytes}
    IN  UNION fits

Put(i, l) ==
    LET S == Staying(Live \ {i}, Size[l])
    IN  /\ Size[l] <= MaxBytes
        /\ held' = [j \in Ids |-> IF j = i THEN l ELSE IF j \in S THEN held[j] ELSE None]
        /\ left' = [j \in Ids |-> IF j = i THEN Lifetime ELSE IF j \in S THEN left[j] ELSE 0]
        /\ Use(i, S \cup {i})
        /\ answer' = None

\* A listing that may not be kept at all also ends what was held for its identifier.
Refuse(i) ==
    /\ held' = [held EXCEPT ![i] = None]
    /\ left' = [left EXCEPT ![i] = 0]
    /\ older' = {e \in older : e[1] # i /\ e[2] # i}
    /\ answer' = None

Get(i) ==
    /\ held' = [j \in Ids |-> IF j \in Live THEN held[j] ELSE None]
    /\ UNCHANGED left
    /\ IF i \in Live THEN Use(i, Live)
                     ELSE older' = {e \in older : e[1] \in Live /\ e[2] \in Live}
    /\ answer' = IF i \in Live THEN held[i] ELSE None

Tick ==
    /\ left' = [i \in Ids |-> IF left[i] > 0 THEN left[i] - 1 ELSE 0]
    /\ answer' = None
    /\ UNCHANGED <<held, older>>

Init ==
    /\ held = [i \in Ids |-> None]
    /\ left = [i \in Ids |-> 0]
    /\ older = {}
    /\ answer = None

Next ==
    \/ \E i \in Ids : Get(i) \/ Refuse(i) \/ \E l \in Listings : Put(i, l)
    \/ Tick

Spec == Init /\ [][Next]_vars
=============================================================================
