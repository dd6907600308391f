------------------------ MODULE EphemeralModelCache ------------------------
(***************************************************************************)
(* The memory of the last complete model listing of each Codex provider    *)
(* (internal/server/model_ephemeral_cache.go): an array of slots, a        *)
(* running number for recency that is wound back before it overflows, and  *)
(* a byte count kept beside the entries.  It implements RecencyCache.      *)
(*                                                                         *)
(* Only the catalog's one pass at a time calls it (ModelCatalog), so calls *)
(* do not overlap and the clock is read when a call begins.                *)
(***************************************************************************)
EXTENDS Naturals, FiniteSets, FiniteSetsExt

CONSTANTS
    Ids,         \* provider instances
    Size,        \* [listings -> bytes retained for them]
    Lifetime,    \* lastGoodCodexTTL, in ticks
    MaxEntries,  \* maxLastGoodCodexProviders
    MaxBytes,    \* the aggregate limit less the fixed storage
    MaxSequence, \* the largest running number
    None         \* an unused slot, no answer

\* What the constants have to be; DaemonParts assumes it.
EphemeralAssumption ==
    /\ MaxEntries \in Nat \ {0} /\ MaxSequence \in Nat /\ MaxSequence > MaxEntries
    /\ Size \in [DOMAIN Size -> Nat] /\ MaxBytes \in Nat /\ Lifetime \in Nat \ {0}
    /\ None \notin DOMAIN Size
    /\ None \notin [id : Ids, models : DOMAIN Size, lastUsed : Nat, left : Nat]

VARIABLES
    entries,       \* [slots -> entry or None]
    sequence,      \* the latest running number
    retainedBytes, \* bytes of all entries, as counted
    answer         \* what the latest call returned

vars == <<entries, sequence, retainedBytes, answer>>

Listings == DOMAIN Size
Slots == 1 .. MaxEntries

\* Several slots are changed in turn: the entries and the byte count between two changes.
memory == [entries |-> entries, bytes |-> retainedBytes]

Used(m) == {s \in Slots : m.entries[s] # None}
Find(m, i) == {s \in Used(m) : m.entries[s].id = i}
Expired(m) == {s \in Used(m) : m.entries[s].left = 0}

-----------------------------------------------------------------------------
(* Removal *)

\* removeEntryAtLocked: the count stops at zero.
Without(m, s) ==
    LET freed == Size[m.entries[s].models]
    IN  [entries |-> [m.entries EXCEPT ![s] = None],
         bytes   |-> IF freed > m.bytes THEN 0 ELSE m.bytes - freed]

\* Slot by slot: purgeExpiredLocked, removeEntryLocked.
WithoutAll(m, S) ==
    LET after[n \in 0 .. MaxEntries] ==
            IF n = 0 THEN m
            ELSE IF n \in S THEN Without(after[n - 1], n) ELSE after[n - 1]
    IN  after[MaxEntries]

Oldest(m) == CHOOSE s \in Used(m) :
                 \A t \in Used(m) : m.entries[s].lastUsed <= m.entries[t].lastUsed

HasRoom(m, size) == Cardinality(Used(m)) < MaxEntries /\ m.bytes + size <= MaxBytes

\* The loop of put: remove the oldest entry until there is room.
Evicted(m, size) ==
    LET after[n \in 0 .. MaxEntries] ==
            IF n = 0 THEN m
            ELSE IF HasRoom(after[n - 1], size) \/ Used(after[n - 1]) = {} THEN after[n - 1]
            ELSE Without(after[n - 1], Oldest(after[n - 1]))
    IN  after[MaxEntries]

-----------------------------------------------------------------------------
(* Recency *)

\* Mutant: the numbers are wound back in the order of the slots.
RankBySlot(m, s) == Cardinality({t \in Used(m) : t <= s})
Rank(m, s) == Cardinality({t \in Used(m) : m.entries[t].lastUsed <= m.entries[s].lastUsed})

\* nextSequenceLocked: at the largest number all entries are numbered anew.
Renumbered(m) ==
    IF sequence < MaxSequence THEN m
    ELSE [m EXCEPT !.entries = [s \in Slots |->
             IF s \in Used(m) THEN [m.entries[s] EXCEPT !.lastUsed = Rank(m, s)] ELSE None]]
NextSequence(m) == (IF sequence < MaxSequence THEN sequence ELSE Cardinality(Used(m))) + 1

Becomes(m) ==
    /\ entries' = m.entries
    /\ retainedBytes' = m.bytes

-----------------------------------------------------------------------------
(* Calls *)

\* A listing too large to be kept only ends what was kept before.
Refuse(i) ==
    /\ Becomes(WithoutAll(memory, Find(memory, i)))
    /\ answer' = None
    /\ UNCHANGED sequence

Put(i, l) ==
    LET without == WithoutAll(memory, Expired(memory) \cup Find(memory, i))
        room    == Evicted(without, Size[l])
        numbered == Renumbered(room)
        slot    == Min(Slots \ Used(room))
        entry   == [id |-> i, models |-> l, lastUsed |-> NextSequence(room), left |-> Lifetime]
    IN  /\ Size[l] <= MaxBytes
        /\ Becomes([entries |-> [numbered.entries EXCEPT ![slot] = entry],
                    bytes   |-> numbered.bytes + Size[l]])
        /\ sequence' = NextSequence(room)
        /\ answer' = None

Get(i) ==
    LET live == WithoutAll(memory, Expired(memory))
    IN  IF Find(live, i) = {}
        THEN /\ Becomes(live)
             /\ answer' = None
             /\ UNCHANGED sequence
        ELSE LET s == CHOOSE t \in Find(live, i) : TRUE
             IN  /\ Becomes([Renumbered(live) EXCEPT !.entries[s].lastUsed = NextSequence(live)])
                 /\ sequence' = NextSequence(live)
                 /\ answer' = live.entries[s].models

Tick ==
    /\ entries' = [s \in Slots |->
           IF entries[s] # None /\ entries[s].left > 0
           THEN [entries[s] EXCEPT !.left = @ - 1] ELSE entries[s]]
    /\ answer' = None
    /\ UNCHANGED <<sequence, retainedBytes>>

Init ==
    /\ entries = [s \in Slots |-> None]
    /\ sequence = 0
    /\ retainedBytes = 0
    /\ answer = None

Next ==
    \/ \E i \in Ids : Get(i) \/ Refuse(i) \/ \E l \in Listings : Put(i, l)
    \/ Tick

Spec == Init /\ [][Next]_vars

-----------------------------------------------------------------------------
(* Properties *)

\* What the cache promises: entries are slots by identifier, recency is the order of the
\* running numbers.
held == [i \in Ids |-> LET S == Find(memory, i)
                       IN  IF S = {} THEN None ELSE entries[CHOOSE s \in S : TRUE].models]
left == [i \in Ids |-> LET S == Find(memory, i)
                       IN  IF S = {} THEN 0 ELSE entries[CHOOSE s \in S : TRUE].left]
older == {<<entries[p[1]].id, entries[p[2]].id>> :
             p \in {q \in Used(memory) \X Used(memory) :
                       entries[q[1]].lastUsed < entries[q[2]].lastUsed}}

Recency == INSTANCE RecencyCache WITH held <- held, left <- left, older <- older, answer <- answer
=============================================================================
