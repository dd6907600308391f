------------------------------ MODULE PoolUsage ------------------------------
(* The quota figures a native stream shows in its response headers: a read of  *)
(* the accounts the request may use, shared by requests with the same          *)
(* accounts, refreshes stale snapshots within a deadline beside the inference; *)
(* the first event of the stream waits for it. An operator's refresh of all    *)
(* accounts runs at the same time. Of a snapshot's two windows one is modelled,*)
(* the other goes the same way; its percentage is the observation it is from.  *)
EXTENDS Naturals

CONSTANTS
    Accounts,
    Readers,        \* native requests
    Requested,      \* Requested[r]: the accounts the route of r may use
    Lengths,        \* window lengths an account may report
    Threshold,      \* SubscriptionUsageFreshnessThreshold
    Delays,         \* how far ahead of an answer its window may reset
    MaxLag,         \* how long after its observation a snapshot may be stored
    MaxTime,
    None

\* What is assumed of the constants.
PoolAssumption ==
    /\ Requested \in [Readers -> SUBSET Accounts]
    /\ Lengths \subseteq Nat \ {0} /\ Delays \subseteq Nat
    /\ Threshold \in Nat /\ MaxTime \in Nat

Keys  == {Requested[r] : r \in Readers}
Times == 0 .. MaxTime

VARIABLES
    now,
    row,        \* subscription_usage_snapshots: the "codex" row of each account
    reading,    \* keys with a read under way: subscriptionPoolUsage.reads
    overdue,    \* reads whose deadline has passed
    todo,       \* accounts each read has yet to fetch
    failed,     \* accounts each read could not refresh
    waiting,    \* readers waiting for their read
    told        \* what each reader was told and has not written, or None

refreshes == <<todo, failed>>
readers   == <<waiting, told>>
vars      == <<now, row, reading, overdue, refreshes, readers>>

-----------------------------------------------------------------------------
(* Snapshots *)

\* A reset counts only if it lies after the observation.
ResetSince(s, t) == s.reset # None /\ s.reset > s.observed /\ s.reset <= t

\* subscriptionUsageRow.
Stale(s, t) == s.failed \/ t - s.observed > Threshold

NeedsRefresh(s, t) == s = None \/ Stale(s, t) \/ ResetSince(s, t)

\* UpsertSubscriptionUsageSnapshot: a failed fetch marks the row and keeps its figures.
Upserted(old, new) ==
    IF new.failed /\ old # None THEN [old EXCEPT !.failed = TRUE] ELSE new

\* The windows a payload may report of an account: none, one that names no reset, or
\* one that resets soon.
Windows(t) == {[length |-> 0, reset |-> None]}
                \cup [length : Lengths, reset : {t + d : d \in Delays} \cup {None}]

\* FetchCodexSubscriptionUsage: figures, or one of many failures without any.
Answers(t) ==
    {[observed |-> t, length |-> w.length, reset |-> w.reset, failed |-> FALSE] : w \in Windows(t)}
      \cup {[observed |-> t, length |-> 0, reset |-> None, failed |-> TRUE]}

-----------------------------------------------------------------------------
(* Reads *)

Idle(k) == k \notin reading

\* ReadPoolUsage: join the read of the same accounts or start one, which lists the
\* rows and picks those to refresh.
Read(r) ==
    LET k == Requested[r] IN
    /\ r \notin waiting /\ told[r] = None
    /\ waiting' = waiting \cup {r}
    /\ IF Idle(k)
       THEN /\ reading' = reading \cup {k}
            /\ todo' = [todo EXCEPT ![k] = {a \in k : NeedsRefresh(row[a], now)}]
       ELSE UNCHANGED <<reading, todo>>
    /\ UNCHANGED <<now, row, overdue, failed, told>>

\* No bearer for the account, or the store fails, or the deadline has passed: nothing
\* is stored.
Skip(k, a) ==
    /\ a \in todo[k]
    /\ todo' = [todo EXCEPT ![k] = @ \ {a}]
    /\ failed' = [failed EXCEPT ![k] = @ \cup {a}]
    /\ UNCHANGED <<now, row, reading, overdue, readers>>

\* refreshCredentialUsage: FetchCodexSubscriptionUsage, with its one retry after an
\* auth failure. The time of observation is taken when the answer is in, and the
\* snapshot stored up to MaxLag later, whatever was stored in the meantime.
Fetched(a, s) ==
    /\ s.observed <= now /\ now - s.observed <= MaxLag
    /\ row' = [row EXCEPT ![a] = Upserted(@, s)]

Refresh(k, a) ==
    /\ a \in todo[k] /\ k \notin overdue
    /\ \E t \in Times : \E s \in Answers(t) :
         /\ Fetched(a, s)
         /\ failed' = IF s.failed THEN [failed EXCEPT ![k] = @ \cup {a}] ELSE failed
    /\ todo' = [todo EXCEPT ![k] = @ \ {a}]
    /\ UNCHANGED <<now, reading, overdue, readers>>

\* RefreshSubscriptionUsage fetches every account or one, in turn, and passes over those
\* it has no bearer for; several may run, so any account may be fetched at any time.
RefreshSubscriptionUsage(a) ==
    /\ \E t \in Times : \E s \in Answers(t) : Fetched(a, s)
    /\ UNCHANGED <<now, reading, overdue, refreshes, readers>>

-----------------------------------------------------------------------------
(* What a read concludes from the rows *)

\* The accounts that count, each with the same window.
Contributors(k, lost) == {a \in k : row[a] # None /\ ~Stale(row[a], now) /\ a \notin lost}

Publishable(k, lost) ==
    /\ Contributors(k, lost) = k
    /\ \E n \in Lengths : \A a \in k : row[a].length = n

\* Mutant: a figure outlives the reset of its window.
HoldsUntilAged(s) == s.observed + Threshold
\* A figure holds for a minute after its observation, or until its window resets.
HoldsUntil(s) ==
    LET end == s.observed + Threshold IN
    IF s.reset # None /\ s.reset > s.observed /\ s.reset < end THEN s.reset ELSE end

Until(k) ==
    LET ends == {HoldsUntil(row[a]) : a \in k}
    IN  CHOOSE t \in ends : \A u \in ends : t <= u

Nothing == [until |-> 0, of |-> {}]

\* projectSubscriptionPool.
Projected(k) ==
    IF Publishable(k, failed[k])
    THEN [until |-> Until(k), of |-> {<<a, row[a]>> : a \in {b \in k : row[b] # None}}]
    ELSE Nothing

\* The read ends for all its readers at once, and leaves the map as it does.
Finish(k) ==
    /\ k \in reading /\ todo[k] = {}
    /\ reading' = reading \ {k}
    /\ overdue' = overdue \ {k}
    /\ failed' = [failed EXCEPT ![k] = {}]
    /\ LET usage == IF k \in overdue THEN Nothing ELSE Projected(k) IN
         told' = [r \in Readers |-> IF r \in waiting /\ Requested[r] = k THEN usage ELSE told[r]]
    /\ waiting' = {r \in waiting : Requested[r] # k}
    /\ UNCHANGED <<now, row, todo>>

Deadline(k) ==
    /\ k \in reading \ overdue
    /\ overdue' = overdue \cup {k}
    /\ UNCHANGED <<now, row, reading, refreshes, readers>>

-----------------------------------------------------------------------------
(* The native stream *)

\* The client is gone: its reader stops waiting, the read goes on for the others.
Abandon(r) ==
    /\ r \in waiting
    /\ waiting' = waiting \ {r}
    /\ told' = [told EXCEPT ![r] = Nothing]
    /\ UNCHANGED <<now, row, reading, overdue, refreshes>>

\* What goes into the headers of the stream of r at this moment.
Header(r) == IF told[r] # None /\ now < told[r].until THEN told[r].of ELSE {}

\* nativeResponsesSink.start writes Header(r) at the first event, which may come at any
\* time. The next request of the route may follow.
Write(r) ==
    /\ told[r] # None
    /\ told' = [told EXCEPT ![r] = None]
    /\ UNCHANGED <<now, row, reading, overdue, refreshes, waiting>>

Tick ==
    /\ now < MaxTime
    /\ now' = now + 1
    /\ UNCHANGED <<row, reading, overdue, refreshes, readers>>

-----------------------------------------------------------------------------
Init ==
    /\ now = 0
    /\ row = [a \in Accounts |-> None]
    /\ reading = {} /\ overdue = {} /\ waiting = {}
    /\ todo = [k \in Keys |-> {}]
    /\ failed = [k \in Keys |-> {}]
    /\ told = [r \in Readers |-> None]

Next ==
    \/ \E r \in Readers : Read(r) \/ Abandon(r) \/ Write(r)
    \/ \E k \in Keys : Finish(k) \/ Deadline(k)
    \/ \E k \in Keys, a \in Accounts : Refresh(k, a) \/ Skip(k, a)
    \/ \E a \in Accounts : RefreshSubscriptionUsage(a)
    \/ Tick

Spec == Init /\ [][Next]_vars

\* Whenever a stream starts, its pool header speaks of every account of its route and of
\* no other, each by an answer of the upstream that is at most a minute old and whose
\* window has not been reset since, all windows being of one length; whatever fetches,
\* of this read or another's, replaced, spoiled or failed to refresh rows.
HeaderTellsTruth ==
    \A r \in Readers : Header(r) # {} =>
        /\ {p[1] : p \in Header(r)} = Requested[r]
        /\ \A p, q \in Header(r) : p[2].length = q[2].length
        /\ \A p \in Header(r) :
             /\ ~p[2].failed
             /\ now - p[2].observed <= Threshold
             /\ ~ResetSince(p[2], now)
=============================================================================
