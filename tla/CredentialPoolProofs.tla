------------------------ MODULE CredentialPoolProofs ------------------------
(***************************************************************************)
(* What CredentialPool guarantees for every number of handlers, routes,    *)
(* tokens and credentials: the types, the accounting of the pressure       *)
(* tracker, the use of the whole pool, no attempt after the first byte of  *)
(* a response, truthful reports of the fallbacks, and a fair spread.       *)
(***************************************************************************)
EXTENDS CredentialPool, FiniteSetTheorems, TLAPS

\* A handler at work on an attempt, or about to fall back from one, has a current
\* credential; only a handler about to choose has a reason to fall back.
Engaged ==
    \A r \in Requests :
        /\ \/ pc[r] \in {"checking", "calling", "judging"}
           \/ pending[r] # "none"
           => current[r] \in Credentials
        /\ pc[r] # "choosing" => pending[r] = "none"

Typed == TypeOK /\ Engaged

LEMMA KeyType == ASSUME NEW r \in Requests, NEW c \in Credentials PROVE Key(r, c) \in Keys
BY RequestAssumption DEF Key, Keys

LEMMA ScopeType == ASSUME NEW r \in Requests PROVE Scope(r) \in Routes \X Tokens
BY RequestAssumption DEF Scope

\* Initially everything has its type.
LEMMA TypedInit == Init => Typed
<1> SUFFICES ASSUME Init PROVE Typed
    OBVIOUS
<1>1. TypeOK
    BY DEF Init, TypeOK
<1>2. Engaged
    BY DEF Init, Engaged
<1>3. QED
    BY <1>1, <1>2 DEF Typed

\* The end of an attempt, by whichever reply, keeps the types.
LEMMA TypedEndAttempt ==
    ASSUME Typed, NEW r \in Requests, NEW how \in Outcomes,
           pc[r] \in {"checking", "calling"}, EndAttempt(r, how)
    PROVE  Typed'
<1>1. Key(r, current[r]) \in Keys
    BY KeyType DEF Typed, Engaged
<1>2. inFlight' \in [Keys -> Nat]
    BY <1>1 DEF Typed, TypeOK, EndAttempt, Release
<1>3. TypeOK'
    BY <1>2 DEF Typed, TypeOK, EndAttempt, Goto, tally
<1>4. Engaged'
    BY DEF Typed, TypeOK, Engaged, EndAttempt, Goto, tally
<1>5. QED
    BY <1>3, <1>4 DEF Typed

\* Reserving a credential keeps the types.
LEMMA TypedReserve ==
    ASSUME Typed, NEW r \in Requests, Reserve(r)
    PROVE  Typed'
<1>1. PICK c \in Remaining(r), next \in Remaining(r) :
         /\ inFlight' = [inFlight EXCEPT ![Key(r, c)] = @ + 1]
         /\ cursor'   = IF r \in Sticky THEN cursor ELSE [cursor EXCEPT ![Scope(r)] = next]
         /\ used'     = [used EXCEPT ![r] = @ \cup {c}]
         /\ current'  = [current EXCEPT ![r] = c]
         /\ trail'    = [trail EXCEPT ![r] = WithFallback(r, c)]
    BY DEF Reserve
<1>2. c \in Credentials /\ next \in Credentials
    BY DEF Remaining, Typed, TypeOK
<1>3. inFlight' \in [Keys -> Nat]
    <2>1. Key(r, c) \in Keys
        BY <1>2, KeyType
    <2>2. QED
        BY <1>1, <2>1 DEF Typed, TypeOK
<1>4. cursor' \in [Routes \X Tokens -> Credentials \cup {None}]
    <2>1. Scope(r) \in Routes \X Tokens
        BY ScopeType
    <2>2. QED
        BY <1>1, <1>2, <2>1 DEF Typed, TypeOK
<1>5. trail' \in [Requests -> Seq(FallbackEvents)]
    <2>1. trail[r] \in Seq(FallbackEvents)
        BY DEF Typed, TypeOK
    <2>2. CASE pending[r] = "none"
        BY <1>1, <2>1, <2>2 DEF WithFallback, Typed, TypeOK
    <2>3. CASE pending[r] # "none"
        <3>1. [from |-> current[r], to |-> c, reason |-> pending[r]] \in FallbackEvents
            BY <1>2, <2>3 DEF Typed, TypeOK, Engaged, FallbackEvents
        <3>2. WithFallback(r, c) \in Seq(FallbackEvents)
            BY <2>1, <2>3, <3>1 DEF WithFallback
        <3>3. QED
            BY <1>1, <3>2 DEF Typed, TypeOK
    <2>4. QED
        BY <2>2, <2>3
<1>6. TypeOK'
    BY <1>1, <1>2, <1>3, <1>4, <1>5 DEF Typed, TypeOK, Reserve, CountAttempt, Goto
<1>7. Engaged'
    BY <1>1, <1>2 DEF Typed, TypeOK, Engaged, Reserve, Goto
<1>8. QED
    BY <1>6, <1>7 DEF Typed

\* Every step keeps the types.
LEMMA TypedNext == Typed /\ [Next]_vars => Typed'
<1> SUFFICES ASSUME Typed, [Next]_vars PROVE Typed'
    OBVIOUS
<1>1. ASSUME NEW r \in Requests, Plan(r) PROVE Typed'
    <2>1. plan' \in [Requests -> SUBSET Credentials]
        BY <1>1, PoolAssumption DEF Typed, TypeOK, Plan, Open
    <2>2. head' \in [Requests -> Credentials \cup {None}]
        BY <1>1, PoolAssumption DEF Typed, TypeOK, Plan
    <2>3. outcome' \in [Requests -> Outcomes \cup {"none"}]
        BY <1>1 DEF Typed, TypeOK, Plan, Outcomes
    <2>4. \E label \in {"choosing", "recording"} : pc' = [pc EXCEPT ![r] = label]
        BY <1>1 DEF Plan, Goto
    <2>5. UNCHANGED <<used, current, retryOf, started, pending, tally, shared>>
        BY <1>1 DEF Plan
    <2>6. TypeOK'
        BY <2>1, <2>2, <2>3, <2>4, <2>5 DEF Typed, TypeOK, shared, tally
    <2>7. Engaged'
        BY <1>1 DEF Typed, TypeOK, Engaged, Plan, Goto
    <2>8. QED
        BY <2>6, <2>7 DEF Typed
<1>2. ASSUME NEW r \in Requests, Reserve(r) PROVE Typed'
    BY <1>2, TypedReserve
<1>3. ASSUME NEW r \in Requests, FindEligible(r) PROVE Typed'
    BY <1>3 DEF Typed, TypeOK, Engaged, FindEligible, Goto, shared, tally
<1>4. ASSUME NEW r \in Requests, FindIneligible(r) PROVE Typed'
    BY <1>4, TypedEndAttempt DEF FindIneligible, Outcomes
<1>5. ASSUME NEW r \in Requests, Reply(r) PROVE Typed'
    BY <1>5, PoolAssumption, TypedEndAttempt DEF Reply, Outcomes
<1>6. ASSUME NEW r \in Requests, FirstByte(r) PROVE Typed'
    BY <1>6 DEF Typed, TypeOK, Engaged, FirstByte, shared, tally
<1>7. ASSUME NEW r \in Requests, RefreshFails(r) PROVE Typed'
    BY <1>7 DEF Typed, TypeOK, Engaged, RefreshFails, Outcomes, shared, tally
<1>8. ASSUME NEW r \in Requests, Reattempt(r) PROVE Typed'
    <2>1. Key(r, current[r]) \in Keys
        BY <1>8, KeyType DEF Typed, Engaged, Reattempt
    <2>2. inFlight' \in [Keys -> Nat]
        BY <1>8, <2>1 DEF Typed, TypeOK, Reattempt
    <2>3. retryOf' \in [Requests -> {"none", "auth401", "discovery401"}]
        BY <1>8 DEF Typed, TypeOK, Reattempt, Refreshable
    <2>4. TypeOK'
        BY <1>8, <2>2, <2>3 DEF Typed, TypeOK, Reattempt, CountAttempt, CountAuthRetry, Goto
    <2>5. Engaged'
        BY <1>8 DEF Typed, TypeOK, Engaged, Reattempt, Goto
    <2>6. QED
        BY <2>4, <2>5 DEF Typed
<1>9. ASSUME NEW r \in Requests, Settle(r) PROVE Typed'
    <2>1. current[r] \in Credentials
        BY <1>9 DEF Typed, Engaged, Settle
    <2>2. Verdict(r) \in Outcomes \cup {"none"}
        BY DEF Verdict, Outcomes, Typed, TypeOK
    <2>3. RetryReason(r, Verdict(r)) \in Reasons \cup {"none"}
        BY DEF RetryReason, Reasons
    <2>4. refusals' \in [Requests -> SUBSET Credentials]
        BY <1>9, <2>1 DEF Typed, TypeOK, Settle
    <2>5. TypeOK'
        BY <1>9, <2>2, <2>3, <2>4 DEF Typed, TypeOK, Settle, Goto, shared, tally
    <2>6. Engaged'
        BY <1>9, <2>1 DEF Typed, TypeOK, Engaged, Settle, Goto
    <2>7. QED
        BY <2>5, <2>6 DEF Typed
<1>10. ASSUME NEW r \in Requests, Record(r) PROVE Typed'
    <2>1. PICK written \in SUBSET refusals[r] :
            blocked' = blocked \cup {Key(r, c) : c \in written}
        BY <1>10 DEF Record
    <2>2. \A c \in written : Key(r, c) \in Keys
        BY KeyType DEF Typed, TypeOK
    <2>3. blocked' \in SUBSET Keys
        BY <2>1, <2>2 DEF Typed, TypeOK
    <2>4. trail' \in [Requests -> Seq(FallbackEvents)]
        BY <1>10 DEF Typed, TypeOK, Record
    <2>5. TypeOK'
        BY <1>10, <2>3, <2>4 DEF Typed, TypeOK, Record, Goto
    <2>6. Engaged'
        BY <1>10 DEF Typed, TypeOK, Engaged, Record, Goto
    <2>7. QED
        BY <2>5, <2>6 DEF Typed
<1>11. ASSUME NEW k \in Keys, Expire(k) PROVE Typed'
    BY <1>11 DEF Typed, TypeOK, Engaged, Expire, local, tally
<1>12. CASE UNCHANGED vars
    BY <1>12 DEF Typed, TypeOK, Engaged, vars, local, shared, tally
<1>13. QED
    BY <1>1, <1>2, <1>3, <1>4, <1>5, <1>6, <1>7, <1>8, <1>9, <1>10, <1>11, <1>12 DEF Next, Advance

\* The variables always have their types.
THEOREM TypeCorrect == Spec => []TypeOK
<1>1. Spec => []Typed
    BY TypedInit, TypedNext, PTL DEF Spec
<1>2. Typed => TypeOK
    BY DEF Typed
<1>3. QED
    BY <1>1, <1>2, PTL

-----------------------------------------------------------------------------
(* The tracker's accounting *)

\* A handler joins or leaves the holders of one key; the others' holders are the same.
LEMMA HoldersFinite == \A k : IsFiniteSet(Holders(k))
BY RequestsAssumption, FS_Subset DEF Holders

\* A handler that starts an attempt joins the holders of its key.
LEMMA Joins ==
    ASSUME Typed, PressureAccounting, NEW r \in Requests, NEW c \in Credentials,
           ~Holding(r), Holding(r)', current'[r] = c,
           \A q \in Requests \ {r} : pc'[q] = pc[q] /\ current'[q] = current[q],
           inFlight' = [inFlight EXCEPT ![Key(r, c)] = @ + 1]
    PROVE  PressureAccounting'
<1> SUFFICES ASSUME NEW k \in Keys PROVE inFlight'[k] = Cardinality(Holders(k)')
    BY DEF PressureAccounting
<1>1. inFlight[k] = Cardinality(Holders(k)) /\ IsFiniteSet(Holders(k))
    BY HoldersFinite DEF PressureAccounting
<1>2. inFlight \in [Keys -> Nat]
    BY DEF Typed, TypeOK
<1>3. CASE k = Key(r, c)
    <2>1. Holders(k)' = Holders(k) \cup {r} /\ r \notin Holders(k)
        BY <1>3 DEF Holders, Holding, Key
    <2>2. Cardinality(Holders(k)') = Cardinality(Holders(k)) + 1
        BY <1>1, <2>1, FS_AddElement
    <2>3. QED
        BY <1>1, <1>2, <1>3, <2>2
<1>4. CASE k # Key(r, c)
    <2>1. Holders(k)' = Holders(k)
        BY <1>4 DEF Holders, Holding, Key
    <2>2. QED
        BY <1>1, <1>2, <1>4, <2>1
<1>5. QED
    BY <1>3, <1>4

\* A handler whose attempt ends leaves the holders of its key.
LEMMA Leaves ==
    ASSUME Typed, PressureAccounting, NEW r \in Requests, Holding(r),
           NEW how \in Outcomes, EndAttempt(r, how)
    PROVE  PressureAccounting'
<1> SUFFICES ASSUME NEW k \in Keys PROVE inFlight'[k] = Cardinality(Holders(k)')
    BY DEF PressureAccounting
<1>1. inFlight[k] = Cardinality(Holders(k)) /\ IsFiniteSet(Holders(k))
    BY HoldersFinite DEF PressureAccounting
<1>2. inFlight \in [Keys -> Nat]
    BY DEF Typed, TypeOK
<1>3. \A q \in Requests : /\ current'[q] = current[q]
                          /\ pc'[q] = IF q = r THEN "judging" ELSE pc[q]
    BY DEF EndAttempt, Goto, Typed, TypeOK
<1>4. CASE k = Key(r, current[r])
    <2>1. Holders(k)' = Holders(k) \ {r} /\ r \in Holders(k)
        BY <1>3, <1>4 DEF Holders, Holding, Key
    <2>2. Cardinality(Holders(k)') = Cardinality(Holders(k)) - 1
        BY <1>1, <2>1, FS_RemoveElement
    <2>3. inFlight'[k] = IF inFlight[k] <= 1 THEN 0 ELSE inFlight[k] - 1
        BY <1>2, <1>4 DEF EndAttempt, Release
    <2>4. Cardinality(Holders(k)') \in Nat
        BY <1>1, <2>1, FS_RemoveElement, FS_CardinalityType
    <2>5. QED
        BY <1>1, <1>2, <2>2, <2>3, <2>4
<1>5. CASE k # Key(r, current[r])
    <2>1. Holders(k)' = Holders(k)
        BY <1>3, <1>5 DEF Holders, Holding, Key
    <2>2. inFlight'[k] = inFlight[k]
        BY <1>2, <1>5 DEF EndAttempt, Release
    <2>3. QED
        BY <1>1, <2>1, <2>2
<1>6. QED
    BY <1>4, <1>5

\* A step that moves no handler into or out of an attempt leaves the accounting alone.
LEMMA Stays ==
    ASSUME PressureAccounting, inFlight' = inFlight,
           \A q \in Requests : Holding(q)' = Holding(q) /\ (Holding(q) => current'[q] = current[q])
    PROVE  PressureAccounting'
<1>1. \A k \in Keys : Holders(k)' = Holders(k)
    BY DEF Holders, Key
<1>2. QED
    BY <1>1 DEF PressureAccounting

LEMMA AccountingInit == Init => PressureAccounting
<1> SUFFICES ASSUME Init, NEW k \in Keys PROVE inFlight[k] = Cardinality(Holders(k))
    BY DEF PressureAccounting
<1>1. Holders(k) = {}
    BY DEF Init, Holders, Holding
<1>2. QED
    BY <1>1, FS_EmptySet DEF Init

LEMMA AccountingNext == Typed /\ PressureAccounting /\ [Next]_vars => PressureAccounting'
<1> SUFFICES ASSUME Typed, PressureAccounting, [Next]_vars PROVE PressureAccounting'
    OBVIOUS
<1>1. ASSUME NEW r \in Requests, Plan(r) PROVE PressureAccounting'
    BY <1>1, Stays DEF Plan, Goto, Holding, shared, Typed, TypeOK
<1>2. ASSUME NEW r \in Requests, Reserve(r) PROVE PressureAccounting'
    <2>1. PICK c \in Remaining(r) :
            /\ inFlight' = [inFlight EXCEPT ![Key(r, c)] = @ + 1]
            /\ current'  = [current EXCEPT ![r] = c]
        BY <1>2 DEF Reserve
    <2>2. c \in Credentials
        BY DEF Remaining, Typed, TypeOK
    <2>3. ~Holding(r) /\ Holding(r)'
        BY <1>2 DEF Reserve, Goto, Holding, Typed, TypeOK
    <2>4. \A q \in Requests \ {r} : pc'[q] = pc[q] /\ current'[q] = current[q]
        BY <1>2, <2>1 DEF Reserve, Goto, Typed, TypeOK
    <2>5. current'[r] = c
        BY <2>1 DEF Typed, TypeOK
    <2>6. QED
        BY <2>1, <2>2, <2>3, <2>4, <2>5, Joins
<1>3. ASSUME NEW r \in Requests, FindEligible(r) PROVE PressureAccounting'
    BY <1>3, Stays DEF FindEligible, Goto, Holding, shared, Typed, TypeOK
<1>4. ASSUME NEW r \in Requests, FindIneligible(r) PROVE PressureAccounting'
    BY <1>4, Leaves DEF FindIneligible, Holding, Outcomes
<1>5. ASSUME NEW r \in Requests, Reply(r) PROVE PressureAccounting'
    BY <1>5, PoolAssumption, Leaves DEF Reply, Holding, Outcomes
<1>6. ASSUME NEW r \in Requests, FirstByte(r) PROVE PressureAccounting'
    BY <1>6, Stays DEF FirstByte, Holding, shared
<1>7. ASSUME NEW r \in Requests, RefreshFails(r) PROVE PressureAccounting'
    BY <1>7, Stays DEF RefreshFails, Holding, shared
<1>8. ASSUME NEW r \in Requests, Reattempt(r) PROVE PressureAccounting'
    <2>1. current[r] \in Credentials
        BY <1>8 DEF Typed, Engaged, Reattempt
    <2>2. ~Holding(r) /\ Holding(r)'
        BY <1>8 DEF Reattempt, Goto, Holding, Typed, TypeOK
    <2>3. \A q \in Requests \ {r} : pc'[q] = pc[q] /\ current'[q] = current[q]
        BY <1>8 DEF Reattempt, Goto, Typed, TypeOK
    <2>4. /\ inFlight' = [inFlight EXCEPT ![Key(r, current[r])] = @ + 1]
          /\ current'[r] = current[r]
        BY <1>8 DEF Reattempt
    <2>5. QED
        BY <2>1, <2>2, <2>3, <2>4, Joins
<1>9. ASSUME NEW r \in Requests, Settle(r) PROVE PressureAccounting'
    BY <1>9, Stays DEF Settle, Goto, Holding, shared, Typed, TypeOK
<1>10. ASSUME NEW r \in Requests, Record(r) PROVE PressureAccounting'
    BY <1>10, Stays DEF Record, Goto, Holding, Typed, TypeOK
<1>11. ASSUME NEW k \in Keys, Expire(k) PROVE PressureAccounting'
    BY <1>11, Stays DEF Expire, Holding, local
<1>12. CASE UNCHANGED vars
    BY <1>12, Stays DEF Holding, vars, local, shared
<1>13. QED
    BY <1>1, <1>2, <1>3, <1>4, <1>5, <1>6, <1>7, <1>8, <1>9, <1>10, <1>11, <1>12 DEF Next, Advance

\* The pressure tracker counts exactly the attempts under way, whatever the number of
\* handlers and however their reservations, auth retries and releases interleave.
THEOREM AccountingCorrect == Spec => []PressureAccounting
<1>1. Init => Typed /\ PressureAccounting
    BY TypedInit, AccountingInit
<1>2. Typed /\ PressureAccounting /\ [Next]_vars => (Typed /\ PressureAccounting)'
    BY TypedNext, AccountingNext
<1>3. Spec => [](Typed /\ PressureAccounting)
    BY <1>1, <1>2, PTL DEF Spec
<1>4. QED
    BY <1>3, PTL

-----------------------------------------------------------------------------
(* What a handler may do, and may not leave undone, before it answers *)

\* Once the header is out a handler is in its last call or past it, and cannot be about
\* to refresh its bearer.
Committed ==
    \A r \in Requests :
        started[r] => /\ pc[r] \in {"calling", "judging", "recording"}
                      /\ pc[r] = "judging" => outcome[r] \notin {"auth401", "discovery401"}

\* A handler only uses up its own plan, and starts with none of it used.
Consumed ==
    \A r \in Requests : /\ used[r] \subseteq plan[r]
                        /\ pc[r] = "idle" => used[r] = {}

LoopInv == Committed /\ Consumed /\ PoolExhaustedBeforeFailure

LEMMA LoopInit == Init => LoopInv
BY DEF Init, LoopInv, Committed, Consumed, PoolExhaustedBeforeFailure

\* The end of an attempt keeps the loop invariant when no 401 follows the first byte.
LEMMA LoopEndAttempt ==
    ASSUME Typed, LoopInv, NEW r \in Requests, NEW how \in Outcomes, EndAttempt(r, how),
           how \in {"auth401", "discovery401"} => ~started[r]
    PROVE  LoopInv'
BY DEF Typed, TypeOK, LoopInv, Committed, Consumed, PoolExhaustedBeforeFailure, EndAttempt,
       Goto, tally

LEMMA LoopNext == Typed /\ LoopInv /\ [Next]_vars => LoopInv'
<1> SUFFICES ASSUME Typed, LoopInv, [Next]_vars PROVE LoopInv'
    OBVIOUS
<1> USE DEF LoopInv, Committed, Consumed, PoolExhaustedBeforeFailure, Typed, TypeOK
<1>1. ASSUME NEW r \in Requests, Plan(r) PROVE LoopInv'
    <2>1. /\ pc[r] = "idle" /\ used' = used /\ started' = started
          /\ \A q \in Requests \ {r} : pc'[q] = pc[q] /\ outcome'[q] = outcome[q]
        BY <1>1 DEF Plan, Goto
    <2>2. \A q \in Requests \ {r} : plan'[q] = plan[q]
        BY <1>1 DEF Plan
    <2>3. \/ pc'[r] = "recording" /\ outcome'[r] = "pool_exhausted"
          \/ pc'[r] = "choosing"
        BY <1>1 DEF Plan, Goto
    <2>4. QED
        BY <2>1, <2>2, <2>3, ZenonT(40)
<1>2. ASSUME NEW r \in Requests, Reserve(r) PROVE LoopInv'
    <2>1. PICK c \in Remaining(r) : used' = [used EXCEPT ![r] = @ \cup {c}]
        BY <1>2 DEF Reserve
    <2>2. used'[r] \subseteq plan[r]
        BY <2>1 DEF Remaining
    <2>3. QED
        BY <1>2, <2>1, <2>2 DEF Reserve, Goto
<1>3. ASSUME NEW r \in Requests, FindEligible(r) PROVE LoopInv'
    BY <1>3 DEF FindEligible, Goto, shared, tally
<1>4. ASSUME NEW r \in Requests, FindIneligible(r) PROVE LoopInv'
    BY <1>4, LoopEndAttempt DEF FindIneligible, Outcomes
<1>5. ASSUME NEW r \in Requests, Reply(r) PROVE LoopInv'
    <2>1. PICK reply \in UpstreamReplies : Possible(r, reply) /\ EndAttempt(r, reply)
        BY <1>5 DEF Reply
    <2>2. reply \in Outcomes /\ (reply \in {"auth401", "discovery401"} => ~started[r])
        BY <2>1, PoolAssumption DEF Possible, Outcomes
    <2>3. QED
        BY <2>1, <2>2, LoopEndAttempt
<1>6. ASSUME NEW r \in Requests, FirstByte(r) PROVE LoopInv'
    BY <1>6 DEF FirstByte, shared, tally
<1>7. ASSUME NEW r \in Requests, RefreshFails(r) PROVE LoopInv'
    BY <1>7 DEF RefreshFails, shared, tally
<1>8. ASSUME NEW r \in Requests, Reattempt(r) PROVE LoopInv'
    BY <1>8 DEF Reattempt, Refreshable, Goto
<1>9. ASSUME NEW r \in Requests, Settle(r) PROVE LoopInv'
    <2>1. started[r] => RetryReason(r, Verdict(r)) = "none"
        BY DEF RetryReason
    <2>2. ~started[r] /\ Verdict(r) \in {"quota", "unavailable", "ineligible", "auth_failed"}
            => RetryReason(r, Verdict(r)) # "none"
        BY DEF RetryReason
    <2>3. outcome'[r] \in {"quota", "unavailable", "ineligible", "auth_failed"} /\ ~started[r]
            /\ pc'[r] = "recording" => Remaining(r) = {}
        BY <1>9, <2>2 DEF Settle, Stops, Goto
    <2>4. started[r] => pc'[r] = "recording"
        BY <1>9, <2>1 DEF Settle, Stops, Goto
    <2>5. /\ pc'[r] \in {"recording", "choosing"}
          /\ \A q \in Requests \ {r} : pc'[q] = pc[q] /\ outcome'[q] = outcome[q]
          /\ used' = used /\ plan' = plan /\ started' = started
        BY <1>9 DEF Settle, Goto
    <2>6. Remaining(r) = {} => used[r] = plan[r]
        BY DEF Remaining
    <2>7. Committed'
        BY <2>4, <2>5
    <2>8. Consumed'
        BY <2>5
    <2>9. PoolExhaustedBeforeFailure'
        BY <2>3, <2>5, <2>6
    <2>10. QED
        BY <2>7, <2>8, <2>9
<1>10. ASSUME NEW r \in Requests, Record(r) PROVE LoopInv'
    BY <1>10 DEF Record, Goto
<1>11. ASSUME NEW k \in Keys, Expire(k) PROVE LoopInv'
    BY <1>11 DEF Expire, local
<1>12. CASE UNCHANGED vars
    BY <1>12 DEF vars, local
<1>13. QED
    BY <1>1, <1>2, <1>3, <1>4, <1>5, <1>6, <1>7, <1>8, <1>9, <1>10, <1>11, <1>12 DEF Next, Advance

\* A retryable failure reaches the client only after every planned credential was tried,
\* however many there are, unless the response had started.
THEOREM WholePoolTried == Spec => []PoolExhaustedBeforeFailure
<1>1. Init => Typed /\ LoopInv
    BY TypedInit, LoopInit
<1>2. Typed /\ LoopInv /\ [Next]_vars => (Typed /\ LoopInv)'
    BY TypedNext, LoopNext
<1>3. Typed /\ LoopInv => PoolExhaustedBeforeFailure
    BY DEF LoopInv
<1>4. QED
    BY <1>1, <1>2, <1>3, PTL DEF Spec

\* Only a reservation and an auth retry count an attempt, and a handler whose response
\* has started makes neither.
LEMMA AttemptsBeforeFirstByte ==
    Typed /\ LoopInv /\ [Next]_vars =>
        \A r \in Requests : attempts'[r] > attempts[r] => ~started[r] /\ ~started'[r]
<1> SUFFICES ASSUME Typed, LoopInv, [Next]_vars, NEW r \in Requests, attempts'[r] > attempts[r]
             PROVE  ~started[r] /\ ~started'[r]
    OBVIOUS
<1> USE DEF Typed, TypeOK, LoopInv, Committed
<1>1. CASE \E q \in Requests : Reserve(q) \/ Reattempt(q)
    <2>1. PICK q \in Requests : Reserve(q) \/ Reattempt(q)
        BY <1>1
    <2>2. q = r
        BY <2>1 DEF Reserve, Reattempt, CountAttempt
    <2>3. ~started[r]
        BY <2>1, <2>2 DEF Reserve, Reattempt, Refreshable
    <2>4. started' = started
        BY <2>1 DEF Reserve, Reattempt
    <2>5. QED
        BY <2>3, <2>4
<1>2. CASE \E q \in Requests : \/ Plan(q) \/ FindEligible(q) \/ FindIneligible(q) \/ Reply(q)
                               \/ FirstByte(q) \/ RefreshFails(q) \/ Settle(q)
    BY <1>2 DEF Plan, FindEligible, FindIneligible, Reply, EndAttempt, FirstByte, RefreshFails,
                Settle, tally
<1>3. CASE \E q \in Requests : Record(q)
    BY <1>3 DEF Record
<1>4. CASE (\E k \in Keys : Expire(k)) \/ UNCHANGED vars
    BY <1>4 DEF Expire, vars, local, tally
<1>5. QED
    BY <1>1, <1>2, <1>3, <1>4 DEF Next, Advance

\* No attempt starts after the first byte of the response, in any run.
THEOREM NothingAfterFirstByte == Spec => NoAttemptAfterFirstByte
<1>1. Init => Typed /\ LoopInv
    BY TypedInit, LoopInit
<1>2. Typed /\ LoopInv /\ [Next]_vars => (Typed /\ LoopInv)'
    BY TypedNext, LoopNext
<1>3. Typed /\ LoopInv /\ [Next]_vars =>
        [\A r \in Requests : attempts'[r] > attempts[r] => ~started[r] /\ ~started'[r]]_vars
    BY AttemptsBeforeFirstByte
<1>4. QED
    BY <1>1, <1>2, <1>3, PTL DEF Spec, NoAttemptAfterFirstByte

-----------------------------------------------------------------------------
(* What a request reports of its attempts *)

\* The fallback events of r are one path, and c is where it has come to.
Path(r, c) ==
    LET last == Len(trail[r])
    IN  /\ \A i \in 1 .. last : i > 1 => trail[r][i].from = trail[r][i - 1].to
        /\ \A i, j \in 1 .. last : trail[r][i].to = trail[r][j].to => i = j
        /\ last > 0 => trail[r][last].to = c

\* The path of r runs through used credentials to the current one. Every use was an
\* attempt, and every retry with a refreshed bearer was another one.
Underway(r) ==
    /\ current[r] \in used[r]
    /\ IsFiniteSet(used[r]) /\ Cardinality(used[r]) = Len(trail[r]) + 1
    /\ Path(r, current[r])
    /\ \A i \in 1 .. Len(trail[r]) : trail[r][i].to \in used[r]
    /\ attempts[r] = Cardinality(used[r]) + authRetries[r]
    /\ authRetries[r] <= Cardinality(used[r])

\* Nothing has been tried.
Untried(r) == used[r] = {} /\ trail[r] = <<>> /\ attempts[r] = 0 /\ authRetries[r] = 0

Attempting == {"checking", "calling", "judging"}

Trailed(r) ==
    /\ \/ pc[r] = "idle"
       \/ pc[r] = "choosing" /\ pending[r] = "none"
       \/ pc[r] = "recording" /\ outcome[r] = "pool_exhausted"
       => Untried(r)
    /\ \/ pc[r] \in Attempting
       \/ pc[r] = "choosing" /\ pending[r] # "none"
       \/ pc[r] = "recording" /\ outcome[r] # "pool_exhausted"
       => Underway(r)
    /\ pc[r] \in Attempting /\ retryOf[r] = "none" => authRetries[r] < Cardinality(used[r])
    /\ outcome[r] = "pool_exhausted" => pc[r] = "recording"
    /\ pc[r] \notin Attempting => retryOf[r] = "none"

\* The credentials that r left for their quota.
Left(r) ==
    {trail[r][i].from : i \in {j \in 1 .. Len(trail[r]) : trail[r][j].reason = "quota_retry"}}

\* The current credential refused for its quota, and r has not left it yet or stays.
Refused(r) == pending[r] = "quota_retry" \/ (pc[r] = "recording" /\ outcome[r] = "quota")

Explained(r) ==
    /\ refusals[r] = Left(r) \cup (IF Refused(r) THEN {current[r]} ELSE {})
    /\ pc[r] = "idle" => refusals[r] = {}

Reported == \A r \in Requests : Trailed(r) /\ Explained(r)

\* Nothing of a request's locals changes.
Resting(r) ==
    /\ pc'[r] = pc[r] /\ used'[r] = used[r] /\ current'[r] = current[r]
    /\ retryOf'[r] = retryOf[r] /\ outcome'[r] = outcome[r] /\ pending'[r] = pending[r]
    /\ attempts'[r] = attempts[r] /\ authRetries'[r] = authRetries[r]
    /\ refusals'[r] = refusals[r] /\ trail'[r] = trail[r]

LEMMA RestingKeeps ==
    ASSUME NEW r \in Requests, Trailed(r), Explained(r), Resting(r)
    PROVE  Trailed(r)' /\ Explained(r)'
<1>1. Untried(r)' <=> Untried(r)
    BY DEF Untried, Resting
<1>2. Path(r, current[r])' <=> Path(r, current[r])
    BY DEF Path, Resting
<1>3. Underway(r)' <=> Underway(r)
    BY <1>2 DEF Underway, Resting
<1>4. Trailed(r)'
    BY <1>1, <1>3 DEF Trailed, Resting
<1>5. Left(r)' = Left(r)
    BY DEF Left, Resting
<1>6. QED
    BY <1>4, <1>5 DEF Explained, Refused, Resting

\* The handlers other than the one that takes a step rest.
LEMMA OthersRest ==
    ASSUME Typed, NEW q \in Requests, NEW r \in Requests \ {q},
           Plan(q) \/ Advance(q) \/ FirstByte(q)
    PROVE  Resting(r)
<1>1. CASE Plan(q)
    BY <1>1 DEF Plan, Goto, tally, shared, Resting, Typed, TypeOK
<1>2. CASE Reserve(q)
    BY <1>2 DEF Reserve, CountAttempt, Goto, Resting, Typed, TypeOK
<1>3. CASE FindEligible(q) \/ FirstByte(q) \/ RefreshFails(q)
    BY <1>3 DEF FindEligible, FirstByte, RefreshFails, Goto, tally, Resting, Typed, TypeOK
<1>4. CASE FindIneligible(q) \/ Reply(q)
    BY <1>4 DEF FindIneligible, Reply, EndAttempt, Goto, tally, Resting, Typed, TypeOK
<1>5. CASE Reattempt(q)
    BY <1>5 DEF Reattempt, CountAttempt, CountAuthRetry, Goto, Resting, Typed, TypeOK
<1>6. CASE Settle(q)
    BY <1>6 DEF Settle, Goto, Resting, Typed, TypeOK
<1>7. CASE Record(q)
    BY <1>7 DEF Record, Goto, Resting, Typed, TypeOK
<1>8. QED
    BY <1>1, <1>2, <1>3, <1>4, <1>5, <1>6, <1>7 DEF Advance

\* A step of r that leaves what it has done as it is, and the reason to fall back.
SameWork(r) ==
    /\ used'[r] = used[r] /\ current'[r] = current[r] /\ attempts'[r] = attempts[r]
    /\ authRetries'[r] = authRetries[r] /\ trail'[r] = trail[r]

LEMMA WorkKept ==
    ASSUME NEW r \in Requests, SameWork(r)
    PROVE  (Untried(r)' <=> Untried(r)) /\ (Underway(r)' <=> Underway(r)) /\ Left(r)' = Left(r)
<1>1. Untried(r)' <=> Untried(r)
    BY DEF Untried, SameWork
<1>2. Path(r, current[r])' <=> Path(r, current[r])
    BY DEF Path, SameWork
<1>3. Underway(r)' <=> Underway(r)
    BY <1>2 DEF Underway, SameWork
<1>4. Left(r)' = Left(r)
    BY DEF Left, SameWork
<1>5. QED
    BY <1>1, <1>3, <1>4

LEMMA ReportPlan ==
    ASSUME Typed, NEW r \in Requests, Trailed(r), Explained(r), Plan(r)
    PROVE  Trailed(r)' /\ Explained(r)'
<1>1. SameWork(r)
    BY DEF Plan, tally, SameWork
<1>2. /\ pc[r] = "idle" /\ pending'[r] = "none" /\ retryOf'[r] = "none"
      /\ refusals'[r] = {} /\ ~Refused(r)
    BY DEF Plan, tally, Trailed, Explained, Refused, Attempting, Typed, Engaged
<1>3. \/ pc'[r] = "recording" /\ outcome'[r] = "pool_exhausted"
      \/ pc'[r] = "choosing" /\ outcome'[r] # "pool_exhausted"
    BY <1>2 DEF Plan, Goto, Typed, TypeOK, Trailed
<1>4. Untried(r)' /\ Left(r)' = {}
    BY <1>1, <1>2, WorkKept DEF Trailed, Explained
<1>5. Trailed(r)'
    BY <1>2, <1>3, <1>4 DEF Trailed, Attempting
<1>6. QED
    BY <1>2, <1>3, <1>4, <1>5 DEF Explained, Refused

\* A step between the reservation of an attempt and its verdict.
LEMMA ReportDuring ==
    ASSUME Typed, NEW r \in Requests, Trailed(r), Explained(r), SameWork(r),
           pc[r] \in Attempting, pc'[r] \in Attempting, outcome'[r] # "pool_exhausted",
           retryOf'[r] = retryOf[r], refusals'[r] = refusals[r], pending'[r] = pending[r]
    PROVE  Trailed(r)' /\ Explained(r)'
<1>1. Trailed(r)'
    BY WorkKept DEF Trailed, Attempting, SameWork
<1>2. Explained(r)'
    BY WorkKept DEF Explained, Refused, Attempting, SameWork
<1>3. QED
    BY <1>1, <1>2

LEMMA ReportReattempt ==
    ASSUME Typed, NEW r \in Requests, Trailed(r), Explained(r), Reattempt(r)
    PROVE  Trailed(r)' /\ Explained(r)'
<1>1. /\ pc[r] = "judging" /\ pc'[r] = "checking" /\ outcome'[r] = "none"
      /\ retryOf[r] = "none" /\ retryOf'[r] # "none" /\ pending'[r] = pending[r]
      /\ used'[r] = used[r] /\ current'[r] = current[r] /\ trail'[r] = trail[r]
      /\ refusals'[r] = refusals[r]
      /\ attempts'[r] = attempts[r] + 1 /\ authRetries'[r] = authRetries[r] + 1
    BY DEF Reattempt, Refreshable, CountAttempt, CountAuthRetry, Goto, Typed, TypeOK
<1>2. Underway(r) /\ authRetries[r] < Cardinality(used[r])
    BY <1>1 DEF Trailed, Attempting
<1>3. Path(r, current[r])' <=> Path(r, current[r])
    BY <1>1 DEF Path
<1>4. Cardinality(used[r]) \in Nat /\ authRetries[r] \in Nat
    BY <1>2, FS_CardinalityType DEF Underway, Typed, TypeOK
<1>5. Underway(r)'
    BY <1>1, <1>2, <1>3, <1>4 DEF Underway
<1>6. Trailed(r)'
    BY <1>1, <1>5 DEF Trailed, Attempting
<1>7. Left(r)' = Left(r)
    BY <1>1 DEF Left
<1>8. QED
    BY <1>1, <1>6, <1>7 DEF Explained, Refused

LEMMA ReportSettle ==
    ASSUME Typed, NEW r \in Requests, Trailed(r), Explained(r), Settle(r)
    PROVE  Trailed(r)' /\ Explained(r)'
<1> DEFINE how == Verdict(r)
           why == RetryReason(r, how)
           stop == Stops(r, why)
<1>1. SameWork(r)
    BY DEF Settle, SameWork
<1>2. /\ pc[r] = "judging" /\ retryOf'[r] = "none"
      /\ pc'[r] = (IF stop THEN "recording" ELSE "choosing")
      /\ outcome'[r] = (IF stop THEN how ELSE "none")
      /\ pending'[r] = (IF stop THEN "none" ELSE why)
      /\ refusals'[r] = refusals[r] \cup (IF how = "quota" THEN {current[r]} ELSE {})
    BY DEF Settle, Goto, Typed, TypeOK
<1>3. how # "pool_exhausted"
    BY <1>2 DEF Verdict, Trailed, Attempting
<1>4. /\ ~stop => why # "none"
      /\ why = "quota_retry" => how = "quota"
      /\ how = "quota" /\ ~stop => why = "quota_retry"
    BY DEF Stops, RetryReason
<1>5. pending[r] = "none" /\ ~Refused(r) /\ Underway(r)
    BY <1>2 DEF Refused, Typed, Engaged, Trailed, Attempting
<1> HIDE DEF how, why, stop
<1>6. Trailed(r)'
    BY <1>1, <1>2, <1>3, <1>4, <1>5, WorkKept DEF Trailed, Attempting
<1>7. Refused(r)' <=> how = "quota"
    BY <1>2, <1>4 DEF Refused
<1>8. refusals'[r] = Left(r)' \cup (IF how = "quota" THEN {current'[r]} ELSE {})
    BY <1>1, <1>2, <1>5, WorkKept DEF Explained, SameWork
<1>9. QED
    BY <1>2, <1>6, <1>7, <1>8 DEF Explained

LEMMA ReportRecord ==
    ASSUME Typed, NEW r \in Requests, Trailed(r), Record(r)
    PROVE  Trailed(r)' /\ Explained(r)'
<1>1. /\ pc'[r] = "idle" /\ used'[r] = {} /\ trail'[r] = <<>> /\ attempts'[r] = 0
      /\ authRetries'[r] = 0 /\ refusals'[r] = {} /\ retryOf'[r] = "none" /\ pending'[r] = "none"
      /\ outcome'[r] = "none"
    BY DEF Record, Goto, Typed, TypeOK, Engaged, Trailed, Attempting
<1>2. Trailed(r)'
    BY <1>1 DEF Trailed, Untried, Attempting
<1>3. Left(r)' = {}
    BY <1>1 DEF Left
<1>4. QED
    BY <1>1, <1>2, <1>3 DEF Explained, Refused

\* The first attempt, and the next one after a fallback, which the trail then tells.
LEMMA ReportReserve ==
    ASSUME Typed, NEW r \in Requests, Trailed(r), Explained(r), Reserve(r)
    PROVE  Trailed(r)' /\ Explained(r)'
<1>1. PICK c \in Remaining(r) :
        /\ used'[r] = used[r] \cup {c} /\ current'[r] = c /\ trail'[r] = WithFallback(r, c)
    BY DEF Reserve, Typed, TypeOK
<1>2. /\ pc[r] = "choosing" /\ pc'[r] = "checking" /\ pending'[r] = "none"
      /\ retryOf'[r] = "none" /\ outcome'[r] = outcome[r] /\ refusals'[r] = refusals[r]
      /\ attempts'[r] = attempts[r] + 1 /\ authRetries'[r] = authRetries[r]
    BY DEF Reserve, CountAttempt, Goto, Typed, TypeOK, Trailed, Attempting
<1>3. c \notin used[r]
    BY DEF Remaining
<1>4. ~Refused(r)' /\ (Refused(r) <=> pending[r] = "quota_retry")
    BY <1>2 DEF Refused
<1>5. IsFiniteSet(used[r]) /\ Cardinality(used[r]) \in Nat /\ authRetries[r] \in Nat
    <2>1. IsFiniteSet(used[r])
        BY <1>2, FS_EmptySet DEF Trailed, Attempting, Untried, Underway
    <2>2. QED
        BY <2>1, FS_CardinalityType DEF Typed, TypeOK
<1>6. IsFiniteSet(used'[r]) /\ Cardinality(used'[r]) = Cardinality(used[r]) + 1
    <2>1. /\ IsFiniteSet(used[r] \cup {c})
          /\ Cardinality(used[r] \cup {c}) = Cardinality(used[r]) + 1
        BY <1>3, <1>5, FS_AddElement, Zenon
    <2>2. used'[r] = used[r] \cup {c}
        BY <1>1
    <2>3. QED
        BY <2>1, <2>2, Zenon
<1>7. CASE pending[r] = "none"
    <2>1. Untried(r) /\ trail'[r] = <<>>
        BY <1>1, <1>2, <1>7 DEF Trailed, Attempting, Untried, WithFallback
    <2>2. Cardinality(used[r]) = 0
        BY <2>1, FS_EmptySet DEF Untried
    <2>3. Path(r, current[r])'
        BY <2>1 DEF Path
    <2>4. Underway(r)' /\ authRetries'[r] < Cardinality(used'[r])
        BY <1>1, <1>2, <1>6, <2>1, <2>2, <2>3 DEF Untried, Underway
    <2>5. Left(r)' = {} /\ Left(r) = {}
        BY <2>1 DEF Left, Untried
    <2>6. QED
        BY <1>2, <1>4, <1>7, <2>4, <2>5 DEF Trailed, Attempting, Explained
<1>8. CASE pending[r] # "none"
    <2> DEFINE e == [from |-> current[r], to |-> c, reason |-> pending[r]]
               n == Len(trail[r])
    <2>1. Underway(r)
        BY <1>2, <1>8 DEF Trailed, Attempting
    <2>2. trail'[r] = Append(trail[r], e) /\ trail[r] \in Seq(FallbackEvents)
        BY <1>1, <1>8 DEF WithFallback, Typed, TypeOK
    <2>3. /\ n \in Nat /\ Len(trail'[r]) = n + 1 /\ trail'[r][n + 1] = e
          /\ \A i \in 1 .. n : trail'[r][i] = trail[r][i]
        BY <2>2
    <2>4. e.from = current[r] /\ e.to = c /\ e.reason = pending[r]
        OBVIOUS
    <2>5. /\ \A i \in 1 .. n : i > 1 => trail[r][i].from = trail[r][i - 1].to
          /\ \A i, j \in 1 .. n : trail[r][i].to = trail[r][j].to => i = j
          /\ n > 0 => trail[r][n].to = current[r]
          /\ \A i \in 1 .. n : trail[r][i].to \in used[r]
        BY <2>1 DEF Underway, Path
    <2> HIDE DEF e, n
    <2>6. Path(r, current[r])'
        <3>1. ASSUME NEW i \in 1 .. n + 1, i > 1 PROVE trail'[r][i].from = trail'[r][i - 1].to
            <4>1. i - 1 \in 1 .. n /\ trail'[r][i - 1] = trail[r][i - 1]
                <5>1. n \in Nat
                    BY <2>3
                <5>2. i - 1 \in 1 .. n
                    BY <3>1, <5>1
                <5>3. QED
                    BY <2>3, <5>2
            <4>2. CASE i = n + 1
                <5>1. i - 1 = n /\ n > 0 /\ trail'[r][i] = e
                    BY <2>3, <3>1, <4>2
                <5>2. QED
                    BY <2>4, <2>5, <4>1, <5>1
            <4>3. CASE i # n + 1
                <5>1. i \in 1 .. n
                    BY <2>3, <4>3
                <5>2. QED
                    BY <2>3, <2>5, <3>1, <4>1, <5>1
            <4>4. QED
                BY <4>2, <4>3
        <3>2. ASSUME NEW i \in 1 .. n + 1, NEW j \in 1 .. n + 1, trail'[r][i].to = trail'[r][j].to
              PROVE  i = j
            <4>1. \A k \in 1 .. n : trail'[r][k].to \in used[r]
                BY <2>3, <2>5
            <4>2. trail'[r][n + 1].to \notin used[r]
                BY <1>3, <2>3, <2>4
            <4>3. \A k \in 1 .. n + 1 : k # n + 1 => k \in 1 .. n
                BY <2>3
            <4>4. i = n + 1 <=> j = n + 1
                BY <3>2, <4>1, <4>2, <4>3
            <4>5. CASE i \in 1 .. n /\ j \in 1 .. n
                BY <2>3, <2>5, <3>2, <4>5
            <4>6. QED
                BY <4>3, <4>4, <4>5
        <3>3. Len(trail'[r]) = n + 1 /\ trail'[r][n + 1].to = current'[r]
            BY <1>1, <2>3, <2>4
        <3>4. QED
            BY <3>1, <3>2, <3>3 DEF Path
    <2>7. \A i \in 1 .. n + 1 : trail'[r][i].to \in used'[r]
        <3>1. \A i \in 1 .. n + 1 : i \in 1 .. n \/ i = n + 1
            BY <2>3
        <3>2. QED
            BY <1>1, <2>3, <2>4, <2>5, <3>1
    <2>8. Underway(r)' /\ authRetries'[r] < Cardinality(used'[r])
        <3>1. /\ Cardinality(used[r]) = n + 1
              /\ attempts[r] = Cardinality(used[r]) + authRetries[r]
              /\ authRetries[r] <= Cardinality(used[r])
            BY <2>1 DEF Underway, n
        <3>2. /\ Cardinality(used'[r]) = Len(trail'[r]) + 1
              /\ attempts'[r] = Cardinality(used'[r]) + authRetries'[r]
              /\ authRetries'[r] < Cardinality(used'[r])
            <4>1. attempts'[r] = attempts[r] + 1 /\ authRetries'[r] = authRetries[r]
                BY <1>2
            <4>2. Cardinality(used'[r]) = Cardinality(used[r]) + 1 /\ Len(trail'[r]) = n + 1
                BY <1>6, <2>3
            <4>3. Cardinality(used[r]) \in Nat /\ authRetries[r] \in Nat
                BY <1>5
            <4>4. QED
                BY <3>1, <4>1, <4>2, <4>3
        <3>3. authRetries'[r] <= Cardinality(used'[r])
            BY <1>2, <1>5, <1>6, <3>1
        <3>4. QED
            BY <1>1, <1>6, <2>3, <2>6, <2>7, <3>2, <3>3 DEF Underway
    <2>9. Left(r)' = Left(r) \cup (IF pending[r] = "quota_retry" THEN {current[r]} ELSE {})
        <3>1. PICK L, M : L = Left(r) /\ M = Left(r)'
            OBVIOUS
        <3>2. \A y : y \in L <=> \E i \in 1 .. n : /\ trail[r][i].reason = "quota_retry"
                                                /\ y = trail[r][i].from
            BY <3>1 DEF Left, n
        <3>3. \A y : y \in M <=> \E i \in 1 .. n + 1 : /\ trail'[r][i].reason = "quota_retry"
                                                    /\ y = trail'[r][i].from
            BY <2>3, <3>1 DEF Left
        <3>4. \A i : i \in 1 .. n + 1 <=> i \in 1 .. n \/ i = n + 1
            BY <2>3
        <3>5. \A i \in 1 .. n : trail'[r][i] = trail[r][i]
            BY <2>3
        <3>6. trail'[r][n + 1].from = current[r] /\ trail'[r][n + 1].reason = pending[r]
            BY <2>3, <2>4
        <3>7. ASSUME NEW y PROVE y \in M <=> y \in L \/ (pending[r] = "quota_retry" /\ y = current[r])
            BY <3>2, <3>3, <3>4, <3>5, <3>6
        <3>8. QED
            BY <3>1, <3>7
    <2>10. refusals'[r] = Left(r)'
        BY <1>2, <1>4, <2>9 DEF Explained
    <2>11. QED
        BY <1>2, <1>4, <2>8, <2>10 DEF Trailed, Attempting, Explained
<1>9. QED
    BY <1>7, <1>8

\* What every request has to report, always.
LEMMA ReportInit == Init => Reported
<1> SUFFICES ASSUME Init, NEW r \in Requests PROVE Trailed(r) /\ Explained(r)
    BY DEF Reported
<1>1. /\ pc[r] = "idle" /\ used[r] = {} /\ trail[r] = <<>> /\ attempts[r] = 0
      /\ authRetries[r] = 0 /\ refusals[r] = {} /\ retryOf[r] = "none" /\ pending[r] = "none"
      /\ outcome[r] = "none"
    BY DEF Init
<1>2. Trailed(r)
    BY <1>1 DEF Trailed, Untried, Attempting
<1>3. Left(r) = {}
    BY <1>1 DEF Left
<1>4. QED
    BY <1>1, <1>2, <1>3 DEF Explained, Refused

LEMMA ReportNext == Typed /\ Reported /\ [Next]_vars => Reported'
<1> SUFFICES ASSUME Typed, Reported, [Next]_vars, NEW r \in Requests
             PROVE  Trailed(r)' /\ Explained(r)'
    BY DEF Reported
<1>1. Trailed(r) /\ Explained(r)
    BY DEF Reported
<1>2. CASE FindEligible(r) \/ FirstByte(r) \/ RefreshFails(r)
    <2>1. /\ SameWork(r) /\ pc[r] \in Attempting /\ pc'[r] \in Attempting
          /\ outcome'[r] # "pool_exhausted"
        BY <1>1, <1>2 DEF FindEligible, FirstByte, RefreshFails, Goto, tally, SameWork, Attempting,
                          Trailed, Typed, TypeOK
    <2>2. retryOf'[r] = retryOf[r] /\ refusals'[r] = refusals[r] /\ pending'[r] = pending[r]
        BY <1>2 DEF FindEligible, FirstByte, RefreshFails, tally
    <2>3. QED
        BY <1>1, <2>1, <2>2, ReportDuring
<1>3. CASE FindIneligible(r) \/ Reply(r)
    <2>1. PICK how \in Outcomes \ {"pool_exhausted"} : EndAttempt(r, how)
        BY <1>3, PoolAssumption DEF FindIneligible, Reply, Outcomes
    <2>2. /\ SameWork(r) /\ pc[r] \in Attempting /\ pc'[r] \in Attempting
          /\ outcome'[r] # "pool_exhausted"
        BY <1>3, <2>1 DEF FindIneligible, Reply, EndAttempt, Goto, tally, SameWork, Attempting,
                          Typed, TypeOK
    <2>3. retryOf'[r] = retryOf[r] /\ refusals'[r] = refusals[r] /\ pending'[r] = pending[r]
        BY <2>1 DEF EndAttempt, tally
    <2>4. QED
        BY <1>1, <2>2, <2>3, ReportDuring
<1>4. CASE Plan(r) \/ Reserve(r) \/ Reattempt(r) \/ Settle(r) \/ Record(r)
    BY <1>1, <1>4, ReportPlan, ReportReserve, ReportReattempt, ReportSettle, ReportRecord
<1>5. ASSUME NEW q \in Requests \ {r}, Plan(q) \/ Advance(q) \/ FirstByte(q)
      PROVE  Trailed(r)' /\ Explained(r)'
    BY <1>1, <1>5, OthersRest, RestingKeeps
<1>6. CASE (\E k \in Keys : Expire(k)) \/ UNCHANGED vars
    <2>1. Resting(r)
        BY <1>6 DEF Expire, vars, local, tally, Resting
    <2>2. QED
        BY <1>1, <2>1, RestingKeeps
<1>7. QED
    BY <1>2, <1>3, <1>4, <1>5, <1>6 DEF Next, Advance

LEMMA ReportAlways == Spec => [](Typed /\ Reported)
<1>1. Init => Typed /\ Reported
    BY TypedInit, ReportInit
<1>2. Typed /\ Reported /\ [Next]_vars => (Typed /\ Reported)'
    BY TypedNext, ReportNext
<1>3. QED
    BY <1>1, <1>2, PTL DEF Spec

\* The fallback events of a request are one path through its plan, however many credentials
\* it tried, and agree with its counts of attempts and retries.
THEOREM TrailIsPath == Spec => []FallbackTrail
<1>1. Typed /\ Reported => FallbackTrail
    <2> SUFFICES ASSUME Typed, Reported, NEW r \in Requests,
                        pc[r] = "recording", outcome[r] # "pool_exhausted"
                 PROVE  LET steps == DOMAIN trail[r]
                            last  == Len(trail[r])
                        IN  /\ Cardinality(used[r]) = last + 1
                            /\ \A i \in steps : i > 1 => trail[r][i].from = trail[r][i - 1].to
                            /\ \A i, j \in steps : trail[r][i].to = trail[r][j].to => i = j
                            /\ last > 0 => trail[r][last].to = current[r]
                            /\ attempts[r] = Cardinality(used[r]) + authRetries[r]
                            /\ authRetries[r] <= Cardinality(used[r])
        BY DEF FallbackTrail
    <2>1. Underway(r)
        BY DEF Reported, Trailed
    <2>2. DOMAIN trail[r] = 1 .. Len(trail[r])
        BY DEF Typed, TypeOK
    <2>3. QED
        BY <2>1, <2>2 DEF Underway, Path
<1>2. QED
    BY <1>1, ReportAlways, PTL

\* What is handed to the store as a request's quota refusals is what made it leave a
\* credential for its quota, and a final refusal.
THEOREM RefusalsExplained == Spec => []RefusalsExplainFallbacks
<1>1. Typed /\ Reported => RefusalsExplainFallbacks
    <2> SUFFICES ASSUME Typed, Reported, NEW r \in Requests, pc[r] = "recording"
                 PROVE  LET left == {e.from : e \in {trail[r][i] : i \in {j \in DOMAIN trail[r] :
                                       trail[r][j].reason = "quota_retry"}}}
                        IN  refusals[r] =
                              left \cup (IF outcome[r] = "quota" THEN {current[r]} ELSE {})
        BY DEF RefusalsExplainFallbacks
    <2>1. DOMAIN trail[r] = 1 .. Len(trail[r])
        BY DEF Typed, TypeOK
    <2>2. {e.from : e \in {trail[r][i] : i \in {j \in DOMAIN trail[r] :
             trail[r][j].reason = "quota_retry"}}} = Left(r)
        BY <2>1 DEF Left
    <2>3. pending[r] = "none"
        BY DEF Typed, Engaged
    <2>4. QED
        BY <2>2, <2>3 DEF Reported, Explained, Refused
<1>2. QED
    BY <1>1, ReportAlways, PTL

-----------------------------------------------------------------------------
(* The spread of reservations *)

\* If every d of D stands for at least v elements of S, and none for another's, then S has
\* at least v elements for each.
LEMMA Crowd ==
    ASSUME NEW D, IsFiniteSet(D), NEW S, IsFiniteSet(S), NEW H, NEW v \in Nat,
           \A d \in D : H[d] \subseteq S /\ v <= Cardinality(H[d]),
           \A d1, d2 \in D : d1 # d2 => H[d1] \cap H[d2] = {}
    PROVE  Cardinality(D) * v <= Cardinality(S)
<1> DEFINE Count(d) == 1 .. Cardinality(H[d])
           g == [d \in D |-> CHOOSE b : b \in Bijection(Count(d), H[d])]
           f == [p \in D \X (1 .. v) |-> g[p[1]][p[2]]]
<1>1. ASSUME NEW d \in D PROVE Cardinality(H[d]) \in Nat /\ g[d] \in Bijection(Count(d), H[d])
    <2>1. IsFiniteSet(H[d])
        BY FS_Subset
    <2>2. Cardinality(H[d]) \in Nat /\ \E b : b \in Bijection(Count(d), H[d])
        BY <2>1, FS_CardinalityType DEF ExistsBijection
    <2>3. QED
        BY <2>2
<1>2. ASSUME NEW d \in D, NEW i \in 1 .. v PROVE i \in Count(d) /\ g[d][i] \in H[d]
    <2>1. i \in Count(d)
        BY <1>1, SMTT(30)
    <2>2. QED
        BY <1>1, <2>1 DEF Bijection, Injection
<1>3. f \in Injection(D \X (1 .. v), S)
    <2>1. f \in [D \X (1 .. v) -> S]
        BY <1>2
    <2>2. ASSUME NEW p \in D \X (1 .. v), NEW q \in D \X (1 .. v), f[p] = f[q] PROVE p = q
        <3>1. p[1] \in D /\ q[1] \in D /\ p[2] \in 1 .. v /\ q[2] \in 1 .. v
            OBVIOUS
        <3>2. g[p[1]][p[2]] = g[q[1]][q[2]]
            BY <2>2
        <3> HIDE DEF f, g, Count
        <3>3. g[p[1]][p[2]] \in H[p[1]] /\ g[q[1]][q[2]] \in H[q[1]]
            BY <1>2, <3>1
        <3>4. p[1] = q[1]
            BY <3>1, <3>2, <3>3
        <3>5. p[2] = q[2]
            <4>1. g[p[1]] \in Bijection(Count(p[1]), H[p[1]])
                BY <1>1, <3>1
            <4>2. p[2] \in Count(p[1]) /\ q[2] \in Count(p[1])
                BY <1>2, <3>1, <3>4
            <4>3. QED
                BY <3>2, <3>4, <4>1, <4>2 DEF Bijection, Injection, IsInjective
        <3>6. QED
            BY <3>4, <3>5
    <2>3. DOMAIN f = D \X (1 .. v)
        OBVIOUS
    <2> HIDE DEF f
    <2>4. QED
        BY <2>1, <2>2, <2>3 DEF Injection, IsInjective
<1>4. IsFiniteSet(1 .. v) /\ Cardinality(1 .. v) = v
    BY FS_Interval
<1>5. Cardinality(D \X (1 .. v)) = Cardinality(D) * v
    BY <1>4, FS_Product
<1>6. Cardinality(D \X (1 .. v)) <= Cardinality(S)
    BY <1>3, FS_Injection
<1>7. QED
    BY <1>5, <1>6

LEMMA Share ==
    ASSUME NEW m \in Nat \ {0}, NEW v \in Nat, NEW n \in Nat, m * v <= n
    PROVE  v <= n \div m
<1> DEFINE q == n \div m
<1>1. q \in Int /\ n < (q + 1) * m
    OBVIOUS
<1> HIDE DEF q
<1>2. ASSUME q + 1 <= v PROVE FALSE
    <2>1. (q + 1) * m <= v * m
        BY <1>1, <1>2
    <2>2. QED
        BY <1>1, <2>1
<1>3. v <= q
    BY <1>1, <1>2
<1>4. QED
    BY <1>3 DEF q

\* Only Reserve brings a handler from its choice to an attempt, and the credential it
\* chooses has the least pressure.
LEMMA ReservesLeast ==
    ASSUME Typed, [Next]_vars, NEW r \in Requests, Reserves(r)
    PROVE  /\ current'[r] \in Remaining(r)
           /\ \A d \in Remaining(r) : inFlight[Key(r, current'[r])] <= inFlight[Key(r, d)]
<1>1. Reserve(r)
    <2>1. ASSUME NEW q \in Requests \ {r}, Plan(q) \/ Advance(q) \/ FirstByte(q) PROVE FALSE
        <3>1. Resting(r)
            BY <2>1, OthersRest
        <3>2. QED
            BY <3>1 DEF Resting, Reserves
    <2>2. CASE (\E k \in Keys : Expire(k)) \/ UNCHANGED vars
        BY <2>2 DEF Expire, vars, local, Reserves
    <2>3. CASE Plan(r) \/ FirstByte(r) \/ FindEligible(r) \/ FindIneligible(r) \/ Reply(r)
               \/ RefreshFails(r) \/ Reattempt(r) \/ Settle(r) \/ Record(r)
        BY <2>3 DEF Plan, FirstByte, FindEligible, FindIneligible, Reply, RefreshFails, Reattempt,
                    Settle, Record, Reserves
    <2>4. QED
        BY <2>1, <2>2, <2>3 DEF Next, Advance
<1>2. PICK c \in Remaining(r) : Selected(r, c) /\ current' = [current EXCEPT ![r] = c]
    BY <1>1 DEF Reserve
<1>3. current'[r] = c /\ c \in LeastPressure(r)
    BY <1>2 DEF Selected, FirstFrom, Typed, TypeOK
<1>4. QED
    BY <1>3 DEF LeastPressure

LEMMA ShareKept ==
    ASSUME Typed, PressureAccounting, IsFiniteSet(Credentials), [Next]_vars,
           NEW r \in Requests, Reserves(r)
    PROVE  inFlight[Key(r, current'[r])]
               <= (Cardinality(Requests) - 1) \div Cardinality(Remaining(r))
<1> DEFINE D == Remaining(r)
           S == Requests \ {r}
           v == inFlight[Key(r, current'[r])]
           H == [d \in D |-> Holders(Key(r, d))]
<1>1. D \subseteq Credentials /\ current'[r] \in D /\ v \in Nat
    <2>1. D \subseteq Credentials /\ current'[r] \in D
        BY ReservesLeast DEF Remaining, Typed, TypeOK
    <2>2. QED
        BY <2>1, KeyType DEF Typed, TypeOK
<1>2. IsFiniteSet(D) /\ Cardinality(D) \in Nat \ {0}
    <2>1. IsFiniteSet(D)
        BY <1>1, FS_Subset
    <2>2. QED
        BY <1>1, <2>1, FS_CardinalityType, FS_EmptySet
<1>3. IsFiniteSet(S) /\ Cardinality(S) = Cardinality(Requests) - 1 /\ Cardinality(S) \in Nat
    BY RequestsAssumption, FS_RemoveElement, FS_CardinalityType
<1>4. ASSUME NEW d \in D PROVE H[d] \subseteq S /\ v <= Cardinality(H[d])
    <2>1. r \notin Holders(Key(r, d))
        BY DEF Reserves, Holders, Holding
    <2>2. H[d] \subseteq S
        BY <2>1 DEF Holders
    <2>3. Key(r, d) \in Keys
        BY <1>1, KeyType
    <2>4. inFlight[Key(r, d)] = Cardinality(H[d])
        BY <2>3 DEF PressureAccounting
    <2>5. QED
        BY <2>2, <2>4, ReservesLeast
<1>5. ASSUME NEW d1 \in D, NEW d2 \in D, d1 # d2 PROVE H[d1] \cap H[d2] = {}
    BY <1>5 DEF Holders, Key
<1>6. Cardinality(D) * v <= Cardinality(S)
    <2> HIDE DEF D, S, v, H
    <2>1. QED
        BY <1>1, <1>2, <1>3, <1>4, <1>5, Crowd
<1>7. QED
    <2> HIDE DEF D, S, v
    <2>1. v <= Cardinality(S) \div Cardinality(D)
        BY <1>1, <1>2, <1>3, <1>6, Share
    <2>2. QED
        BY <1>3, <2>1 DEF D, v

\* The credentials are those of a list.
LEMMA CredentialsFinite == IsFiniteSet(Credentials)
<1> DEFINE n == Len(CredentialOrder)
<1>1. n \in Nat /\ DOMAIN CredentialOrder = 1 .. n
    BY OrderAssumption
<1>2. CredentialOrder \in Surjection(1 .. n, Credentials)
    <2>1. CredentialOrder \in [1 .. n -> Credentials]
        BY <1>1, OrderAssumption DEF Credentials
    <2>2. QED
        BY <1>1, <2>1 DEF Surjection, Credentials
<1>3. QED
    BY <1>1, <1>2, FS_NatSurjection DEF ExistsSurjection

\* With n handlers, no reservation among m remaining credentials meets more than
\* (n - 1) \div m other attempts of its route, for all n and m.
THEOREM SpreadFairly == Spec => FairShare
<1>1. Init => Typed /\ PressureAccounting
    BY TypedInit, AccountingInit
<1>2. Typed /\ PressureAccounting /\ [Next]_vars => (Typed /\ PressureAccounting)'
    BY TypedNext, AccountingNext
<1>3. Typed /\ PressureAccounting /\ [Next]_vars =>
        [\A r \in Requests :
           Reserves(r) => inFlight[Key(r, current'[r])]
               <= (Cardinality(Requests) - 1) \div Cardinality(Remaining(r))]_vars
    BY ShareKept, CredentialsFinite
<1>4. QED
    BY <1>1, <1>2, <1>3, PTL DEF Spec, FairShare
=============================================================================
