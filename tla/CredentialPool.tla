--------------------------- MODULE CredentialPool ---------------------------
(***************************************************************************)
(* The credential pool of the public router (internal/server): how the     *)
(* handler goroutines of concurrent requests plan their attempts, reserve  *)
(* a credential under the shared pressure tracker, call the upstream,      *)
(* retry once after an OAuth 401, fall back to another credential, and     *)
(* persist the quota refusals that later plans leave out.                  *)
(*                                                                         *)
(* One value of Requests is one handler goroutine; it serves one request   *)
(* after another.  The three loops of the source (completed chat, streamed *)
(* chat and native Responses) are one loop here, told apart by KindOf.     *)
(***************************************************************************)
EXTENDS Integers, Sequences, FiniteSets

CONSTANTS
    Requests,         \* handler goroutines
    Routes,           \* (provider instance, model) pairs
    Tokens,           \* verified local client tokens
    CredentialOrder,  \* every upstream credential, in the order the store lists them
    RouteOf,          \* [Requests -> Routes]
    TokenOf,          \* [Requests -> Tokens]
    KindOf,           \* [Requests -> Kinds]
    Sticky,           \* requests that carry a session affinity key
    AffinityHash,     \* [Requests -> Nat], the FNV hash of token, route and affinity key
    OAuthRoutes,      \* routes whose bearers the server may refresh
    CatalogRoutes,    \* routes whose credentials must prove the model before a call
    Resolvable,       \* the sets of credentials that resolving a request may yield
    UpstreamReplies,  \* the outcomes an upstream may answer with
    None              \* no credential

Kinds == {"complete", "stream", "native"}

\* What the code tells apart about the end of an attempt: status and error class.
Outcomes == {"ok", "auth401", "discovery401", "quota", "unavailable", "fatal",
             "ineligible", "auth_failed", "pool_exhausted"}

Reasons == {"auth_retry", "quota_retry", "availability_retry"}

Credentials == {CredentialOrder[i] : i \in DOMAIN CredentialOrder}

ASSUME RequestsAssumption == IsFiniteSet(Requests)

ASSUME OrderAssumption ==
    /\ CredentialOrder \in Seq(Credentials)
    /\ \A i, j \in DOMAIN CredentialOrder :
           CredentialOrder[i] = CredentialOrder[j] => i = j
    /\ None \notin Credentials

ASSUME RequestAssumption ==
    /\ RouteOf \in [Requests -> Routes]
    /\ TokenOf \in [Requests -> Tokens]
    /\ KindOf \in [Requests -> Kinds]
    /\ AffinityHash \in [Requests -> Nat]

ASSUME PoolAssumption ==
    /\ Resolvable \subseteq (SUBSET Credentials) \ {{}}
    /\ UpstreamReplies \subseteq {"ok", "auth401", "discovery401", "quota",
                                  "unavailable", "fatal"}

VARIABLES
    pc,        \* where each handler is in its loop
    plan,      \* the credentials of the attempts slice of this request
    head,      \* where the affinity order of that slice starts
    used,      \* credentials of the plan already reserved once
    current,   \* the credential of the latest attempt
    retryOf,   \* the 401 that the running second attempt answers, else "none"
    outcome,   \* how the latest attempt ended
    started,   \* the streaming sink has sent its header
    pending,   \* why the next reservation is a fallback, else "none"
    attempts,  \* upstream attempts counted so far
    authRetries, \* those of them that retried with a refreshed bearer
    refusals,  \* credentials that refused for their quota
    trail,     \* the fallback events, in order
    inFlight,  \* the tracker's count of reservations per route and credential
    cursor,    \* the tracker's next credential per route and token
    blocked    \* (route, credential) pairs with an active quota block in the store

tally  == <<attempts, authRetries, refusals, trail>>
local  == <<pc, plan, head, used, current, retryOf, outcome, started, pending, tally>>
shared == <<inFlight, cursor, blocked>>
vars   == <<local, shared>>

-----------------------------------------------------------------------------
(* Planning: credential_pool.go *)

Keys == Routes \X Credentials
Key(r, c) == <<RouteOf[r], c>>
Scope(r) == <<RouteOf[r], TokenOf[r]>>

\* The place of a credential in the store's list, and the number of places from a to b
\* going round: the slices of the source are sublists of that list, turned.
Place(c) == CHOOSE i \in DOMAIN CredentialOrder : CredentialOrder[i] = c
Distance(a, b) == (Place(b) - Place(a)) % Len(CredentialOrder)

\* The resolved credential that heads the affinity order: the hash picks its index.
HeadsOrder(r, resolved, c) ==
    /\ c \in resolved
    /\ Cardinality({d \in resolved : Place(d) < Place(c)})
         = AffinityHash[r] % Cardinality(resolved)

Open(r, resolved) == {c \in resolved : Key(r, c) \notin blocked}

-----------------------------------------------------------------------------
(* Choosing among the remaining slots, under the tracker's mutex *)

Remaining(r) == plan[r] \ used[r]

\* c is the first of the slots from the place of a on, going round.
FirstFrom(a, slots, c) ==
    /\ c \in slots
    /\ \A d \in slots : Distance(a, c) <= Distance(a, d)

LeastPressureIgnored(r) == Remaining(r)     \* mutant: every slot is a candidate
LeastPressure(r) ==
    {c \in Remaining(r) : \A d \in Remaining(r) : inFlight[Key(r, c)] <= inFlight[Key(r, d)]}

\* Where a tie is broken from: the token's cursor if it names a remaining slot.
TieBreak(r) ==
    IF r \notin Sticky /\ cursor[Scope(r)] \in Remaining(r)
    THEN cursor[Scope(r)] ELSE head[r]

Selected(r, c) == FirstFrom(TieBreak(r), LeastPressure(r), c)

\* The slot after c, or c itself when it is the only one.
NextCursor(r, c, next) ==
    IF Remaining(r) = {c} THEN next = c
                          ELSE FirstFrom(c, Remaining(r) \ {c}, next)

-----------------------------------------------------------------------------
(* The attempt loop: chat_nonstream.go, chat_stream.go, responses_native.go *)

FallbackEvents == [from : Credentials, to : Credentials, reason : Reasons]

Goto(r, label) == pc' = [pc EXCEPT ![r] = label]

\* A request is accepted: its credentials are resolved, put in affinity order and
\* stripped of those with an active quota block (unless the store cannot be read).
Plan(r) ==
    /\ pc[r] = "idle"
    /\ \E resolved \in Resolvable, readable \in BOOLEAN :
         /\ plan' = [plan EXCEPT ![r] = IF readable THEN Open(r, resolved) ELSE resolved]
         /\ \E c \in resolved :
              HeadsOrder(r, resolved, c) /\ head' = [head EXCEPT ![r] = c]
    /\ IF plan'[r] = {}
       THEN Goto(r, "recording") /\ outcome' = [outcome EXCEPT ![r] = "pool_exhausted"]
       ELSE Goto(r, "choosing") /\ UNCHANGED outcome
    /\ UNCHANGED <<used, current, retryOf, started, pending, tally, shared>>

\* The fallback events of r once it turns to c.
WithFallback(r, c) ==
    IF pending[r] = "none" THEN trail[r]
    ELSE Append(trail[r], [from |-> current[r], to |-> c, reason |-> pending[r]])

CountAttempt(r) == attempts' = [attempts EXCEPT ![r] = @ + 1]

\* Take the least loaded remaining credential and count the reservation.
Reserve(r) ==
    /\ pc[r] = "choosing"
    /\ \E c, next \in Remaining(r) :
         /\ Selected(r, c)
         /\ NextCursor(r, c, next)
         /\ inFlight' = [inFlight EXCEPT ![Key(r, c)] = @ + 1]
         /\ cursor'   = IF r \in Sticky THEN cursor ELSE [cursor EXCEPT ![Scope(r)] = next]
         /\ used'     = [used EXCEPT ![r] = @ \cup {c}]
         /\ current'  = [current EXCEPT ![r] = c]
         /\ trail'    = [trail EXCEPT ![r] = WithFallback(r, c)]
    /\ CountAttempt(r)
    /\ pending' = [pending EXCEPT ![r] = "none"]
    /\ Goto(r, "checking")
    /\ UNCHANGED <<plan, head, retryOf, outcome, started, authRetries, refusals, blocked>>

\* The deferred release of an attempt's reservation.
Release(k) == inFlight' = [inFlight EXCEPT ![k] = IF @ <= 1 THEN 0 ELSE @ - 1]

EndAttempt(r, how) ==
    /\ Release(Key(r, current[r]))
    /\ outcome' = [outcome EXCEPT ![r] = how]
    /\ Goto(r, "judging")
    /\ UNCHANGED <<plan, head, used, current, retryOf, started, pending, tally, cursor, blocked>>

\* The re-check of model entitlement just before the upstream call.
FindEligible(r) ==
    /\ pc[r] = "checking"
    /\ Goto(r, "calling")
    /\ UNCHANGED <<plan, head, used, current, retryOf, outcome, started, pending, tally, shared>>

\* Mutant: the early return of an ineligible attempt leaves its reservation behind.
FindIneligibleLeaking(r) ==
    /\ pc[r] = "checking"
    /\ RouteOf[r] \in CatalogRoutes
    /\ outcome' = [outcome EXCEPT ![r] = "ineligible"]
    /\ Goto(r, "judging")
    /\ UNCHANGED <<plan, head, used, current, retryOf, started, pending, tally, shared>>

FindIneligible(r) ==
    /\ pc[r] = "checking"
    /\ RouteOf[r] \in CatalogRoutes
    /\ EndAttempt(r, "ineligible")

\* The sink sends the response header with the first event.
FirstByte(r) ==
    /\ pc[r] = "calling"
    /\ KindOf[r] # "complete"
    /\ ~started[r]
    /\ started' = [started EXCEPT ![r] = TRUE]
    /\ UNCHANGED <<pc, plan, head, used, current, retryOf, outcome, pending, tally, shared>>

\* A 401 precedes the first event; a stream ends well only after its first event.
Possible(r, reply) ==
    /\ reply \in {"auth401", "discovery401"} => RouteOf[r] \in OAuthRoutes /\ ~started[r]
    /\ reply = "ok" => started[r] = (KindOf[r] # "complete")

Reply(r) ==
    /\ pc[r] = "calling"
    /\ \E reply \in UpstreamReplies : Possible(r, reply) /\ EndAttempt(r, reply)

\* A first 401 leads to a refresh of the bearer; the native loop has no discovery retry.
Refreshable(r) ==
    /\ retryOf[r] = "none"
    /\ outcome[r] \in IF KindOf[r] = "native" THEN {"auth401"} ELSE {"auth401", "discovery401"}

RefreshFails(r) ==
    /\ pc[r] = "judging" /\ Refreshable(r)
    /\ outcome' = [outcome EXCEPT ![r] = "auth_failed"]
    /\ UNCHANGED <<pc, plan, head, used, current, retryOf, started, pending, tally, shared>>

\* Mutant: the retry with a refreshed bearer is not counted as an auth retry.
CountAuthRetryLost(r) == UNCHANGED authRetries
CountAuthRetry(r)     == authRetries' = [authRetries EXCEPT ![r] = @ + 1]

\* The refreshed bearer is tried at once, whatever the pressure on its credential.
Reattempt(r) ==
    /\ pc[r] = "judging" /\ Refreshable(r)
    /\ inFlight' = [inFlight EXCEPT ![Key(r, current[r])] = @ + 1]
    /\ retryOf'  = [retryOf EXCEPT ![r] = outcome[r]]
    /\ outcome'  = [outcome EXCEPT ![r] = "none"]
    /\ CountAttempt(r)
    /\ CountAuthRetry(r)
    /\ Goto(r, "checking")
    /\ UNCHANGED <<plan, head, used, current, started, pending, refusals, trail, cursor, blocked>>

\* A second 401 becomes the retryable upstream_auth_failed.
Verdict(r) ==
    IF \/ retryOf[r] = "discovery401" /\ outcome[r] \in {"auth401", "discovery401"}
       \/ retryOf[r] = "auth401" /\ outcome[r] = "auth401"
    THEN "auth_failed" ELSE outcome[r]

\* Mutant: a failure after the first event is retried as well.
RetryReasonLate(r, how) ==
    CASE how = "auth_failed"                   -> "auth_retry"
      [] how = "quota"                         -> "quota_retry"
      [] how \in {"unavailable", "ineligible"} -> "availability_retry"
      [] OTHER                                 -> "none"

\* Mutant: every retry without an auth failure is reported as a quota retry.
RetryReasonMixed(r, how) ==
    IF started[r] THEN "none" ELSE
    CASE how = "auth_failed"                            -> "auth_retry"
      [] how \in {"quota", "unavailable", "ineligible"} -> "quota_retry"
      [] OTHER                                          -> "none"

RetryReason(r, how) ==
    IF started[r] THEN "none" ELSE
    CASE how = "auth_failed"                   -> "auth_retry"
      [] how = "quota"                         -> "quota_retry"
      [] how \in {"unavailable", "ineligible"} -> "availability_retry"
      [] OTHER                                 -> "none"

\* Mutant: the last credential of the plan is never reached.
StopsShort(r, why) == why = "none" \/ Cardinality(Remaining(r)) <= 1
Stops(r, why) == why = "none" \/ Remaining(r) = {}

\* The attempt's outcome is final: note a refusal, then fall back or stop.
Settle(r) ==
    /\ pc[r] = "judging" /\ ~Refreshable(r)
    /\ LET how == Verdict(r)
           why == RetryReason(r, how)
           stop == Stops(r, why)
       IN  /\ refusals' = IF how = "quota"
                          THEN [refusals EXCEPT ![r] = @ \cup {current[r]}] ELSE refusals
           /\ outcome' = [outcome EXCEPT ![r] = IF stop THEN how ELSE "none"]
           /\ pending' = [pending EXCEPT ![r] = IF stop THEN "none" ELSE why]
           /\ Goto(r, IF stop THEN "recording" ELSE "choosing")
    /\ retryOf' = [retryOf EXCEPT ![r] = "none"]
    /\ UNCHANGED <<plan, head, used, current, started, attempts, authRetries, trail, shared>>

\* The response is out and the request is recorded; refusals become quota blocks in
\* so far as their rows could be written.  The handler's locals end with it.
Record(r) ==
    /\ pc[r] = "recording"
    /\ \E written \in SUBSET refusals[r] :
           blocked' = blocked \cup {Key(r, c) : c \in written}
    /\ Goto(r, "idle")
    /\ plan'    = [plan EXCEPT ![r] = {}]
    /\ head'    = [head EXCEPT ![r] = None]
    /\ used'    = [used EXCEPT ![r] = {}]
    /\ current' = [current EXCEPT ![r] = None]
    /\ outcome' = [outcome EXCEPT ![r] = "none"]
    /\ started' = [started EXCEPT ![r] = FALSE]
    /\ attempts' = [attempts EXCEPT ![r] = 0]
    /\ authRetries' = [authRetries EXCEPT ![r] = 0]
    /\ refusals' = [refusals EXCEPT ![r] = {}]
    /\ trail' = [trail EXCEPT ![r] = <<>>]
    /\ UNCHANGED <<retryOf, pending, inFlight, cursor>>

\* The cooldown of a quota block passes.
Expire(k) ==
    /\ k \in blocked
    /\ blocked' = blocked \ {k}
    /\ UNCHANGED <<local, inFlight, cursor>>

-----------------------------------------------------------------------------
Init ==
    /\ pc      = [r \in Requests |-> "idle"]
    /\ plan    = [r \in Requests |-> {}]
    /\ head    = [r \in Requests |-> None]
    /\ used    = [r \in Requests |-> {}]
    /\ current = [r \in Requests |-> None]
    /\ retryOf = [r \in Requests |-> "none"]
    /\ outcome = [r \in Requests |-> "none"]
    /\ started = [r \in Requests |-> FALSE]
    /\ pending = [r \in Requests |-> "none"]
    /\ attempts = [r \in Requests |-> 0]
    /\ authRetries = [r \in Requests |-> 0]
    /\ refusals = [r \in Requests |-> {}]
    /\ trail = [r \in Requests |-> <<>>]
    /\ inFlight = [k \in Keys |-> 0]
    /\ cursor  = [s \in Routes \X Tokens |-> None]
    /\ blocked = {}

\* What a handler does on its own once its request is planned.
Advance(r) ==
    \/ Reserve(r)
    \/ FindEligible(r)
    \/ FindIneligible(r)
    \/ Reply(r)
    \/ RefreshFails(r)
    \/ Reattempt(r)
    \/ Settle(r)
    \/ Record(r)

Next ==
    \/ \E r \in Requests : Plan(r) \/ Advance(r) \/ FirstByte(r)
    \/ \E k \in Keys : Expire(k)

Spec == Init /\ [][Next]_vars

-----------------------------------------------------------------------------
(* Properties *)

\* Every variable has its type.
TypeOK ==
    /\ pc \in [Requests -> {"idle", "choosing", "checking", "calling", "judging", "recording"}]
    /\ plan \in [Requests -> SUBSET Credentials]
    /\ head \in [Requests -> Credentials \cup {None}]
    /\ used \in [Requests -> SUBSET Credentials]
    /\ current \in [Requests -> Credentials \cup {None}]
    /\ retryOf \in [Requests -> {"none", "auth401", "discovery401"}]
    /\ outcome \in [Requests -> Outcomes \cup {"none"}]
    /\ started \in [Requests -> BOOLEAN]
    /\ pending \in [Requests -> Reasons \cup {"none"}]
    /\ attempts \in [Requests -> Nat]
    /\ authRetries \in [Requests -> Nat]
    /\ refusals \in [Requests -> SUBSET Credentials]
    /\ trail \in [Requests -> Seq(FallbackEvents)]
    /\ inFlight \in [Keys -> Nat]
    /\ cursor \in [Routes \X Tokens -> Credentials \cup {None}]
    /\ blocked \in SUBSET Keys

Holding(r) == pc[r] \in {"checking", "calling"}
Holders(k) == {r \in Requests : Holding(r) /\ Key(r, current[r]) = k}

\* The tracker's counts are exactly the attempts under way: the deferred release of
\* every attempt, the re-acquired auth retry included, undoes its own reservation once
\* and no other's, so that no credential looks busy when it is idle or the reverse.
PressureAccounting == \A k \in Keys : inFlight[k] = Cardinality(Holders(k))

\* A request gives up on a retryable failure (quota, availability, failed refresh) only
\* once every credential of its plan was tried, unless response bytes were sent.
PoolExhaustedBeforeFailure ==
    \A r \in Requests :
        /\ pc[r] = "recording"
        /\ outcome[r] \in {"quota", "unavailable", "ineligible", "auth_failed"}
        /\ ~started[r]
        => used[r] = plan[r]

\* The fallback events a request reports are one path through its plan: each starts
\* where the one before ended, no credential is entered twice, the last ends at the
\* credential that answered; and every attempt is counted as a credential's first one
\* or as an auth retry, at most one a credential.
FallbackTrail ==
    \A r \in Requests :
        LET steps == DOMAIN trail[r]
            last  == Len(trail[r])
        IN  pc[r] = "recording" /\ outcome[r] # "pool_exhausted" =>
            /\ Cardinality(used[r]) = last + 1
            /\ \A i \in steps : i > 1 => trail[r][i].from = trail[r][i - 1].to
            /\ \A i, j \in steps : trail[r][i].to = trail[r][j].to => i = j
            /\ last > 0 => trail[r][last].to = current[r]
            /\ attempts[r] = Cardinality(used[r]) + authRetries[r]
            /\ authRetries[r] <= Cardinality(used[r])

\* Whatever made a request leave a credential for its quota is also handed to the
\* store as that credential's refusal, and nothing else is but a final refusal.
RefusalsExplainFallbacks ==
    \A r \in Requests :
        LET left == {e.from : e \in {trail[r][i] : i \in {j \in DOMAIN trail[r] :
                                       trail[r][j].reason = "quota_retry"}}}
        IN  pc[r] = "recording" =>
            refusals[r] = left \cup (IF outcome[r] = "quota" THEN {current[r]} ELSE {})

\* A new reservation by r: the first attempt of a credential.
Reserves(r) == pc[r] = "choosing" /\ pc'[r] = "checking"

\* No attempt of any kind starts once the client has been sent a byte of the response:
\* neither a fallback nor the retry with a refreshed bearer.
NoAttemptAfterFirstByte ==
    [][\A r \in Requests :
         attempts'[r] > attempts[r] => ~started[r] /\ ~started'[r]]_vars

\* A reservation never piles up: with n handlers, the credential reserved among m
\* remaining ones carries at most (n - 1) \div m other attempts of its route.
FairShare ==
    [][\A r \in Requests :
         Reserves(r) => inFlight[Key(r, current'[r])]
                            <= (Cardinality(Requests) - 1) \div Cardinality(Remaining(r))]_vars
=============================================================================
