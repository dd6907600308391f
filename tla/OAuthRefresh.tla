---------------------------- MODULE OAuthRefresh ----------------------------
(***************************************************************************)
(* How the OAuth accounts of one provider instance are kept usable         *)
(* (internal/credentials/upstream.go over storage/sqlite/oauth_*.go).      *)
(*                                                                         *)
(* Callers (request handlers, model discovery, management) resolve         *)
(* bearers, which refreshes those about to expire, or ask for a refresh    *)
(* after an upstream refused a bearer.  Refreshes of a credential share a  *)
(* single flight; a refresh for the whole provider is a flight of its own  *)
(* around those.  The issuer is the external token endpoint: a refresh     *)
(* token is a number, its n-th answer for a credential carries token n.    *)
(***************************************************************************)
EXTENDS Integers, FiniteSets

CONSTANTS
    Callers,      \* goroutines that resolve or refresh
    Cancellable,  \* those of them whose context may end early
    Credentials,  \* row ids of the provider's OAuth credentials
    Provider,     \* the flight key of the provider instance
    None,         \* no caller, token or credential
    MarkTries,    \* compare-and-set tries of a failure record, 8 in the code
    MaxFailures,  \* bound: the failure count saturates here
    MaxIssued,    \* bound: tokens the issuer hands out per credential
    MaxLogins     \* bound: device logins per credential

ASSUME CallersAssumption == None \notin Callers /\ Cancellable \subseteq Callers

ASSUME CredentialsAssumption ==
    /\ Credentials \subseteq Nat
    /\ Provider \notin Credentials
    /\ None \notin Credentials \cup Nat

ASSUME BoundsAssumption ==
    /\ MarkTries \in Nat \ {0}
    /\ MaxFailures \in Nat \ {0}
    /\ MaxIssued \in Nat
    /\ MaxLogins \in Nat

Keys == Credentials \cup {Provider}

VARIABLES
    access,    \* stored access token of each credential
    refresh,   \* stored refresh token
    expiry,    \* stored expiry seen from now: "fresh", "due" within the lead time, "expired"
    failure,   \* stored refresh failure class: "", "transient" or "terminal"
    failures,  \* stored count of consecutive refresh failures
    waiting,   \* the stored retry-after lies ahead
    flight,    \* the caller leading the call in flight of each key
    closed,    \* that call is done but not yet removed
    verdict,   \* the error of that call once it is done: "ok", "failed", "ineligible" or "cancelled"
    pc,        \* where each caller is
    target,    \* the credential it refreshes
    back,      \* where it goes once that refresh returned
    todo,      \* stale credentials still to refresh
    stale,     \* the refused bearer it answers, None if the refresh is unconditional
    sent,      \* the refresh token it sent
    reply,     \* the issuer's answer
    seen,      \* the failure state it read
    tries,     \* its compare-and-set tries
    result,    \* the error it is about to return or to pass on
    cancelled, \* its context is cancelled
    live,      \* refresh tokens the issuer honours
    issued,    \* tokens the issuer handed out
    logins,    \* device logins so far
    spoiled,   \* history: the stored grant was revoked, or an answer with its next token lost
    blame      \* history: the refresh token whose refusal set the terminal class it has

grant  == <<access, refresh, expiry>>
mark   == <<failure, failures, waiting>>
calls  == <<flight, closed, verdict>>
route  == <<target, back, todo, stale>>
work   == <<sent, reply, seen, tries>>
issuer == <<live, issued, logins, spoiled>>
vars   == <<grant, mark, calls, pc, route, work, result, cancelled, issuer, blame>>

IdOf(r) == target[r]
Yields(r, value) == result' = [result EXCEPT ![r] = value]

\* A call that returns to "idle" takes its context along.
Goto(r, label) ==
    /\ pc' = [pc EXCEPT ![r] = label]
    /\ cancelled' = IF label = "idle" THEN [cancelled EXCEPT ![r] = FALSE] ELSE cancelled

\* The callers in js return from a refresh of a credential with the given error, which
\* only the provider's refresh passes on.
Returned(js, value) ==
    /\ target' = [j \in Callers |-> IF j \in js THEN None ELSE target[j]]
    /\ stale'  = [j \in Callers |-> IF j \in js THEN None ELSE stale[j]]
    /\ back'   = [j \in Callers |-> IF j \in js THEN "idle" ELSE back[j]]
    /\ result' = [j \in Callers |->
                     IF j \notin js THEN result[j]
                     ELSE IF back[j] = "closeProvider" THEN value ELSE "ok"]

Least(ids, c) == c \in ids /\ \A d \in ids : c <= d

-----------------------------------------------------------------------------
(* Entry points *)

RefreshOAuthProviderCredential(r) ==
    /\ pc[r] = "idle"
    /\ Goto(r, "enterProvider")
    /\ UNCHANGED <<grant, mark, calls, route, work, result, issuer, blame>>

\* A call for one credential, with the refused bearer or none.
Asks(r, c, bearer) ==
    /\ pc[r] = "idle"
    /\ Goto(r, "enter")
    /\ target' = [target EXCEPT ![r] = c]
    /\ back'   = [back EXCEPT ![r] = "idle"]
    /\ stale'  = [stale EXCEPT ![r] = bearer]
    /\ UNCHANGED <<grant, mark, calls, todo, work, result, issuer, blame>>

RefreshOAuthCredential(r, c) == Asks(r, c, None)

\* The bearer was resolved, so it was eligible then; the upstream refuses it meanwhile.
RefreshOAuthCredentialIfBearer(r, c) ==
    /\ failure[c] # "terminal" /\ expiry[c] # "expired"
    /\ Asks(r, c, access[c])

-----------------------------------------------------------------------------
(* The single flight: OAuthRefreshCalls.do *)

BusyNever(k) == FALSE     \* mutant: a call in flight is not found
Busy(k) == flight[k] # None

Lead(r, k) ==
    /\ flight' = [flight EXCEPT ![k] = r]
    /\ UNCHANGED <<closed, verdict>>

\* Lead the call of the credential, wait for the one in flight, or take over the error
\* of a call that is done but not yet removed.
Enter(r) ==
    /\ pc[r] = "enter"
    /\ LET c == IdOf(r) IN
       IF ~Busy(c) THEN Lead(r, c) /\ Goto(r, "check") /\ UNCHANGED <<target, stale, back, result>>
       ELSE IF closed[c] THEN Goto(r, back[r]) /\ Returned({r}, verdict[c]) /\ UNCHANGED calls
       ELSE Goto(r, "wait") /\ UNCHANGED <<calls, target, stale, back, result>>
    /\ UNCHANGED <<grant, mark, todo, work, issuer, blame>>

EnterProvider(r) ==
    /\ pc[r] = "enterProvider"
    /\ IF ~Busy(Provider) THEN Lead(r, Provider) /\ Goto(r, "list")
       ELSE Goto(r, IF closed[Provider] THEN "idle" ELSE "waitProvider") /\ UNCHANGED calls
    /\ UNCHANGED <<grant, mark, route, work, result, issuer, blame>>

\* A waiting caller whose own context ends.
Abandon(r) ==
    /\ cancelled[r]
    /\ \/ pc[r] = "wait" /\ Goto(r, back[r]) /\ Returned({r}, "cancelled")
       \/ /\ pc[r] = "waitProvider" /\ Goto(r, "idle")
          /\ UNCHANGED <<target, stale, back, result>>
    /\ UNCHANGED <<grant, mark, calls, todo, work, issuer, blame>>

WaitersNone(k) == {}     \* mutant: done is not closed
Waiters(k) ==
    {j \in Callers : \/ pc[j] = "wait" /\ target[j] = k
                     \/ pc[j] = "waitProvider" /\ k = Provider}

\* fn returned: its error is set and done is closed, which wakes every waiter.
Finish(r, k, label) ==
    /\ closed'  = [closed EXCEPT ![k] = TRUE]
    /\ verdict' = [verdict EXCEPT ![k] = result[r]]
    /\ pc' = [j \in Callers |-> IF j = r THEN label
                                ELSE IF j \in Waiters(k) THEN back[j] ELSE pc[j]]
    /\ cancelled' = [j \in Callers |->
                        cancelled[j] /\ ~(j \in Waiters(k) /\ back[j] = "idle")]
    /\ Returned(Waiters(k), result[r])
    /\ UNCHANGED <<grant, mark, flight, todo, work, issuer, blame>>

\* The call leaves the map in a critical section of its own.
Remove(k) ==
    /\ flight'  = [flight EXCEPT ![k] = None]
    /\ closed'  = [closed EXCEPT ![k] = FALSE]
    /\ verdict' = [verdict EXCEPT ![k] = "ok"]

Close(r) == pc[r] = "close" /\ Finish(r, IdOf(r), "delete")

Delete(r) ==
    /\ pc[r] = "delete"
    /\ Remove(IdOf(r))
    /\ Goto(r, back[r])
    /\ Returned({r}, result[r])
    /\ UNCHANGED <<grant, mark, todo, work, issuer, blame>>

CloseProvider(r) == pc[r] = "closeProvider" /\ Finish(r, Provider, "deleteProvider")

DeleteProvider(r) ==
    /\ pc[r] = "deleteProvider"
    /\ Remove(Provider)
    /\ Goto(r, "idle")
    /\ Yields(r, "ok")
    /\ UNCHANGED <<grant, mark, route, work, issuer, blame>>

-----------------------------------------------------------------------------
(* Resolving bearers, which refreshes stale ones first *)

Terminal(c) == failure[c] = "terminal"
Eligible(c) == ~Terminal(c) /\ expiry[c] # "expired"

\* The rows to refresh: neither locked out nor backing off, and within the lead time.
Stale == {c \in Credentials : ~Terminal(c) /\ ~waiting[c] /\ expiry[c] # "fresh"}

ResolveOAuthBearers(r) ==
    /\ pc[r] \in {"idle", "list"}
    /\ todo' = [todo EXCEPT ![r] = IF cancelled[r] THEN {} ELSE Stale]
    /\ Goto(r, "loop")
    /\ UNCHANGED <<grant, mark, calls, target, back, stale, work, result, issuer, blame>>

\* The next listed row is refreshed, whatever became of the one before.
NextStale(r) ==
    /\ pc[r] = "loop"
    /\ \E c \in todo[r] :
         /\ Least(todo[r], c)
         /\ target' = [target EXCEPT ![r] = c]
         /\ todo'   = [todo EXCEPT ![r] = @ \ {c}]
    /\ back'  = [back EXCEPT ![r] = "loop"]
    /\ stale' = [stale EXCEPT ![r] = None]
    /\ Goto(r, "enter")
    /\ UNCHANGED <<grant, mark, calls, work, result, issuer, blame>>

\* The rows read last decide the answer; within the provider flight, no bearer at all
\* leads to a refresh of the first row that may be refreshed.
Resolve(r) ==
    /\ pc[r] = "loop" /\ todo[r] = {}
    /\ LET how == IF cancelled[r] THEN "cancelled"
                  ELSE IF \E c \in Credentials : Eligible(c) THEN "ok" ELSE "ineligible"
       IN  Goto(r, IF flight[Provider] # r THEN "idle"
                   ELSE IF how = "ok" THEN "closeProvider" ELSE "pick")
    /\ UNCHANGED <<grant, mark, calls, route, work, result, issuer, blame>>

\* What ResolveOAuthRefreshCredential(ForProvider) selects.
RefreshableAlways(c) == ~waiting[c]     \* mutant: a terminal class does not exclude a row
Refreshable(c) == ~Terminal(c) /\ ~waiting[c]

Pick(r) ==
    /\ pc[r] = "pick"
    /\ LET rows == {c \in Credentials : Refreshable(c)}
       IN  IF cancelled[r] \/ rows = {}
           THEN /\ Yields(r, IF cancelled[r] THEN "cancelled" ELSE "ineligible")
                /\ Goto(r, "closeProvider")
                /\ UNCHANGED route
           ELSE /\ \E c \in rows :
                     Least(rows, c) /\ target' = [target EXCEPT ![r] = c]
                /\ back'  = [back EXCEPT ![r] = "closeProvider"]
                /\ stale' = [stale EXCEPT ![r] = None]
                /\ Goto(r, "enter")
                /\ UNCHANGED <<todo, result>>
    /\ UNCHANGED <<grant, mark, calls, work, issuer, blame>>

-----------------------------------------------------------------------------
(* The leader of a credential's flight: refreshOAuthCredential *)

\* The call ends with an error or nil; its locals end with it.
Return(r, value) ==
    /\ Yields(r, value)
    /\ Goto(r, "close")
    /\ sent'  = [sent EXCEPT ![r] = None]
    /\ reply' = [reply EXCEPT ![r] = None]
    /\ seen'  = [seen EXCEPT ![r] = None]
    /\ tries' = [tries EXCEPT ![r] = 0]

\* The stored bearer is no longer the refused one (a locked out row has none to compare).
SupersededNever(r) == FALSE     \* mutant: the refused bearer is not compared
Superseded(r) ==
    /\ ~cancelled[r]
    /\ stale[r] # None
    /\ ~Terminal(IdOf(r))
    /\ access[IdOf(r)] # stale[r]

Check(r) ==
    /\ pc[r] = "check"
    /\ IF Superseded(r) THEN Return(r, "ok")
                        ELSE Goto(r, "select") /\ UNCHANGED <<work, result>>
    /\ UNCHANGED <<grant, mark, calls, route, issuer, blame>>

Select(r) ==
    /\ pc[r] = "select"
    /\ IF cancelled[r] THEN Return(r, "cancelled")
       ELSE IF Refreshable(IdOf(r)) THEN Goto(r, "send") /\ UNCHANGED <<work, result>>
       ELSE Return(r, "ineligible")
    /\ UNCHANGED <<grant, mark, calls, route, issuer, blame>>

\* Read the secret and send it to the token endpoint.
Send(r) ==
    /\ pc[r] = "send"
    /\ IF cancelled[r]
       THEN Return(r, "cancelled")
       ELSE /\ sent' = [sent EXCEPT ![r] = refresh[IdOf(r)]]
            /\ Goto(r, "sent")
            /\ UNCHANGED <<reply, seen, tries, result>>
    /\ UNCHANGED <<grant, mark, calls, route, issuer, blame>>

\* Mutant: the rotated refresh token is dropped, the stored one stays.
KeptToken(r)     == refresh[IdOf(r)]
NextToken(r) == IF reply[r].refresh = None THEN refresh[IdOf(r)] ELSE reply[r].refresh

\* UpdateOAuthTokens: both tokens, the expiry and the failure state in one transaction.
Store(r) ==
    /\ pc[r] = "answered" /\ reply[r].class = ""
    /\ LET c == IdOf(r) IN
       IF cancelled[r]
       THEN /\ Return(r, "cancelled")
            /\ spoiled' = [spoiled EXCEPT ![c] = @ \/ reply[r].refresh # None]
            /\ UNCHANGED <<grant, mark, blame>>
       ELSE /\ access'   = [access EXCEPT ![c] = reply[r].access]
            /\ refresh'  = [refresh EXCEPT ![c] = NextToken(r)]
            /\ expiry'   = [expiry EXCEPT ![c] = "fresh"]
            /\ failure'  = [failure EXCEPT ![c] = ""]
            /\ failures' = [failures EXCEPT ![c] = 0]
            /\ waiting'  = [waiting EXCEPT ![c] = FALSE]
            /\ blame'    = [blame EXCEPT ![c] = None]
            /\ Goto(r, "describe")
            /\ UNCHANGED <<work, result, spoiled>>
    /\ UNCHANGED <<calls, route, live, issued, logins>>

\* The account labels of the ID token, if there is one, are written separately.
Describe(r) ==
    /\ pc[r] = "describe"
    /\ \/ Return(r, "ok")
       \/ cancelled[r] /\ Return(r, "cancelled")
    /\ UNCHANGED <<grant, mark, calls, route, issuer, blame>>

\* recordOAuthRefreshFailure reads the failure state ...
ReadFailure(r) ==
    /\ pc[r] = "answered" /\ reply[r].class # ""
    /\ LET c == IdOf(r) IN
       IF cancelled[r] THEN Return(r, "cancelled")
       ELSE IF Terminal(c) THEN Return(r, "ineligible")
       ELSE /\ seen' = [seen EXCEPT ![r] = <<failure[c], failures[c]>>]
            /\ Goto(r, "mark")
            /\ UNCHANGED <<sent, reply, tries, result>>
    /\ UNCHANGED <<grant, mark, calls, route, issuer, blame>>

\* The count saturates at MaxFailures, a bound of the model only.
Count(r) ==
    IF reply[r].class = "terminal" THEN 0
    ELSE IF seen[r][2] < MaxFailures THEN seen[r][2] + 1 ELSE MaxFailures

\* ... and replaces it if its class and count are still the ones read.
MarkFailure(r) ==
    /\ pc[r] = "mark"
    /\ LET c == IdOf(r) IN
       IF cancelled[r]
       THEN Return(r, "cancelled") /\ UNCHANGED <<mark, blame>>
       ELSE IF seen[r] = <<failure[c], failures[c]>>
       THEN /\ failure'  = [failure EXCEPT ![c] = reply[r].class]
            /\ failures' = [failures EXCEPT ![c] = Count(r)]
            /\ waiting'  = [waiting EXCEPT ![c] = reply[r].class = "transient"]
            /\ blame'    = [blame EXCEPT ![c] = IF reply[r].class = "terminal" THEN sent[r] ELSE None]
            /\ Return(r, "failed")
       ELSE /\ IF tries[r] + 1 < MarkTries
               THEN /\ Goto(r, "answered")
                    /\ tries' = [tries EXCEPT ![r] = @ + 1]
                    /\ UNCHANGED <<sent, reply, seen, result>>
               ELSE Return(r, "failed")
            /\ UNCHANGED <<mark, blame>>
    /\ UNCHANGED <<grant, calls, route, issuer>>

-----------------------------------------------------------------------------
(* The token endpoint, the clock, contexts, device logins, and the process *)

Answers == [class : {""}, access : Nat, refresh : Nat \cup {None}]
             \cup [class : {"transient", "terminal"}]

Answer(r, a) ==
    /\ reply' = [reply EXCEPT ![r] = a]
    /\ Goto(r, "answered")
    /\ UNCHANGED <<grant, mark, calls, route, sent, seen, tries, result,
                   logins, blame>>

\* A live token buys a new access token and, when the issuer rotates, its successor.
Exchange(r) ==
    /\ pc[r] = "sent"
    /\ sent[r] \in live[IdOf(r)] /\ issued[IdOf(r)] < MaxIssued
    /\ LET c == IdOf(r)
           n == issued[c] + 1
       IN  /\ issued' = [issued EXCEPT ![c] = n]
           /\ \/ /\ Answer(r, [class |-> "", access |-> n, refresh |-> None])
                 /\ UNCHANGED <<live, spoiled>>
              \/ /\ live' = [live EXCEPT ![c] = (@ \ {sent[r]}) \cup {n}]
                 /\ \/ /\ Answer(r, [class |-> "", access |-> n, refresh |-> n])
                       /\ UNCHANGED spoiled
                    \* the answer is lost on its way, or cannot be read
                    \/ /\ Answer(r, [class |-> "transient"])
                       /\ spoiled' = [spoiled EXCEPT ![c] = TRUE]

\* A token that was used up or revoked is refused for good.
Refuse(r) ==
    /\ pc[r] = "sent"
    /\ sent[r] \notin live[IdOf(r)]
    /\ Answer(r, [class |-> "terminal"])
    /\ UNCHANGED <<live, issued, spoiled>>

\* No usable answer within the adapter's timeout, or the context ended: transient.
Fail(r) ==
    /\ pc[r] = "sent"
    /\ Answer(r, [class |-> "transient"])
    /\ UNCHANGED <<live, issued, spoiled>>

Revoke(c) ==
    /\ live[c] # {}
    /\ live'    = [live EXCEPT ![c] = {}]
    /\ spoiled' = [spoiled EXCEPT ![c] = TRUE]
    /\ UNCHANGED <<grant, mark, calls, pc, route, work, result, cancelled, issued, logins, blame>>

Age(c) ==
    /\ expiry[c] # "expired"
    /\ expiry' = [expiry EXCEPT ![c] = IF @ = "fresh" THEN "due" ELSE "expired"]
    /\ UNCHANGED <<access, refresh, mark, calls, pc, route, work, result, cancelled, issuer, blame>>

EndBackoff(c) ==
    /\ waiting[c]
    /\ waiting' = [waiting EXCEPT ![c] = FALSE]
    /\ UNCHANGED <<grant, failure, failures, calls, pc, route, work, result, cancelled,
                   issuer, blame>>

Cancel(r) ==
    /\ r \in Cancellable /\ pc[r] # "idle" /\ ~cancelled[r]
    /\ cancelled' = [cancelled EXCEPT ![r] = TRUE]
    /\ UNCHANGED <<grant, mark, calls, pc, route, work, result, issuer, blame>>

\* A completed device login of the same account: UpsertOAuthCredentialForAccountHash
\* overwrites both secrets and clears the failure state, outside of any flight.
Login(c) ==
    /\ logins[c] < MaxLogins
    /\ LET n == issued[c] + 1 IN
         /\ issued'  = [issued EXCEPT ![c] = n]
         /\ live'    = [live EXCEPT ![c] = @ \cup {n}]
         /\ access'  = [access EXCEPT ![c] = n]
         /\ refresh' = [refresh EXCEPT ![c] = n]
    /\ logins'   = [logins EXCEPT ![c] = @ + 1]
    /\ spoiled'  = [spoiled EXCEPT ![c] = FALSE]
    /\ expiry'   = [expiry EXCEPT ![c] = "fresh"]
    /\ failure'  = [failure EXCEPT ![c] = ""]
    /\ failures' = [failures EXCEPT ![c] = 0]
    /\ waiting'  = [waiting EXCEPT ![c] = FALSE]
    /\ blame'    = [blame EXCEPT ![c] = None]
    /\ UNCHANGED <<calls, pc, route, work, result, cancelled>>

\* Callers whose answer from the issuer never reaches the store when the process stops.
CarriesToken(r) == pc[r] = "answered" /\ reply[r].class = "" /\ reply[r].refresh # None

\* The process stops and starts again: the store stays, every caller and call is gone.
Restart ==
    /\ \E r \in Callers : pc[r] # "idle"
    /\ spoiled' = [c \in Credentials |->
                     spoiled[c] \/ \E r \in Callers : CarriesToken(r) /\ IdOf(r) = c]
    /\ flight'    = [k \in Keys |-> None]
    /\ closed'    = [k \in Keys |-> FALSE]
    /\ verdict'   = [k \in Keys |-> "ok"]
    /\ pc'        = [r \in Callers |-> "idle"]
    /\ target'    = [r \in Callers |-> None]
    /\ back'      = [r \in Callers |-> "idle"]
    /\ todo'      = [r \in Callers |-> {}]
    /\ stale'     = [r \in Callers |-> None]
    /\ sent'      = [r \in Callers |-> None]
    /\ reply'     = [r \in Callers |-> None]
    /\ seen'      = [r \in Callers |-> None]
    /\ tries'     = [r \in Callers |-> 0]
    /\ result'    = [r \in Callers |-> "ok"]
    /\ cancelled' = [r \in Callers |-> FALSE]
    /\ UNCHANGED <<grant, mark, live, issued, logins, blame>>

-----------------------------------------------------------------------------
\* Every credential holds the tokens of its first login, number 0.
Init ==
    /\ access    = [c \in Credentials |-> 0]
    /\ refresh   = [c \in Credentials |-> 0]
    /\ expiry    = [c \in Credentials |-> "fresh"]
    /\ failure   = [c \in Credentials |-> ""]
    /\ failures  = [c \in Credentials |-> 0]
    /\ waiting   = [c \in Credentials |-> FALSE]
    /\ flight    = [k \in Keys |-> None]
    /\ closed    = [k \in Keys |-> FALSE]
    /\ verdict   = [k \in Keys |-> "ok"]
    /\ pc        = [r \in Callers |-> "idle"]
    /\ target    = [r \in Callers |-> None]
    /\ back      = [r \in Callers |-> "idle"]
    /\ todo      = [r \in Callers |-> {}]
    /\ stale     = [r \in Callers |-> None]
    /\ sent      = [r \in Callers |-> None]
    /\ reply     = [r \in Callers |-> None]
    /\ seen      = [r \in Callers |-> None]
    /\ tries     = [r \in Callers |-> 0]
    /\ result    = [r \in Callers |-> "ok"]
    /\ cancelled = [r \in Callers |-> FALSE]
    /\ live      = [c \in Credentials |-> {0}]
    /\ issued    = [c \in Credentials |-> 0]
    /\ logins    = [c \in Credentials |-> 0]
    /\ spoiled   = [c \in Credentials |-> FALSE]
    /\ blame     = [c \in Credentials |-> None]

Begin(r) ==
    \/ ResolveOAuthBearers(r)
    \/ RefreshOAuthProviderCredential(r)
    \/ \E c \in Credentials : RefreshOAuthCredential(r, c)
    \/ \E c \in Credentials : RefreshOAuthCredentialIfBearer(r, c)

\* What a caller does on its own once it was called.
Advance(r) ==
    \/ Enter(r) \/ EnterProvider(r)
    \/ Close(r) \/ Delete(r) \/ CloseProvider(r) \/ DeleteProvider(r)
    \/ (pc[r] = "list" /\ ResolveOAuthBearers(r)) \/ NextStale(r) \/ Resolve(r) \/ Pick(r)
    \/ Check(r) \/ Select(r) \/ Send(r) \/ Store(r) \/ Describe(r)
    \/ ReadFailure(r) \/ MarkFailure(r)

IssuerStep(r) == Exchange(r) \/ Refuse(r) \/ Fail(r)

Next ==
    \/ \E r \in Callers :
         Begin(r) \/ Advance(r) \/ IssuerStep(r) \/ Abandon(r) \/ Cancel(r)
    \/ \E c \in Credentials : Revoke(c) \/ Age(c) \/ EndBackoff(c) \/ Login(c)
    \/ Restart

Spec == Init /\ [][Next]_vars

\* Goroutines run, and the adapter's 30 second timeout ends every request to the issuer.
FairSpec ==
    /\ Spec
    /\ \A r \in Callers : WF_vars(Advance(r)) /\ WF_vars(IssuerStep(r))

-----------------------------------------------------------------------------
(* Properties *)

\* An account is locked out only after its grant was revoked or an answer that carried
\* its next refresh token was lost: concurrent refreshes never use a token up twice. A
\* device login beside a refresh is another matter, see ReauthClearsFailure.
LockedOutOnlyByLoss ==
    \A c \in Credentials : failure[c] = "terminal" => spoiled[c] \/ logins[c] > 0

\* A lockout ends by a new device login only, never by a refresh that was under way.
TerminalUntilReauth ==
    [][\A c \in Credentials :
         Terminal(c) /\ ~Terminal(c)' => logins'[c] > logins[c]]_vars

\* The refresh token of a locked out account is not presented to the issuer.
RefusedTokenNotPresented ==
    \A r \in Callers : pc[r] \in {"send", "sent"} => ~Terminal(IdOf(r))

\* A refresh that answers a refused bearer replaces that bearer and no later one: callers
\* that were refused the same bearer, at whatever time, rotate it once. A refresh under way
\* may overwrite the bearer of a device login.
RefusedBearerOnly ==
    [][\A r \in Callers :
         pc[r] = "answered" /\ pc'[r] = "describe" /\ stale[r] # None
         => access[IdOf(r)] = stale[r] \/ logins[IdOf(r)] > 0]_vars

\* A device login clears the failure, and no answer to an older refresh token brings it
\* back: a locked out account holds the very token that was refused.
ReauthClearsFailure == \A c \in Credentials : Terminal(c) => blame[c] = refresh[c]

\* Every call returns: leaders finish, wake their waiters and leave the map, and the
\* provider flight and the credential flights never wait on each other in a circle.
EveryCallReturns == \A r \in Callers : pc[r] # "idle" ~> pc[r] = "idle"
=============================================================================
