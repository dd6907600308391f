----------------------------- MODULE DeviceLogin -----------------------------
(* Device logins of the daemon: a client starts a login and is shown a code, *)
(* the daemon keeps a session under the login's handle, and a client that    *)
(* completes the handle has the daemon take the session out, poll the issuer *)
(* until the user has approved the code, and store the account's tokens.     *)
(* Every start and every completion is a job of its own goroutine.           *)
EXTENDS Naturals, FiniteSets

CONSTANTS
    Logins,         \* login attempts, each with a handle of its own
    Clients,        \* management clients that may complete a handle they know
    Accounts,       \* upstream accounts the user may approve a code for
    MaxSessions,    \* sessions kept at a time (16)
    MaxPolls,       \* pending polls until the deadline of 15 minutes has passed
    None

ASSUME SessionsAssumption == MaxSessions \in Nat \ {0} /\ IsFiniteSet(Logins)
ASSUME PollsAssumption == MaxPolls \in Nat \ {0}
ASSUME NamesAssumption == "start" \notin Clients /\ None \notin Logins /\ None \notin Accounts

VARIABLES
    kept,       \* OAuthDeviceLoginSessions.sessions
    expired,    \* kept sessions whose time to live has passed
    phase,      \* where each job is
    polls,      \* pending polls of each completion that polls
    approved,   \* the account the user approved each login's code for
    stored      \* the login whose tokens each account's credential holds

sessions == <<kept, expired>>
vars     == <<kept, expired, phase, polls, approved, stored>>

Jobs    == Logins \X (Clients \cup {"start"})
Start(l) == <<l, "start">>
Ended   == {"ok", "failed", "refused"}
Idle    == {"none"} \cup Ended
\* Completions that took their session out, whatever became of them.
Used    == {"polling", "waiting", "exchanging", "storing", "ok", "failed"}

Goto(j, p) == phase' = [phase EXCEPT ![j] = p]

-----------------------------------------------------------------------------
(* OAuthDeviceLoginSessions: every method under the map's lock *)

Live == kept \ expired
Full(s) == Cardinality(s) >= MaxSessions

\* A first look, before the issuer is asked for a code.
CheckCapacity(l) ==
    /\ phase[Start(l)] = "called"
    /\ kept' = Live
    /\ expired' = {}
    /\ Goto(Start(l), IF Full(Live) THEN "failed" ELSE "asking")
    /\ UNCHANGED <<polls, approved, stored>>

\* Mutant: the limit was looked at before.
PutUnchecked(l) ==
    /\ phase[Start(l)] = "issued"
    /\ kept' = kept \cup {l}
    /\ Goto(Start(l), "ok")
    /\ UNCHANGED <<expired, polls, approved, stored>>

\* The session is put with the time of that first look, for which every session
\* still kept was live: nothing is pruned here.
Put(l) ==
    /\ phase[Start(l)] = "issued"
    /\ kept' = IF Full(kept) THEN kept ELSE kept \cup {l}
    /\ Goto(Start(l), IF Full(kept) THEN "failed" ELSE "ok")
    /\ UNCHANGED <<expired, polls, approved, stored>>

\* Mutant: the session stays for another attempt.
TakeOutKeeping(l) == Live
\* What is left in the map when l has been taken.
TakeOut(l) == Live \ {l}

Take(l, w) ==
    /\ phase[<<l, w>>] = "called"
    /\ kept' = TakeOut(l)
    /\ expired' = {}
    /\ Goto(<<l, w>>, IF l \in Live THEN "polling" ELSE "refused")
    /\ UNCHANGED <<polls, approved, stored>>

-----------------------------------------------------------------------------
(* The issuer's answers, each within the adapter's timeout *)

\* A user code, or no usable answer; also when the context ends meanwhile.
IssueCode(l) ==
    /\ phase[Start(l)] = "asking"
    /\ \/ Goto(Start(l), "issued")
       \/ Goto(Start(l), "failed")
    /\ UNCHANGED <<sessions, polls, approved, stored>>

\* 403 and 404 mean pending; the deadline ends the polling. Any other refusal, an
\* unreadable answer or a lost connection ends the login at once.
Polled(j, n, p) == polls' = [polls EXCEPT ![j] = n] /\ Goto(j, p)

Poll(l, w) ==
    LET j == <<l, w>> IN
    /\ phase[j] = "polling"
    /\ \/ approved[l] = None /\ polls[j] < MaxPolls /\ Polled(j, polls[j] + 1, "waiting")
       \/ approved[l] # None /\ Polled(j, 0, "exchanging")
       \/ Polled(j, 0, "failed")
    /\ UNCHANGED <<sessions, approved, stored>>

\* The interval between two polls passes, or the request's context ends it: the client
\* cancelled its call, or is gone.
Wait(l, w) ==
    /\ phase[<<l, w>>] = "waiting"
    /\ \/ Goto(<<l, w>>, "polling") /\ UNCHANGED polls
       \/ Polled(<<l, w>>, 0, "failed")
    /\ UNCHANGED <<sessions, approved, stored>>

\* The authorization code buys tokens, or the exchange fails.
Exchange(l, w) ==
    /\ phase[<<l, w>>] = "exchanging"
    /\ \/ Goto(<<l, w>>, "storing")
       \/ Goto(<<l, w>>, "failed")
    /\ UNCHANGED <<sessions, polls, approved, stored>>

\* UpsertOAuthCredential: one transaction inserts the account's credential, or gives the
\* one it has the new tokens and clears its failure (OAuthRefresh.Login is what that does
\* to refreshes under way).
Upsert(a, l) == stored' = [stored EXCEPT ![a] = l]

\* AddOAuthCredential: unusable tokens or claims, or a context that ended, leave the
\* store as it is.
Store(l, w) ==
    /\ phase[<<l, w>>] = "storing"
    /\ \/ Upsert(approved[l], l) /\ Goto(<<l, w>>, "ok")
       \/ Goto(<<l, w>>, "failed") /\ UNCHANGED stored
    /\ UNCHANGED <<sessions, polls, approved>>

-----------------------------------------------------------------------------
(* Clients, the user, the clock, and a restart *)

Call(j) ==
    /\ phase[j] = "none"
    /\ Goto(j, "called")
    /\ UNCHANGED <<sessions, polls, approved, stored>>

CallStart(l) == Call(Start(l))

\* A handle is known once its login has started.
CallComplete(l, w) == phase[Start(l)] = "ok" /\ Call(<<l, w>>)

Running(j) == phase[j] \notin Idle

Approve(l, a) ==
    /\ phase[Start(l)] \in {"issued", "ok"} /\ approved[l] = None
    /\ approved' = [approved EXCEPT ![l] = a]
    /\ UNCHANGED <<sessions, phase, polls, stored>>

Expire(l) ==
    /\ l \in Live
    /\ expired' = expired \cup {l}
    /\ UNCHANGED <<kept, phase, polls, approved, stored>>

\* The sessions live in memory only, and so do the goroutines of the jobs.
Restart ==
    /\ \E j \in Jobs : Running(j)
    /\ kept' = {} /\ expired' = {}
    /\ phase' = [j \in Jobs |-> IF phase[j] = "called" THEN "refused"
                               ELSE IF Running(j) THEN "failed" ELSE phase[j]]
    /\ polls' = [j \in Jobs |-> 0]
    /\ UNCHANGED <<approved, stored>>

-----------------------------------------------------------------------------
Init ==
    /\ kept = {} /\ expired = {}
    /\ phase = [j \in Jobs |-> "none"]
    /\ polls = [j \in Jobs |-> 0]
    /\ approved = [l \in Logins |-> None]
    /\ stored = [a \in Accounts |-> None]

StartStep(l) == CheckCapacity(l) \/ IssueCode(l) \/ Put(l)
CompleteStep(l, w) ==
    Take(l, w) \/ Poll(l, w) \/ Wait(l, w) \/ Exchange(l, w) \/ Store(l, w)

\* What happens whoever the clients are.
Daemon ==
    \/ \E l \in Logins : StartStep(l) \/ Expire(l)
    \/ \E l \in Logins, w \in Clients : CompleteStep(l, w)
    \/ \E l \in Logins, a \in Accounts : Approve(l, a)
    \/ Restart

Next ==
    \/ Daemon
    \/ \E l \in Logins : CallStart(l)
    \/ \E l \in Logins, w \in Clients : CallComplete(l, w)

Spec == Init /\ [][Next]_vars

-----------------------------------------------------------------------------
Phases == {"none", "called", "asking", "issued", "polling", "waiting", "exchanging",
           "storing", "ok", "failed", "refused"}

\* Every variable of the device logins has its type.
TypeOK ==
    /\ kept \subseteq Logins /\ expired \subseteq kept
    /\ phase \in [Jobs -> Phases]
    /\ polls \in [Jobs -> Nat]
    /\ approved \in [Logins -> Accounts \cup {None}]
    /\ stored \in [Accounts -> Logins \cup {None}]

\* However many starts overlap between the first look at the limit and the put, the
\* daemon never keeps more sessions than the limit.
SessionsBounded == Cardinality(kept) <= MaxSessions

\* A handle is single-use: of all completions of it, those cut off by a restart
\* included, at most one got past taking the session out, and while the session is
\* kept none has. So an account holds the tokens of a login only if the user approved
\* that login's code for it and the one completion of its handle got to the end.
SingleUse ==
    /\ \A l \in Logins : \A v, w \in Clients :
         /\ phase[<<l, v>>] \in Used =>
              l \notin kept /\ (phase[<<l, w>>] \in Used => v = w)
    /\ \A a \in Accounts : stored[a] # None =>
         /\ approved[stored[a]] = a
         /\ \E w \in Clients : phase[<<stored[a], w>>] = "ok"
=============================================================================
