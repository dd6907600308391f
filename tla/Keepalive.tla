------------------------------ MODULE Keepalive ------------------------------
(* The keep-alive scheduler: one goroutine that on every minute's tick pings  *)
(* each account of each provider, if the minute is on the schedule. A run may *)
(* take longer than a minute; the ticker keeps one tick for it. An account's  *)
(* ping is preceded by a listing of its models and followed by a read of its  *)
(* usage.                                                                     *)
EXTENDS Naturals

CONSTANTS
    Accounts,       \* credentials of the Codex providers
    ProviderOf,     \* the provider instance of each
    Clock,          \* the wall clock at each minute: <<date, time of day>>, which a
                    \* change to or from daylight saving time repeats or skips
    Schedule,       \* times of day
    MaxTime,        \* the last minute of Clock
    MaxRestarts,
    Catalogs,       \* what an account may list: sets of model records
    Configured,     \* the configured model, or None
    None

\* What is assumed of the constants.
KeepaliveAssumption ==
    /\ MaxTime \in Nat /\ DOMAIN Clock = 0..MaxTime
    /\ \A t \in DOMAIN Clock : Clock[t] = <<Clock[t][1], Clock[t][2]>>
    /\ \A c \in Catalogs : \A m, n \in c : m.id = n.id => m = n

VARIABLES
    minute,     \* minutes since the start
    ticking,    \* the ticker runs: it is made after the first run
    tick,       \* its channel, which holds one tick
    at,         \* where the goroutine is
    run,        \* date and slot of the run under way, read when it began
    providers,  \* provider instances still to resolve
    bearers,    \* accounts of the instance still to ping
    account,    \* the account being pinged, or None
    completed,  \* runner.completed
    restarts,
    pings       \* pings each account answered, per date and slot

loop == <<at, run, providers, bearers, account>>
vars == <<minute, ticking, tick, loop, completed, restarts, pings>>

Providers == {ProviderOf[a] : a \in Accounts}
Dates == {Clock[t][1] : t \in DOMAIN Clock}
Slots == Dates \X Schedule

-----------------------------------------------------------------------------
(* selectKeepaliveModel. Account selectors are models only in name. *)

Eligible(models) == {m \in models : ~m.selector /\ IF Configured = None THEN m.listed ELSE m.id = Configured}

\* The lowest picker priority, then the model ID.
Selected(models) ==
    {m \in Eligible(models) : \A n \in Eligible(models) :
        m.priority < n.priority \/ (m.priority = n.priority /\ m.id <= n.id)}

-----------------------------------------------------------------------------
(* Time *)

\* Whatever of the loop happens, minutes pass, each with one tick; a tick that finds the
\* channel full is lost.
Minute ==
    /\ minute < MaxTime
    /\ minute' = minute + 1
    /\ tick' = ticking
    /\ UNCHANGED <<ticking, loop, completed, restarts, pings>>

-----------------------------------------------------------------------------
(* loop and runDue *)

\* The run is over: the ticker is there from the first one on.
Rest ==
    /\ at' = "resting"
    /\ ticking' = TRUE
    /\ run' = <<None, None>> /\ providers' = {} /\ bearers' = {} /\ account' = None

Due == at = "starting" \/ (at = "resting" /\ tick)

\* The clock is read once, for the whole run; a time off the schedule is no slot.
RunDue ==
    /\ Due
    /\ tick' = FALSE
    /\ \/ /\ Clock[minute][2] \in Schedule
          /\ at' = "resolving"
          /\ run' = Clock[minute]
          /\ providers' = Providers
          /\ UNCHANGED <<ticking, bearers, account>>
       \/ /\ Clock[minute][2] \notin Schedule
          /\ Rest
    /\ UNCHANGED <<minute, completed, restarts, pings>>

\* The next instance's bearers: those that can be resolved, and none if it fails.
Resolve ==
    /\ at = "resolving" /\ bearers = {}
    /\ \/ \E i \in providers :
            /\ providers' = providers \ {i}
            /\ bearers' \in SUBSET {a \in Accounts : ProviderOf[a] = i}
            /\ UNCHANGED <<at, ticking, run, account>>
       \/ providers = {} /\ Rest
    /\ UNCHANGED <<minute, tick, completed, restarts, pings>>

-----------------------------------------------------------------------------
(* runCredential *)

Key(a) == <<run, a>>

\* Mutant: every run starts afresh.
DoneNever(a) == FALSE
Done(a) == Key(a) \in completed

RunCredential(a) ==
    /\ at = "resolving" /\ a \in bearers
    /\ bearers' = bearers \ {a}
    /\ \/ Done(a) /\ UNCHANGED <<at, account>>
       \/ ~Done(a) /\ at' = "listing" /\ account' = a
    /\ UNCHANGED <<minute, ticking, tick, run, providers, completed, restarts, pings>>

\* The account's catalog, with a model to ask or without, or no answer.
ListModels ==
    /\ at = "listing"
    /\ \E models \in Catalogs \cup {{}} :
         IF Selected(models) # {} THEN at' = "pinging" /\ UNCHANGED account
         ELSE at' = "resolving" /\ account' = None
    /\ UNCHANGED <<minute, ticking, tick, run, providers, bearers, completed, restarts, pings>>

\* The answer counts as completed; of an answer that was lost, or a refusal, the
\* scheduler knows only that the ping failed.
CompleteChat ==
    /\ at = "pinging"
    /\ \/ /\ completed' = completed \cup {Key(account)}
          /\ pings' = [pings EXCEPT ![Key(account)] = @ + 1]
          /\ at' = "reading usage" /\ UNCHANGED account
       \/ at' = "resolving" /\ account' = None /\ UNCHANGED <<completed, pings>>
    /\ UNCHANGED <<minute, ticking, tick, run, providers, bearers, restarts>>

\* Read, and given to nobody.
RefreshUsage ==
    /\ at = "reading usage"
    /\ at' = "resolving" /\ account' = None
    /\ UNCHANGED <<minute, ticking, tick, run, providers, bearers, completed, restarts, pings>>

\* The daemon starts again, with an empty map, and runs at once.
Restart ==
    /\ restarts < MaxRestarts
    /\ restarts' = restarts + 1
    /\ at' = "starting"
    /\ run' = <<None, None>> /\ providers' = {} /\ bearers' = {} /\ account' = None
    /\ ticking' = FALSE /\ tick' = FALSE /\ completed' = {}
    /\ UNCHANGED <<minute, pings>>

-----------------------------------------------------------------------------
Init ==
    /\ minute = 0 /\ restarts = 0
    /\ ticking = FALSE /\ tick = FALSE
    /\ at = "starting"
    /\ run = <<None, None>> /\ providers = {} /\ bearers = {} /\ account = None
    /\ completed = {}
    /\ pings = [k \in Slots \X Accounts |-> 0]

Next == Minute \/ RunDue \/ Resolve \/ (\E a \in Accounts : RunCredential(a))
          \/ ListModels \/ CompleteChat \/ RefreshUsage \/ Restart

Spec == Init /\ [][Next]_vars

-----------------------------------------------------------------------------
\* An account is pinged with success at most once for a date and slot by one process,
\* however long runs take, whatever ticks they are late for, and also if the clock comes
\* to the slot twice. And what a process takes for done was answered, in a slot the clock
\* has come to.
OncePerSlot ==
    /\ \A s \in Slots, a \in Accounts : pings[<<s, a>>] <= 1 + restarts
    /\ \A k \in completed :
         /\ pings[k] > 0
         /\ \E t \in 0..minute : Clock[t] = k[1]
=============================================================================
