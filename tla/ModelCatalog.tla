---------------------------- MODULE ModelCatalog ----------------------------
(***************************************************************************)
(* The catalog of all providers' models (internal/server/model_catalog.go, *)
(* models.go, model_resolution.go): listings and bare model names that the *)
(* stored rows do not resolve share one discovery pass over every          *)
(* provider, and for a second after it all callers get its result again.   *)
(*                                                                         *)
(* A pass asks the providers in parallel and then takes their answers in   *)
(* the registry's order, writing each one's rows as it goes.  How one      *)
(* account's models are observed is the module CredentialDiscovery.        *)
(***************************************************************************)
EXTENDS Integers, Sequences, FiniteSets

CONSTANTS
    Callers,     \* goroutines that list models or resolve a bare model name
    Registry,    \* the configured provider instances, in order
    Accounts,    \* [providers -> sets of credentials]
    Discovering, \* providers with model discovery
    Codex,       \* those whose catalog is the union over their accounts, which fall
                 \* back on the memory of their last complete listing
    Offered,     \* [providers -> sets of model identifiers they may list]
    None         \* no attempt or result

Models == UNION {Offered[p] : p \in DOMAIN Offered}
Providers == {Registry[i] : i \in DOMAIN Registry}

ASSUME RegistryAssumption ==
    /\ Registry \in Seq(Providers)
    /\ \A i, j \in DOMAIN Registry : Registry[i] = Registry[j] => i = j
    /\ DOMAIN Offered = Providers
    /\ Codex \subseteq Discovering /\ Discovering \subseteq Providers

VARIABLES
    rows,      \* stored model rows of each provider
    lastGood,  \* models of the last complete listing still remembered, {} if none
    pass,      \* the pass in flight: "none", "reading" or "collecting"
    late,      \* its ninety seconds are over
    snapshot,  \* the rows it read
    found,     \* what discovery brought for each provider, None while under way
    place,     \* the next provider in the registry to take
    addresses, \* (provider, model) pairs it may route to so far
    listed,    \* (provider, model) pairs it lists so far
    tried,     \* providers it counts as attempted
    failing,   \* those of them with neither an answer nor a fallback
    last,      \* the result of the latest pass for as long as it is replayed, or None
    pc         \* where each caller is: "idle" or "waiting"

progress == <<late, snapshot, found, place, addresses, listed, tried, failing>>
vars     == <<rows, lastGood, pass, progress, last, pc>>

Rows == {f \in [Providers -> SUBSET Models] : \A p \in Providers : f[p] \subseteq Offered[p]}

Errors == {"", "cache", "resolver", "discovery", "timeout"}

\* What goroutines bring: an error of the credential resolver, or the models each
\* resolved account answered with, {} if it did not answer.
Failed(how) == [error |-> how, answers |-> <<>>]
Answers(p) == UNION {[resolved -> SUBSET Offered[p]] : resolved \in (SUBSET Accounts[p]) \ {{}}}
Attempts(p) ==
    {Failed(how) : how \in {"ineligible", "refresh_failed", "other"}}
    \cup {[error |-> "", answers |-> f] : f \in Answers(p)}

-----------------------------------------------------------------------------
(* Bare names: model_resolution.go *)

Pairs(p, ms) == {p} \X ms

Offering(pairs, m) == {p \in Providers : <<p, m>> \in pairs}
Unique(pairs, m) == Cardinality(Offering(pairs, m)) = 1

Stored == UNION {Pairs(p, rows[p]) : p \in Providers}

-----------------------------------------------------------------------------
(* Callers: handleModels, resolveModelAddress, refreshModelCatalog *)

\* Share the pass in flight, or take the result that is replayed, or start a pass.
Refresh(r) ==
    IF pass = "none" /\ last # None
    THEN UNCHANGED <<pass, pc>>
    ELSE /\ pc' = [pc EXCEPT ![r] = "waiting"]
         /\ pass' = IF pass = "none" THEN "reading" ELSE pass

ListModels(r) ==
    /\ pc[r] = "idle"
    /\ Refresh(r)
    /\ UNCHANGED <<rows, lastGood, progress, last>>

\* A name that the stored rows resolve needs no pass.
ResolveModelAddress(r, m) ==
    /\ pc[r] = "idle"
    /\ ~Unique(Stored, m)
    /\ Refresh(r)
    /\ UNCHANGED <<rows, lastGood, progress, last>>

\* A caller whose context ends stops waiting; the pass goes on.
Abandon(r) ==
    /\ pc[r] = "waiting"
    /\ pc' = [pc EXCEPT ![r] = "idle"]
    /\ UNCHANGED <<rows, lastGood, pass, progress, last>>

-----------------------------------------------------------------------------
(* The pass: discoverModelCatalog *)

WaitersNone == {}     \* mutant: done is not closed
Waiters == {r \in Callers : pc[r] = "waiting"}

\* The pass is over: its result is kept for replay and its callers return.
Finish(how, pairs, models) ==
    /\ last' = [error |-> how, addresses |-> pairs, listed |-> models]
    /\ pass' = "none"
    /\ late' = FALSE
    /\ snapshot' = [p \in Providers |-> {}]
    /\ found' = [p \in Providers |-> None]
    /\ place' = 1
    /\ addresses' = {} /\ listed' = {} /\ tried' = {} /\ failing' = {}
    /\ pc' = [r \in Callers |-> IF r \in Waiters THEN "idle" ELSE pc[r]]

Abort(how) == Finish(how, {}, {})

ReadCache ==
    /\ pass = "reading"
    /\ \/ /\ snapshot' = rows
          /\ pass' = "collecting"
          /\ UNCHANGED <<late, found, place, addresses, listed, tried, failing, last, pc>>
       \/ Abort("cache")
    /\ UNCHANGED <<rows, lastGood>>

\* The goroutine of a provider ends; once the time is over it has nothing to bring.
Discover(p) ==
    /\ pass = "collecting"
    /\ p \in Discovering /\ found[p] = None
    /\ \E i \in place .. Len(Registry) : Registry[i] = p
    /\ \E attempt \in Attempts(p) :
         /\ late => attempt = Failed("other")
         /\ found' = [found EXCEPT ![p] = attempt]
    /\ UNCHANGED <<rows, lastGood, pass, late, snapshot, place, addresses, listed, tried,
                   failing, last, pc>>

\* A union takes every account's models; other providers the first answer there is,
\* whichever account it comes from.
Answered(p) == {a \in DOMAIN found[p].answers : found[p].answers[a] # {}}
Listings(p) ==
    IF p \in Codex THEN {UNION {found[p].answers[a] : a \in Answered(p)}} \ {{}}
                   ELSE {found[p].answers[a] : a \in Answered(p)}

CompleteAnyhow(p) == TRUE     \* mutant: accounts that did not answer are overlooked
Complete(p) == p \in Codex => Answered(p) = DOMAIN found[p].answers

\* The models a provider without a live answer falls back on.
Fallback(p) == IF p \in Codex THEN lastGood[p] ELSE snapshot[p]

\* The code loops over the registry; the next provider's answer, or the end of time.
Taking(p) == pass = "collecting" /\ place <= Len(Registry) /\ Registry[place] = p

\* What was read and found for p is not needed any more.
Proceed(p) ==
    /\ place' = place + 1
    /\ found' = [found EXCEPT ![p] = None]
    /\ snapshot' = [snapshot EXCEPT ![p] = {}]

Overdue ==
    /\ pass = "collecting" /\ place <= Len(Registry) /\ late
    /\ Abort("timeout")
    /\ UNCHANGED <<rows, lastGood>>

\* A provider without discovery keeps its rows.
TakeStatic(p) ==
    /\ Taking(p) /\ ~late
    /\ p \notin Discovering
    /\ addresses' = addresses \cup Pairs(p, snapshot[p])
    /\ Proceed(p)
    /\ UNCHANGED <<rows, lastGood, pass, late, listed, tried, failing, last, pc>>

TakeError(p) ==
    /\ Taking(p) /\ ~late /\ found[p] # None
    /\ found[p].error = "other"
    /\ Abort("resolver")
    /\ UNCHANGED <<rows, lastGood>>

\* The rows of a live answer are written, or the pass ends there.
WriteFails(p) ==
    /\ Taking(p) /\ found[p] # None
    /\ found[p].error = "" /\ Listings(p) # {}
    /\ Abort("cache")
    /\ UNCHANGED <<rows, lastGood>>

\* Mutant: a partial answer replaces the rows as well.
WrittenReplacing(p, models) == models
\* Mutant: a complete answer is merged into the rows like a partial one.
WrittenMerging(p, models) == rows[p] \cup models
\* ReplaceModelCache for a complete answer, MergeModelCache for a partial one.
Written(p, models) == IF Complete(p) THEN models ELSE rows[p] \cup models

TakeLive(p) ==
    /\ Taking(p) /\ ~late /\ found[p] # None
    /\ found[p].error = ""
    /\ \E models \in Listings(p) :
         /\ rows' = [rows EXCEPT ![p] = Written(p, models)]
         /\ addresses' = addresses \cup Pairs(p, IF Complete(p) THEN models
                                                 ELSE snapshot[p] \cup models)
         /\ listed' = listed \cup Pairs(p, models)
         \* the memory takes a complete listing unless it is too large to keep
         /\ \E kept \in {models, {}} :
              lastGood' = IF p \in Codex /\ Complete(p)
                          THEN [lastGood EXCEPT ![p] = kept] ELSE lastGood
    /\ tried' = tried \cup {p}
    /\ Proceed(p)
    /\ UNCHANGED <<pass, late, failing, last, pc>>

\* No live answer: fall back, unless there is no account to ask in the first place.
TakeNothing(p) ==
    /\ Taking(p) /\ ~late /\ found[p] # None
    /\ found[p].error \in {"ineligible", "refresh_failed"} \/ Listings(p) = {}
    /\ found[p].error # "other"
    /\ addresses' = addresses \cup Pairs(p, snapshot[p])
    /\ IF found[p].error = "ineligible"
       THEN UNCHANGED <<tried, listed, failing>>
       ELSE /\ tried' = tried \cup {p}
            /\ listed' = listed \cup Pairs(p, Fallback(p))
            /\ failing' = IF Fallback(p) = {} THEN failing \cup {p} ELSE failing
    /\ Proceed(p)
    /\ UNCHANGED <<rows, lastGood, pass, late, last, pc>>

Conclude ==
    /\ pass = "collecting" /\ place > Len(Registry)
    /\ IF listed = {} /\ tried # {} /\ failing = tried
       THEN Abort("discovery")
       ELSE Finish("", addresses, listed)
    /\ UNCHANGED <<rows, lastGood>>

-----------------------------------------------------------------------------
(* Time, the memory of last listings, and the process *)

RunLate ==
    /\ pass # "none" /\ ~late
    /\ late' = TRUE
    /\ UNCHANGED <<rows, lastGood, pass, snapshot, found, place, addresses, listed, tried,
                   failing, last, pc>>

\* The cooldown passes: the result is replayed no longer.
CoolDown ==
    /\ last # None
    /\ last' = None
    /\ UNCHANGED <<rows, lastGood, pass, progress, pc>>

\* A remembered listing expires or makes way for another provider's.
ForgetLastGood(p) ==
    /\ lastGood[p] # {}
    /\ lastGood' = [lastGood EXCEPT ![p] = {}]
    /\ UNCHANGED <<rows, pass, progress, last, pc>>

Restart ==
    /\ pass # "none"
    /\ lastGood' = [p \in Providers |-> {}]
    /\ last' = None
    /\ pass' = "none"
    /\ late' = FALSE
    /\ snapshot' = [p \in Providers |-> {}]
    /\ found' = [p \in Providers |-> None]
    /\ place' = 1
    /\ addresses' = {} /\ listed' = {} /\ tried' = {} /\ failing' = {}
    /\ pc' = [r \in Callers |-> "idle"]
    /\ UNCHANGED rows

\* The store may hold rows of an earlier process.
Init ==
    /\ rows \in Rows
    /\ lastGood = [p \in Providers |-> {}]
    /\ pass = "none"
    /\ late = FALSE
    /\ snapshot = [p \in Providers |-> {}]
    /\ found = [p \in Providers |-> None]
    /\ place = 1
    /\ addresses = {} /\ listed = {} /\ tried = {} /\ failing = {}
    /\ last = None
    /\ pc = [r \in Callers |-> "idle"]

Take(p) == TakeStatic(p) \/ TakeError(p) \/ WriteFails(p) \/ TakeLive(p) \/ TakeNothing(p)

PassStep == ReadCache \/ (\E p \in Providers : Discover(p) \/ Take(p)) \/ Overdue \/ Conclude

Next ==
    \/ \E r \in Callers : ListModels(r) \/ Abandon(r)
    \/ \E r \in Callers, m \in Models : ResolveModelAddress(r, m)
    \/ PassStep
    \/ RunLate \/ CoolDown \/ Restart
    \/ \E p \in Providers : ForgetLastGood(p)

Spec == Init /\ [][Next]_vars

\* Goroutines run, and the pass's context ends what they wait for.
FairSpec == Spec /\ WF_vars(PassStep)

-----------------------------------------------------------------------------
(* Properties *)

\* Every variable has its type, and there is no progress without a pass.
TypeOK ==
    /\ rows \in Rows
    /\ lastGood \in Rows
    /\ pass \in {"none", "reading", "collecting"}
    /\ late \in BOOLEAN
    /\ snapshot \in Rows
    /\ \A p \in Providers : found[p] = None \/ found[p] \in Attempts(p)
    /\ place \in 1 .. Len(Registry) + 1
    /\ addresses \subseteq Providers \X Models
    /\ listed \subseteq Providers \X Models
    /\ failing \subseteq tried /\ tried \subseteq Discovering
    /\ last # None => /\ last.error \in Errors
                      /\ last.error # "" => last.addresses = {} /\ last.listed = {}
    /\ pc \in [Callers -> {"idle", "waiting"}]
    /\ \A r \in Callers : pc[r] = "waiting" => pass # "none"

\* A pass, however it ends, loses no routing hint it cannot vouch for: a stored model
\* goes only if the provider's account that answered, or for a union each
\* account that was eligible, did answer and does not list it.
Disowned(p, m) ==
    /\ found[p] # None
    /\ Answered(p) # {}
    /\ p \in Codex => /\ Answered(p) = DOMAIN found[p].answers
                      /\ \A a \in Answered(p) : m \notin found[p].answers[a]
    /\ \E a \in Answered(p) : m \notin found[p].answers[a]
HintsLostOnlyIfDisowned ==
    [][\A p \in Providers : \A m \in rows[p] \ rows'[p] : Disowned(p, m)]_vars

\* What a listing shows can be routed to: the models it lists, those remembered from an
\* earlier complete listing included, are among the addresses of the same pass.
ListedIsAddressable ==
    /\ last # None => last.listed \subseteq last.addresses
    /\ \A p \in Providers : lastGood[p] \subseteq rows[p]

\* The addresses a pass pieced together are the stored rows when it ends and for as long
\* as they are replayed, so that a bare name resolves alike from either.
AddressesAreRows ==
    pass = "none" /\ last # None /\ last.error = "" => last.addresses = Stored

\* Every caller is answered, whoever else stops waiting.
EveryCallerReturns == \A r \in Callers : pc[r] = "waiting" ~> pc[r] = "idle"
=============================================================================
