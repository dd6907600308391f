------------------------ MODULE CredentialDiscovery ------------------------
(***************************************************************************)
(* Which models an account may serve (internal/server):                    *)
(* credential_model_discovery.go shares one listing of the upstream's      *)
(* models per credential and bearer generation, and                        *)
(* credential_model_catalog.go keeps what it proved for five minutes, or   *)
(* that it proved nothing for thirty seconds.                              *)
(*                                                                         *)
(* A key is a credential with one generation of its bearer.  Time is the   *)
(* age of the cache's entries.  The refresh of a bearer is what the        *)
(* OAuthRefresh module models in detail; here it is one step.              *)
(***************************************************************************)
EXTENDS Integers, FiniteSets

CONSTANTS
    Callers,        \* requests and listings that need a credential's models
    Credentials,    \* OAuth credentials of catalog-scoped routes
    MaxGeneration,  \* bound: refreshes of a credential's bearer
    Catalogs,       \* the model lists an upstream may answer with
    Offered,        \* [Keys -> SUBSET Catalogs], what it may answer to each bearer
    Invalid,        \* those the cache does not take: an empty, oversized or nameless list
    Advertising,    \* those that contain the model requests are about
    Size,           \* [Catalogs -> Nat], the bytes a catalog's entry retains
    MaxCatalogs,    \* limit of entries and of flights, 256 in the code
    MaxBytes,       \* limit of retained bytes, 32 MiB in the code
    ProofTTL,       \* lifetime of a proof in ticks
    FailureTTL,     \* lifetime of a failed observation in ticks
    None            \* no entry, key or catalog

Keys == Credentials \X (0 .. MaxGeneration)

ASSUME CatalogAssumption ==
    /\ Invalid \subseteq Catalogs
    /\ Advertising \subseteq Catalogs
    /\ Offered \in [Keys -> SUBSET Catalogs]
    /\ Size \in [Catalogs -> Nat]
    /\ \A m \in Catalogs : Size[m] <= MaxBytes
    /\ {"rejected", "transient"} \cap Catalogs = {}
    /\ None \notin [catalog : Catalogs \cup {None}, age : Nat]

ASSUME LimitAssumption ==
    /\ IsFiniteSet(Credentials)
    /\ MaxGeneration \in Nat
    /\ MaxBytes \in Nat
    /\ MaxCatalogs \in Nat \ {0}
    /\ FailureTTL \in Nat \ {0}
    /\ ProofTTL \in Nat
    /\ FailureTTL < ProofTTL

VARIABLES
    bearer,    \* the stored bearer generation of each credential
    cache,     \* the entry of each key: its catalog (None if unknown) and age, or None
    bytes,     \* the cache's count of retained bytes
    phase,     \* where the flight of each key is, "none" if there is none
    at,        \* the generation whose models that flight observes
    seen,      \* what it observed: a catalog, "rejected" or "transient"
    pc,        \* where each caller is
    fresh,     \* it lists models and takes no cached answer
    holds,     \* the key of the credential it holds
    informed   \* history: the key its discovery proved live

entries == <<cache, bytes>>
flights == <<phase, at, seen>>
caller  == <<pc, fresh, holds, informed>>
vars    == <<bearer, entries, flights, caller>>

-----------------------------------------------------------------------------
(* The bounded cache of proofs: credential_model_catalog.go *)

Present == {k \in Keys : cache[k] # None}
Known(k) == k \in Present /\ cache[k].catalog # None
Bytes(entry) == IF entry = None \/ entry.catalog = None THEN 0 ELSE Size[entry.catalog]

\* The bytes of the entries in ks together, each a byte of its key.
BytesOf(ks) == Cardinality(UNION {{k} \X (1 .. Bytes(cache[k])) : k \in ks})

\* An entry stays in the cache after its lifetime until a lookup meets it.
Expired(k) == cache[k].age >= IF Known(k) THEN ProofTTL ELSE FailureTTL
Cached(k)  == k \in Present /\ ~Expired(k)
Proven(k)  == Cached(k) /\ Known(k)

\* lookup drops an expired entry.
Lookup(k) ==
    IF k \in Present /\ Expired(k)
    THEN /\ cache' = [cache EXCEPT ![k] = None]
         /\ bytes' = bytes - Bytes(cache[k])
    ELSE UNCHANGED entries

\* Evicting the entries in old leaves room for an entry: the oldest go first, and no
\* more of them than needed; the source breaks ties as its map iterates.
MakesRoom(old, k, entry) ==
    LET others == Present \ {k}
        kept == others \ old
        Fits(ks) == /\ Cardinality(ks) < MaxCatalogs
                    /\ bytes - Bytes(cache[k]) - BytesOf(others \ ks) + Bytes(entry) <= MaxBytes
    IN  /\ \A a \in old, b \in kept : cache[a].age >= cache[b].age
        /\ Fits(kept)
        /\ old = {} \/ \E a \in old : /\ \A b \in old : cache[b].age >= cache[a].age
                                      /\ ~Fits(kept \cup {a})

\* Mutant: a transient failure replaces a proof that has not expired.
PreservesNever(k, preserveFresh) == FALSE
Preserves(k, preserveFresh) == preserveFresh /\ Proven(k)

\* store: keep a proof from a transient failure, else evict and replace.
Put(k, catalog, preserveFresh) ==
    LET entry == [catalog |-> catalog, age |-> 0] IN
    IF Preserves(k, preserveFresh) THEN UNCHANGED entries
    ELSE \E old \in SUBSET (Present \ {k}) :
           /\ MakesRoom(old, k, entry)
           /\ cache' = [x \in Keys |-> IF x = k THEN entry
                                       ELSE IF x \in old THEN None ELSE cache[x]]
           /\ bytes' = bytes - Bytes(cache[k]) - BytesOf(old) + Bytes(entry)

-----------------------------------------------------------------------------
(* Callers: refreshMissingCredentialModelCatalogs and observeCredentialModels *)

Goto(r, label)    == pc' = [pc EXCEPT ![r] = label]
Proceed(k, label) == phase' = [phase EXCEPT ![k] = label]

\* A request resolves a credential; a cached entry, known or not, spares the discovery.
Request(r) ==
    /\ pc[r] = "idle"
    /\ \E c \in Credentials :
         LET k == <<c, bearer[c]>> IN
           /\ holds' = [holds EXCEPT ![r] = k]
           /\ Goto(r, IF Cached(k) THEN "decide" ELSE "observe")
           /\ Lookup(k)
    /\ fresh' = [fresh EXCEPT ![r] = FALSE]
    /\ UNCHANGED <<bearer, flights, informed>>

\* A model listing discovers anew.
ListModels(r) ==
    /\ pc[r] = "idle"
    /\ \E c \in Credentials : holds' = [holds EXCEPT ![r] = <<c, bearer[c]>>]
    /\ fresh' = [fresh EXCEPT ![r] = TRUE]
    /\ Goto(r, "observe")
    /\ UNCHANGED <<bearer, entries, flights, informed>>

\* The discovery is over for the callers in rs, which now hold key k, proved live if
\* proof is that key: a listing is done with it, a request decides next.
Leave(rs, k, proof) ==
    /\ pc' = [r \in Callers |-> IF r \notin rs THEN pc[r]
                               ELSE IF fresh[r] THEN "idle" ELSE "decide"]
    /\ holds' = [r \in Callers |-> IF r \notin rs THEN holds[r]
                                  ELSE IF fresh[r] THEN None ELSE k]
    /\ informed' = [r \in Callers |-> IF r \notin rs \/ fresh[r] THEN informed[r] ELSE proof]
    /\ fresh' = [r \in Callers |-> fresh[r] /\ r \notin rs]

\* Mutant: the cache is not consulted again under the discovery's lock.
SparedNever(r, k) == FALSE
Spared(r, k) == ~fresh[r] /\ Cached(k)

\* Join the flight of the key, or start one unless the cache answers by now or there
\* are too many flights.
Observe(r) ==
    /\ pc[r] = "observe"
    /\ LET k == holds[r] IN
         IF phase[k] # "none"
         THEN Goto(r, "wait") /\ UNCHANGED <<entries, flights, fresh, holds, informed>>
         ELSE /\ IF fresh[r] THEN UNCHANGED entries ELSE Lookup(k)
              /\ IF \/ Spared(r, k)
                    \/ Cardinality({x \in Keys : phase[x] # "none"}) >= MaxCatalogs
                 THEN Leave({r}, k, None) /\ UNCHANGED flights
                 ELSE /\ Proceed(k, "list")
                      /\ Goto(r, "wait")
                      /\ UNCHANGED <<at, seen, fresh, holds, informed>>
    /\ UNCHANGED bearer

\* The context of a waiting caller ends; the flight goes on without it.
Abandon(r) ==
    /\ pc[r] = "wait"
    /\ Leave({r}, holds[r], None)
    /\ UNCHANGED <<bearer, entries, flights>>

\* The proof of the bearer it holds decides: without one the request is to be tried
\* again later, and a catalog without the model rejects it.
Verdict(r) ==
    IF ~Proven(holds[r]) THEN "unavailable"
    ELSE IF cache[holds[r]].catalog \in Advertising THEN "eligible" ELSE "rejected"

\* credentialModelEligibleForAttempt ends in that verdict.
Decide(r) ==
    /\ pc[r] = "decide"
    /\ Lookup(holds[r])
    /\ Goto(r, "idle")
    /\ holds'    = [holds EXCEPT ![r] = None]
    /\ informed' = [informed EXCEPT ![r] = None]
    /\ UNCHANGED <<bearer, flights, fresh>>

-----------------------------------------------------------------------------
(* The flight of a key, a goroutine that no caller's context ends *)

KeyAt(k) == <<k[1], at[k]>>

\* The bearer of a flight that was refreshed is not the one of its key any more.
Listed(k) == IF at[k] = k[2] THEN "write" ELSE "reject"

\* The upstream answers a listing: with models, ...
Answer(k) ==
    /\ phase[k] \in {"list", "relist"}
    /\ \E catalog \in Offered[KeyAt(k)] : seen' = [seen EXCEPT ![k] = catalog]
    /\ Proceed(k, Listed(k))
    /\ UNCHANGED <<bearer, entries, at, caller>>

\* transientModelDiscoveryFailure
Failures == {"rejected", "transient"}

\* ... or with a failure, which also ends it after thirty seconds.
Fail(k) ==
    /\ phase[k] \in {"list", "relist"}
    /\ \E how \in Failures : seen' = [seen EXCEPT ![k] = how]
    /\ Proceed(k, Listed(k))
    /\ UNCHANGED <<bearer, entries, at, caller>>

\* A first 401 is a rejection unless the bearer can be refreshed ...
Unauthorized(k) ==
    /\ phase[k] = "list"
    /\ seen' = [seen EXCEPT ![k] = "rejected"]
    /\ Proceed(k, "refresh")
    /\ UNCHANGED <<bearer, entries, at, caller>>

RefreshFails(k) ==
    /\ phase[k] = "refresh"
    /\ Proceed(k, "write")
    /\ UNCHANGED <<bearer, entries, at, seen, caller>>

\* ... which yields the stored bearer, renewed if it is still the rejected one (or not
\* even then, when the refresh joined a call that had just ended).
Refresh(k) ==
    /\ phase[k] = "refresh"
    /\ LET c == k[1] IN
         \E g \in {bearer[c]} \cup (IF bearer[c] = k[2] THEN {bearer[c] + 1} ELSE {}) :
           /\ g <= MaxGeneration
           /\ bearer' = [bearer EXCEPT ![c] = g]
           /\ at' = [at EXCEPT ![k] = g]
    /\ Proceed(k, "relist")
    /\ UNCHANGED <<entries, seen, caller>>

\* The proof of the bearer that was refused and replaced is invalidated first.
RejectOld(k) ==
    /\ phase[k] = "reject"
    /\ Put(k, None, FALSE)
    /\ Proceed(k, "write")
    /\ UNCHANGED <<bearer, at, seen, caller>>

\* Mutant: the observation is filed under the bearer the flight began with.
WriteKeyOld(k) == k
WriteKey(k)    == KeyAt(k)

\* The observation enters the cache.
Write(k) ==
    /\ phase[k] = "write"
    /\ IF seen[k] \in Catalogs \ Invalid
       THEN Put(WriteKey(k), seen[k], FALSE)
       ELSE Put(WriteKey(k), None, seen[k] = "transient")
    /\ Proceed(k, "publish")
    /\ UNCHANGED <<bearer, at, seen, caller>>

WaitersNone(k) == {}     \* mutant: done is not closed
Waiters(k) == {r \in Callers : pc[r] = "wait" /\ holds[r] = k}

PublishedOld(k) == k     \* mutant: callers keep the bearer they came with
Published(k)    == KeyAt(k)

\* The flight leaves the map and its waiters take its credential over, in one step.
Publish(k) ==
    /\ phase[k] = "publish"
    /\ Proceed(k, "none")
    /\ at'   = [at EXCEPT ![k] = k[2]]
    /\ seen' = [seen EXCEPT ![k] = "transient"]
    /\ Leave(Waiters(k), Published(k),
             IF seen[k] \in Catalogs \ Invalid THEN KeyAt(k) ELSE None)
    /\ UNCHANGED <<bearer, entries>>

-----------------------------------------------------------------------------
(* Elsewhere: another refresh of a bearer, and time *)

Rotate(c) ==
    /\ bearer[c] < MaxGeneration
    /\ bearer' = [bearer EXCEPT ![c] = @ + 1]
    /\ UNCHANGED <<entries, flights, caller>>

\* Ages beyond the longest lifetime are not told apart, a bound of the model only.
Tick ==
    /\ cache' = [k \in Keys |->
                   IF k \in Present /\ cache[k].age < ProofTTL
                   THEN [cache[k] EXCEPT !.age = @ + 1] ELSE cache[k]]
    /\ UNCHANGED <<bearer, bytes, flights, caller>>

Init ==
    /\ bearer = [c \in Credentials |-> 0]
    /\ cache  = [k \in Keys |-> None]
    /\ bytes  = 0
    /\ phase  = [k \in Keys |-> "none"]
    /\ at     = [k \in Keys |-> k[2]]
    /\ seen   = [k \in Keys |-> "transient"]
    /\ pc     = [r \in Callers |-> "idle"]
    /\ fresh  = [r \in Callers |-> FALSE]
    /\ holds  = [r \in Callers |-> None]
    /\ informed = [r \in Callers |-> None]

FlightStep(k) ==
    \/ Answer(k) \/ Fail(k) \/ Unauthorized(k)
    \/ RefreshFails(k) \/ Refresh(k)
    \/ RejectOld(k) \/ Write(k) \/ Publish(k)

Next ==
    \/ \E r \in Callers : Request(r) \/ ListModels(r) \/ Observe(r) \/ Abandon(r) \/ Decide(r)
    \/ \E k \in Keys : FlightStep(k)
    \/ \E c \in Credentials : Rotate(c)
    \/ Tick

Spec == Init /\ [][Next]_vars

\* Goroutines run, and the thirty second timeout of a flight ends its calls.
FairSpec ==
    /\ Spec
    /\ \A r \in Callers : WF_vars(Observe(r)) /\ WF_vars(Decide(r))
    /\ \A k \in Keys : WF_vars(FlightStep(k))

-----------------------------------------------------------------------------
(* Properties *)

\* A proof is evidence for its own bearer: its catalog is one the upstream offers to
\* exactly that credential and generation, across refreshes within a flight.
ProofMatchesBearer ==
    \A k \in Keys : Known(k) => cache[k].catalog \in Offered[k] \ Invalid

\* A proof in force is neither lost nor prolonged by a transient failure: it changes
\* only through a flight that learnt something definite about that bearer, or makes
\* way as the cache is full.
Definite(k) ==
    \E f \in Keys : \/ phase[f] = "reject" /\ phase'[f] = "write" /\ f = k
                    \/ /\ phase[f] = "write" /\ phase'[f] = "publish"
                       /\ KeyAt(f) = k /\ seen[f] # "transient"
Full ==
    \/ Cardinality(Present) >= MaxCatalogs
    \/ \E m \in Catalogs : BytesOf(Present) + Size[m] > MaxBytes
Aged(k) == cache'[k] # None /\ cache'[k].catalog = cache[k].catalog
                            /\ cache'[k].age = cache[k].age + 1
ProofOutlivesTransientFailure ==
    [][\A k \in Keys :
         Proven(k) /\ cache'[k] # cache[k]
         => Aged(k) \/ Definite(k) \/ (Full /\ cache'[k] = None)]_vars

\* A request asks the upstream only if nothing is known of its bearer at that moment,
\* not even a recent failure: concurrent requests do not hammer the discovery.
NoHammering ==
    [][\A r \in Callers, k \in Keys :
         pc[r] = "observe" /\ pc'[r] = "wait" /\ ~fresh[r] /\ holds[r] = k
         /\ phase[k] = "none" /\ phase'[k] = "list"
         => ~Cached(k)]_vars

\* A request whose discovery proved a bearer is served with that bearer's proof, the
\* refreshed one included, unless the proof is gone again.
DiscoveredBearerIsUsed ==
    \A r \in Callers :
        pc[r] = "decide" /\ informed[r] # None /\ Proven(informed[r])
        => Verdict(r) # "unavailable"

\* Every caller of the discovery gets an answer.
EveryObserverReturns == \A r \in Callers : pc[r] = "observe" ~> pc[r] = "idle"
=============================================================================
