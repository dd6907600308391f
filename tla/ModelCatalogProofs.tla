------------------------- MODULE ModelCatalogProofs -------------------------
(***************************************************************************)
(* What ModelCatalog guarantees for every registry, every set of accounts  *)
(* and every number of callers: the types, that stored routing hints are   *)
(* lost only to an answer that disowns them, and that what a pass tells    *)
(* its callers agrees with the store.                                      *)
(***************************************************************************)
EXTENDS ModelCatalog, TLAPS

\* What the step of one provider relies on: found is a function, and only discovering
\* providers have something found.
Sound ==
    /\ found = [p \in Providers |-> found[p]]
    /\ \A p \in Providers : found[p] # None => p \in Discovering

Typed == TypeOK /\ Sound

LEMMA OfferedModels == ASSUME NEW p \in Providers PROVE Offered[p] \subseteq Models
BY RegistryAssumption DEF Models

LEMMA RegistryType == Len(Registry) \in Nat /\ DOMAIN Registry = 1 .. Len(Registry)
BY RegistryAssumption

LEMMA FirstPlace == 1 \in 1 .. Len(Registry) + 1
BY RegistryType

\* The answers of an attempt without an error are sets of models the provider offers.
LEMMA AttemptType ==
    ASSUME NEW p \in Providers, NEW a \in Attempts(p), a.error = ""
    PROVE  a.answers \in Answers(p)
<1>1. ASSUME NEW how \in {"ineligible", "refresh_failed", "other"}, a = Failed(how) PROVE FALSE
    <2>1. a.error = how
        BY <1>1 DEF Failed
    <2>2. QED
        BY <2>1
<1>2. ASSUME NEW f \in Answers(p), a = [error |-> "", answers |-> f]
      PROVE  a.answers \in Answers(p)
    BY <1>2
<1>3. QED
    BY <1>1, <1>2 DEF Attempts

\* So are the listings they amount to.
LEMMA ListingType ==
    ASSUME Typed, NEW p \in Providers, found[p] # None, found[p].error = "",
           NEW models \in Listings(p)
    PROVE  models \subseteq Offered[p]
<1>1. found[p].answers \in Answers(p)
    BY AttemptType DEF Typed, TypeOK
<1>2. PICK resolved \in SUBSET Accounts[p] : found[p].answers \in [resolved -> SUBSET Offered[p]]
    BY <1>1 DEF Answers
<1>3. \A a \in Answered(p) : found[p].answers[a] \subseteq Offered[p]
    BY <1>2 DEF Answered
<1>4. CASE p \in Codex
    <2>1. models = UNION {found[p].answers[a] : a \in Answered(p)}
        BY <1>4 DEF Listings
    <2>2. ASSUME NEW m \in models PROVE \E a \in Answered(p) : m \in found[p].answers[a]
        BY <2>1
    <2>3. QED
        BY <1>3, <2>2
<1>5. CASE p \notin Codex
    BY <1>3, <1>5 DEF Listings
<1>6. QED
    BY <1>4, <1>5

\* The provider whose turn it is has its place in the registry.
LEMMA TakingType ==
    ASSUME Typed, NEW p, Taking(p)
    PROVE  /\ place \in 1 .. Len(Registry) /\ place + 1 \in 1 .. Len(Registry) + 1
           /\ p \in Providers /\ p = Registry[place]
<1>1. Len(Registry) \in Nat /\ DOMAIN Registry = 1 .. Len(Registry)
    BY RegistryType
<1>2. place \in 1 .. Len(Registry) + 1
    BY DEF Typed, TypeOK
<1>3. QED
    BY <1>1, <1>2 DEF Taking, Providers

-----------------------------------------------------------------------------
(* Types *)

\* Initially everything has its type.
LEMMA TypedInit == Init => Typed
<1> SUFFICES ASSUME Init PROVE Typed
    OBVIOUS
<1>1. lastGood \in Rows /\ snapshot \in Rows
    BY DEF Init, Rows
<1>2. place \in 1 .. Len(Registry) + 1
    BY FirstPlace DEF Init
<1>3. \A p \in Providers : found[p] = None
    BY DEF Init
<1>4. TypeOK
    BY <1>1, <1>2, <1>3 DEF Init, TypeOK
<1>5. Sound
    BY DEF Init, Sound
<1>6. QED
    BY <1>4, <1>5 DEF Typed

\* The end of a pass, whatever its result.
LEMMA TypedFinish ==
    ASSUME Typed, NEW how \in Errors, NEW pairs, NEW models,
           how # "" => pairs = {} /\ models = {},
           Finish(how, pairs, models), rows' \in Rows, lastGood' \in Rows
    PROVE  Typed'
<1>1. last'.error \in Errors /\ (last'.error # "" => last'.addresses = {} /\ last'.listed = {})
    BY DEF Finish
<1>2. snapshot' \in Rows
    BY DEF Finish, Rows
<1>3. pc' \in [Callers -> {"idle", "waiting"}]
          /\ \A r \in Callers : pc'[r] # "waiting"
    BY DEF Finish, Waiters, Typed, TypeOK
<1>4. place' \in 1 .. Len(Registry) + 1
    <2>1. place' = 1
        BY DEF Finish
    <2>2. QED
        BY <2>1, FirstPlace
<1>5. \A p \in Providers : found'[p] = None
    BY DEF Finish
<1>6. /\ pass' = "none" /\ late' = FALSE
      /\ addresses' = {} /\ listed' = {} /\ tried' = {} /\ failing' = {}
    BY DEF Finish
<1>7. TypeOK'
    BY <1>1, <1>2, <1>3, <1>4, <1>5, <1>6 DEF TypeOK
<1>8. Sound'
    BY DEF Finish, Sound
<1>9. QED
    BY <1>7, <1>8 DEF Typed

LEMMA TypedAbort ==
    ASSUME Typed, NEW how \in Errors \ {""}, Abort(how), UNCHANGED <<rows, lastGood>>
    PROVE  Typed'
<1>1. Finish(how, {}, {}) /\ rows' \in Rows /\ lastGood' \in Rows
    BY DEF Abort, Typed, TypeOK
<1>2. QED
    BY <1>1, TypedFinish

\* A caller that shares, starts or needs no pass.
LEMMA TypedRefresh ==
    ASSUME Typed, NEW r \in Callers, Refresh(r), UNCHANGED <<rows, lastGood, progress, last>>
    PROVE  Typed'
<1>1. pc' \in [Callers -> {"idle", "waiting"}] /\ pass' \in {"none", "reading", "collecting"}
    BY DEF Refresh, Typed, TypeOK
<1>2. \A q \in Callers : pc'[q] = "waiting" => pass' # "none"
    BY DEF Refresh, Typed, TypeOK
<1>3. TypeOK'
    BY <1>1, <1>2 DEF Typed, TypeOK, progress
<1>4. Sound'
    BY DEF Typed, Sound, progress
<1>5. QED
    BY <1>3, <1>4 DEF Typed

\* Taking a provider's answer.
LEMMA TypedProceed ==
    ASSUME Typed, NEW p, Taking(p), Proceed(p)
    PROVE  /\ place' \in 1 .. Len(Registry) + 1
           /\ snapshot' \in Rows
           /\ \A q \in Providers : found'[q] = None \/ found'[q] \in Attempts(q)
           /\ Sound'
<1>1. p \in Providers /\ place + 1 \in 1 .. Len(Registry) + 1
    BY TakingType
<1>2. snapshot' \in Rows
    BY DEF Proceed, Rows, Typed, TypeOK
<1>3. \A q \in Providers : found'[q] = None \/ found'[q] = found[q]
    BY DEF Proceed, Typed, Sound
<1>4. found' = [q \in Providers |-> found'[q]]
    BY DEF Proceed, Typed, Sound
<1>5. QED
    BY <1>1, <1>2, <1>3, <1>4 DEF Proceed, Typed, TypeOK, Sound

LEMMA TypedTakeStatic == ASSUME Typed, NEW p, TakeStatic(p) PROVE Typed'
<1>1. p \in Providers /\ Taking(p) /\ Proceed(p)
    BY TakingType DEF TakeStatic
<1>2. Pairs(p, snapshot[p]) \subseteq Providers \X Models
    BY <1>1, OfferedModels DEF Pairs, Typed, TypeOK, Rows
<1>3. addresses' \subseteq Providers \X Models
    BY <1>2 DEF TakeStatic, Typed, TypeOK
<1>4. TypeOK'
    BY <1>1, <1>3, TypedProceed DEF TakeStatic, Typed, TypeOK
<1>5. QED
    BY <1>1, <1>4, TypedProceed DEF Typed

LEMMA TypedTakeLive == ASSUME Typed, NEW p, TakeLive(p) PROVE Typed'
<1>1. p \in Providers /\ Taking(p) /\ Proceed(p) /\ p \in Discovering
    BY TakingType DEF TakeLive, Typed, Sound
<1>2. PICK models \in Listings(p) :
         /\ rows' = [rows EXCEPT ![p] = Written(p, models)]
         /\ addresses' = addresses \cup Pairs(p, IF Complete(p) THEN models
                                                 ELSE snapshot[p] \cup models)
         /\ listed' = listed \cup Pairs(p, models)
         /\ \E kept \in {models, {}} :
              lastGood' = IF p \in Codex /\ Complete(p)
                          THEN [lastGood EXCEPT ![p] = kept] ELSE lastGood
    BY DEF TakeLive
<1>3. models \subseteq Offered[p]
    BY <1>1, <1>2, ListingType DEF TakeLive
<1>4. rows' \in Rows
    <2>1. Written(p, models) \subseteq Offered[p]
        BY <1>1, <1>3 DEF Written, Typed, TypeOK, Rows
    <2>2. Written(p, models) \subseteq Models
        BY <1>1, <2>1, OfferedModels
    <2>3. QED
        BY <1>1, <1>2, <2>1, <2>2 DEF Rows, Typed, TypeOK
<1>5. lastGood' \in Rows
    <2>1. models \subseteq Models
        BY <1>1, <1>3, OfferedModels
    <2>2. PICK kept \in {models, {}} :
              lastGood' = IF p \in Codex /\ Complete(p)
                          THEN [lastGood EXCEPT ![p] = kept] ELSE lastGood
        BY <1>2
    <2>3. kept \subseteq Offered[p] /\ kept \subseteq Models
        BY <1>3, <2>1
    <2>4. QED
        BY <1>1, <2>2, <2>3 DEF Rows, Typed, TypeOK
<1>6. addresses' \subseteq Providers \X Models /\ listed' \subseteq Providers \X Models
    <2>1. models \subseteq Models /\ snapshot[p] \subseteq Models
        BY <1>1, <1>3, OfferedModels DEF Rows, Typed, TypeOK
    <2>2. Pairs(p, models) \subseteq Providers \X Models
          /\ Pairs(p, snapshot[p] \cup models) \subseteq Providers \X Models
        BY <1>1, <2>1 DEF Pairs
    <2>3. QED
        BY <1>2, <2>2 DEF Typed, TypeOK
<1>7. failing' \subseteq tried' /\ tried' \subseteq Discovering
    BY <1>1 DEF TakeLive, Typed, TypeOK
<1>8. TypeOK'
    BY <1>1, <1>4, <1>5, <1>6, <1>7, TypedProceed DEF TakeLive, Typed, TypeOK
<1>9. QED
    BY <1>1, <1>8, TypedProceed DEF Typed

LEMMA TypedTakeNothing == ASSUME Typed, NEW p, TakeNothing(p) PROVE Typed'
<1>1. p \in Providers /\ Taking(p) /\ Proceed(p) /\ p \in Discovering
    BY TakingType DEF TakeNothing, Typed, Sound
<1>2. snapshot[p] \subseteq Models /\ Fallback(p) \subseteq Models
    BY <1>1, OfferedModels DEF Fallback, Rows, Typed, TypeOK
<1>3. Pairs(p, snapshot[p]) \subseteq Providers \X Models
      /\ Pairs(p, Fallback(p)) \subseteq Providers \X Models
    BY <1>1, <1>2 DEF Pairs
<1>4. addresses' \subseteq Providers \X Models /\ listed' \subseteq Providers \X Models
    BY <1>3 DEF TakeNothing, Typed, TypeOK
<1>5. failing' \subseteq tried' /\ tried' \subseteq Discovering
    BY <1>1 DEF TakeNothing, Typed, TypeOK
<1>6. TypeOK'
    BY <1>1, <1>4, <1>5, TypedProceed DEF TakeNothing, Typed, TypeOK
<1>7. QED
    BY <1>1, <1>6, TypedProceed DEF Typed

LEMMA TypedNext == Typed /\ [Next]_vars => Typed'
<1> SUFFICES ASSUME Typed, [Next]_vars PROVE Typed'
    OBVIOUS
<1>1. ASSUME NEW r \in Callers, ListModels(r) PROVE Typed'
    BY <1>1, TypedRefresh DEF ListModels
<1>2. ASSUME NEW r \in Callers, NEW m \in Models, ResolveModelAddress(r, m) PROVE Typed'
    BY <1>2, TypedRefresh DEF ResolveModelAddress
<1>3. ASSUME NEW r \in Callers, Abandon(r) PROVE Typed'
    <2>1. pc' \in [Callers -> {"idle", "waiting"}]
          /\ \A q \in Callers : pc'[q] = "waiting" => pass' # "none"
        BY <1>3 DEF Abandon, Typed, TypeOK
    <2>2. TypeOK'
        BY <1>3, <2>1 DEF Abandon, Typed, TypeOK, progress
    <2>3. Sound'
        BY <1>3 DEF Abandon, Typed, Sound, progress
    <2>4. QED
        BY <2>2, <2>3 DEF Typed
<1>4. CASE ReadCache
    <2>1. CASE Abort("cache")
        BY <1>4, <2>1, TypedAbort DEF ReadCache, Errors
    <2>2. CASE ~Abort("cache")
        <3>1. /\ snapshot' = rows /\ pass' = "collecting"
              /\ UNCHANGED <<rows, lastGood, late, found, place, addresses, listed, tried,
                             failing, last, pc>>
            BY <1>4, <2>2 DEF ReadCache
        <3>2. TypeOK'
            BY <3>1 DEF Typed, TypeOK
        <3>3. Sound'
            BY <3>1 DEF Typed, Sound
        <3>4. QED
            BY <3>2, <3>3 DEF Typed
    <2>3. QED
        BY <2>1, <2>2
<1>5. ASSUME NEW p \in Providers, Discover(p) PROVE Typed'
    <2>1. PICK attempt \in Attempts(p) : found' = [found EXCEPT ![p] = attempt]
        BY <1>5 DEF Discover
    <2>2. \A q \in Providers : found'[q] = IF q = p THEN attempt ELSE found[q]
        BY <2>1 DEF Typed, Sound
    <2>3. p \in Discovering
          /\ UNCHANGED <<rows, lastGood, pass, late, snapshot, place, addresses, listed,
                         tried, failing, last, pc>>
        BY <1>5 DEF Discover
    <2>4. TypeOK'
        BY <2>2, <2>3 DEF Typed, TypeOK
    <2>5. found' = [q \in Providers |-> found'[q]]
        BY <2>1 DEF Typed, Sound
    <2>6. Sound'
        BY <2>2, <2>3, <2>5 DEF Typed, Sound
    <2>7. QED
        BY <2>4, <2>6 DEF Typed
<1>6. ASSUME NEW p \in Providers, Take(p) PROVE Typed'
    <2>1. CASE TakeStatic(p)
        BY <2>1, TypedTakeStatic
    <2>2. CASE TakeError(p)
        BY <2>2, TypedAbort DEF TakeError, Errors
    <2>3. CASE WriteFails(p)
        BY <2>3, TypedAbort DEF WriteFails, Errors
    <2>4. CASE TakeLive(p)
        BY <2>4, TypedTakeLive
    <2>5. CASE TakeNothing(p)
        BY <2>5, TypedTakeNothing
    <2>6. QED
        BY <1>6, <2>1, <2>2, <2>3, <2>4, <2>5 DEF Take
<1>7. CASE Overdue
    BY <1>7, TypedAbort DEF Overdue, Errors
<1>8. CASE Conclude
    <2>1. CASE listed = {} /\ tried # {} /\ failing = tried
        BY <1>8, <2>1, TypedAbort DEF Conclude, Errors
    <2>2. CASE ~(listed = {} /\ tried # {} /\ failing = tried)
        <3>1. Finish("", addresses, listed) /\ rows' \in Rows /\ lastGood' \in Rows
            BY <1>8, <2>2 DEF Conclude, Typed, TypeOK
        <3>2. QED
            BY <3>1, TypedFinish DEF Errors
    <2>3. QED
        BY <2>1, <2>2
<1>9. CASE RunLate
    <2>1. TypeOK'
        BY <1>9 DEF RunLate, Typed, TypeOK
    <2>2. QED
        BY <1>9, <2>1 DEF RunLate, Typed, Sound
<1>10. CASE CoolDown
    <2>1. TypeOK'
        BY <1>10 DEF CoolDown, Typed, TypeOK, progress
    <2>2. QED
        BY <1>10, <2>1 DEF CoolDown, Typed, Sound, progress
<1>11. CASE Restart
    <2>1. place' \in 1 .. Len(Registry) + 1
        <3>1. place' = 1
            BY <1>11 DEF Restart
        <3>2. QED
            BY <3>1, FirstPlace
    <2>2. lastGood' \in Rows /\ snapshot' \in Rows
        BY <1>11 DEF Restart, Rows
    <2>3. \A p \in Providers : found'[p] = None
        BY <1>11 DEF Restart
    <2>4. TypeOK'
        BY <1>11, <2>1, <2>2, <2>3 DEF Restart, Typed, TypeOK
    <2>5. Sound'
        BY <1>11 DEF Restart, Sound
    <2>6. QED
        BY <2>4, <2>5 DEF Typed
<1>12. ASSUME NEW p \in Providers, ForgetLastGood(p) PROVE Typed'
    <2>1. lastGood' \in Rows
        BY <1>12 DEF ForgetLastGood, Typed, TypeOK, Rows
    <2>2. TypeOK'
        BY <1>12, <2>1 DEF ForgetLastGood, Typed, TypeOK, progress
    <2>3. QED
        BY <1>12, <2>2 DEF ForgetLastGood, Typed, Sound, progress
<1>13. CASE UNCHANGED vars
    <2>1. TypeOK'
        BY <1>13 DEF vars, progress, Typed, TypeOK
    <2>2. QED
        BY <1>13, <2>1 DEF vars, progress, Typed, Sound
<1>14. QED
    BY <1>1, <1>2, <1>3, <1>4, <1>5, <1>6, <1>7, <1>8, <1>9, <1>10, <1>11, <1>12, <1>13
    DEF Next, PassStep

LEMMA TypedAlways == Spec => []Typed
<1>1. Init => Typed
    BY TypedInit
<1>2. Typed /\ [Next]_vars => Typed'
    BY TypedNext
<1>3. QED
    BY <1>1, <1>2, PTL DEF Spec

\* Every variable of the catalog keeps its type, and there is no progress without a pass.
THEOREM TypeCorrect == Spec => []TypeOK
<1>1. Typed => TypeOK
    BY DEF Typed
<1>2. QED
    BY <1>1, TypedAlways, PTL

-----------------------------------------------------------------------------
(* Lost hints *)

\* A step loses no stored routing hint that an answer did not disown.
LEMMA LossStep ==
    ASSUME Typed, [Next]_vars, NEW p \in Providers, NEW m \in rows[p] \ rows'[p]
    PROVE  Disowned(p, m)
<1>1. PICK q \in Providers : TakeLive(q)
    <2>1. rows' # rows
        OBVIOUS
    <2>2. QED
        BY <2>1 DEF Next, PassStep, Take, ListModels, ResolveModelAddress, Abandon, ReadCache,
            Discover, TakeStatic, TakeError, WriteFails, TakeNothing, Overdue, Conclude,
            RunLate, CoolDown, Restart, ForgetLastGood, vars
<1>2. PICK models \in Listings(q) : rows' = [rows EXCEPT ![q] = Written(q, models)]
    BY <1>1 DEF TakeLive
<1>3. rows \in [Providers -> SUBSET Models]
    BY DEF Typed, TypeOK, Rows
<1>4. q = p /\ Complete(p) /\ m \notin models
    BY <1>2, <1>3 DEF Written
<1>5. found[p] # None
    BY <1>1, <1>4 DEF TakeLive
<1>6. CASE p \in Codex
    <2>1. models = UNION {found[p].answers[a] : a \in Answered(p)} /\ models # {}
        BY <1>2, <1>4, <1>6 DEF Listings
    <2>2. \A a \in Answered(p) : m \notin found[p].answers[a]
        BY <1>4, <2>1
    <2>3. Answered(p) # {}
        BY <2>1
    <2>4. QED
        BY <1>4, <1>5, <1>6, <2>2, <2>3 DEF Disowned, Complete
<1>7. CASE p \notin Codex
    <2>1. PICK a \in Answered(p) : models = found[p].answers[a]
        BY <1>2, <1>4, <1>7 DEF Listings
    <2>2. QED
        BY <1>4, <1>5, <1>7, <2>1 DEF Disowned
<1>8. QED
    BY <1>6, <1>7

\* However a pass ends, a stored model goes only if the account that answered, or for a
\* union every eligible account, answered without it.
THEOREM HintsKept == Spec => HintsLostOnlyIfDisowned
<1>1. Typed /\ [Next]_vars => [\A p \in Providers : \A m \in rows[p] \ rows'[p] : Disowned(p, m)]_vars
    BY LossStep
<1>2. QED
    BY <1>1, TypedAlways, PTL DEF Spec, HintsLostOnlyIfDisowned

-----------------------------------------------------------------------------
(* Agreement of addresses, listings and rows *)

Taken == {Registry[i] : i \in 1 .. place - 1}
Collected(S) == UNION {Pairs(p, rows[p]) : p \in S}

\* While a pass collects, its addresses are the rows of the providers taken, and what it
\* read of the others is still stored; the memory keeps nothing that is not.
Collecting ==
    pass = "collecting" => /\ addresses = Collected(Taken)
                           /\ \A p \in Providers \ Taken : snapshot[p] = rows[p]
Pending ==
    pass # "collecting" => place = 1 /\ addresses = {} /\ listed = {}
Remembered ==
    \A p \in Providers : lastGood[p] \subseteq rows[p] /\ (p \notin Codex => lastGood[p] = {})

Agreement ==
    /\ Collecting /\ Pending /\ Remembered
    /\ listed \subseteq addresses
    /\ ListedIsAddressable
    /\ AddressesAreRows

\* A provider is taken once.
LEMMA TakenGrows ==
    ASSUME Typed, NEW p, Taking(p), place' = place + 1
    PROVE  p \notin Taken /\ Taken' = Taken \cup {p}
<1>1. place \in 1 .. Len(Registry) /\ p = Registry[place]
    BY TakingType
<1>2. Len(Registry) \in Nat /\ DOMAIN Registry = 1 .. Len(Registry)
    BY RegistryType
<1>3. \A i \in 1 .. place - 1 : Registry[i] # p
    BY <1>1, <1>2, RegistryAssumption
<1>4. 1 .. place' - 1 = (1 .. place - 1) \cup {place}
    BY <1>1, <1>2
<1>5. QED
    BY <1>1, <1>3, <1>4 DEF Taken

\* When the place is past the end, every provider was taken.
LEMMA AllTaken ==
    ASSUME Typed, place > Len(Registry)
    PROVE  Taken = Providers
<1>1. Len(Registry) \in Nat /\ DOMAIN Registry = 1 .. Len(Registry)
    BY RegistryType
<1>2. place = Len(Registry) + 1
    <2>1. place \in 1 .. Len(Registry) + 1
        BY DEF Typed, TypeOK
    <2>2. QED
        BY <1>1, <2>1
<1>3. 1 .. place - 1 = DOMAIN Registry
    BY <1>1, <1>2
<1>4. QED
    BY <1>3 DEF Taken, Providers

\* The addresses grow with the rows.
LEMMA CollectingGrows ==
    ASSUME Typed, Collecting, NEW p, Taking(p), Proceed(p), NEW models,
           rows' = [rows EXCEPT ![p] = models], addresses' = addresses \cup Pairs(p, models)
    PROVE  Collecting'
<1>1. p \in Providers /\ pass = "collecting"
    BY TakingType DEF Taking
<1>2. p \notin Taken /\ Taken' = Taken \cup {p}
    BY TakenGrows DEF Proceed
<1>3. rows \in [Providers -> SUBSET Models] /\ snapshot \in [Providers -> SUBSET Models]
    BY DEF Typed, TypeOK, Rows
<1>4. rows'[p] = models /\ \A q \in Providers \ {p} : rows'[q] = rows[q] /\ snapshot'[q] = snapshot[q]
    BY <1>1, <1>3 DEF Proceed
<1>5. Taken \subseteq Providers
    <2>1. Len(Registry) \in Nat /\ DOMAIN Registry = 1 .. Len(Registry)
        BY RegistryType
    <2>2. place \in 1 .. Len(Registry)
        BY TakingType
    <2>3. QED
        BY <2>1, <2>2 DEF Taken, Providers
<1>6. Collected(Taken)' = Collected(Taken) \cup Pairs(p, models)
    <2>1. \A q \in Taken : Pairs(q, rows'[q]) = Pairs(q, rows[q])
        BY <1>2, <1>4, <1>5
    <2>2. Pairs(p, rows'[p]) = Pairs(p, models)
        BY <1>4
    <2>3. Collected(Taken)' = UNION {Pairs(q, rows'[q]) : q \in Taken \cup {p}}
        BY <1>2 DEF Collected, Pairs
    <2>4. QED
        BY <2>1, <2>2, <2>3 DEF Collected
<1>7. QED
    BY <1>1, <1>2, <1>4, <1>6 DEF Collecting

LEMMA AgreementInit == Init => Agreement
<1> SUFFICES ASSUME Init PROVE Agreement
    OBVIOUS
<1>1. Collecting /\ Pending /\ listed \subseteq addresses /\ AddressesAreRows
    BY DEF Init, Collecting, Pending, AddressesAreRows
<1>2. Remembered /\ ListedIsAddressable
    BY DEF Init, Remembered, ListedIsAddressable
<1>3. QED
    BY <1>1, <1>2 DEF Agreement

\* The end of a pass, whose addresses are the stored rows if it went well.
LEMMA AgreementFinish ==
    ASSUME Typed, Agreement, NEW how, NEW pairs, NEW models,
           models \subseteq pairs, how = "" => pairs = Stored,
           Finish(how, pairs, models), UNCHANGED <<rows, lastGood>>
    PROVE  Agreement'
<1>1. /\ pass' = "none" /\ place' = 1 /\ addresses' = {} /\ listed' = {}
      /\ last' = [error |-> how, addresses |-> pairs, listed |-> models]
    BY DEF Finish
<1>2. Collecting' /\ Pending' /\ Remembered'
    BY <1>1 DEF Collecting, Pending, Remembered, Agreement
<1>3. Stored' = Stored
    BY DEF Stored
<1>4. AddressesAreRows'
    BY <1>1, <1>3 DEF AddressesAreRows
<1>5. ListedIsAddressable'
    BY <1>1, <1>2 DEF ListedIsAddressable, Remembered
<1>6. QED
    BY <1>1, <1>2, <1>4, <1>5 DEF Agreement

LEMMA AgreementAbort ==
    ASSUME Typed, Agreement, NEW how \in Errors \ {""}, Abort(how), UNCHANGED <<rows, lastGood>>
    PROVE  Agreement'
BY AgreementFinish DEF Abort

\* A step that leaves the store and the progress of a pass alone.
LEMMA AgreementAside ==
    ASSUME Typed, Agreement,
           UNCHANGED <<rows, lastGood, place, snapshot, addresses, listed>>,
           last' \in {last, None}, pass' = "none" => pass = "none",
           pass' = "collecting" <=> pass = "collecting"
    PROVE  Agreement'
<1>1. Collecting' /\ Pending' /\ Remembered'
    BY DEF Agreement, Collecting, Pending, Remembered, Taken, Collected, Pairs
<1>2. AddressesAreRows'
    BY DEF Agreement, AddressesAreRows, Stored
<1>3. ListedIsAddressable'
    BY DEF Agreement, ListedIsAddressable
<1>4. QED
    BY <1>1, <1>2, <1>3 DEF Agreement

LEMMA AgreementTakeStatic ==
    ASSUME Typed, Agreement, NEW p, TakeStatic(p) PROVE Agreement'
<1>1. p \in Providers /\ pass = "collecting" /\ Taking(p) /\ Proceed(p)
    BY TakingType DEF TakeStatic, Taking
<1>2. snapshot[p] = rows[p]
    BY <1>1, TakenGrows DEF Agreement, Collecting, Proceed
<1>3. rows' = [rows EXCEPT ![p] = snapshot[p]]
    BY <1>1, <1>2 DEF TakeStatic, Typed, TypeOK, Rows
<1>4. Collecting'
    BY <1>1, <1>3, CollectingGrows DEF TakeStatic, Agreement
<1>5. Pending' /\ Remembered' /\ AddressesAreRows' /\ listed' \subseteq addresses'
    BY <1>1 DEF TakeStatic, Agreement, Pending, Remembered, AddressesAreRows
<1>6. ListedIsAddressable'
    BY DEF TakeStatic, Agreement, ListedIsAddressable
<1>7. QED
    BY <1>4, <1>5, <1>6 DEF Agreement

LEMMA AgreementTakeLive ==
    ASSUME Typed, Agreement, NEW p, TakeLive(p) PROVE Agreement'
<1>1. p \in Providers /\ pass = "collecting" /\ Taking(p) /\ Proceed(p)
    BY TakingType DEF TakeLive, Taking
<1>2. snapshot[p] = rows[p]
    BY <1>1, TakenGrows DEF Agreement, Collecting, Proceed
<1>3. PICK models \in Listings(p) :
         /\ rows' = [rows EXCEPT ![p] = Written(p, models)]
         /\ addresses' = addresses \cup Pairs(p, IF Complete(p) THEN models
                                                 ELSE snapshot[p] \cup models)
         /\ listed' = listed \cup Pairs(p, models)
         /\ \E kept \in {models, {}} :
              lastGood' = IF p \in Codex /\ Complete(p)
                          THEN [lastGood EXCEPT ![p] = kept] ELSE lastGood
    BY DEF TakeLive
<1>4. addresses' = addresses \cup Pairs(p, Written(p, models))
    BY <1>2, <1>3 DEF Written
<1>5. Collecting'
    BY <1>1, <1>3, <1>4, CollectingGrows DEF Agreement
<1>6. Remembered'
    <2>1. rows'[p] = Written(p, models) /\ \A q \in Providers \ {p} : rows'[q] = rows[q]
        BY <1>1, <1>3 DEF Typed, TypeOK, Rows
    <2>2. \A q \in Providers \ {p} : lastGood'[q] = lastGood[q]
        BY <1>3 DEF Typed, TypeOK, Rows
    <2>3. lastGood'[p] \subseteq Written(p, models) /\ (p \notin Codex => lastGood'[p] = {})
        <3>1. CASE p \in Codex /\ Complete(p)
            BY <1>1, <1>3, <3>1 DEF Written, Typed, TypeOK, Rows
        <3>2. CASE p \in Codex /\ ~Complete(p)
            BY <1>1, <1>3, <3>2 DEF Written, Agreement, Remembered
        <3>3. CASE p \notin Codex
            BY <1>1, <1>3, <3>3 DEF Agreement, Remembered
        <3>4. QED
            BY <3>1, <3>2, <3>3
    <2>4. QED
        BY <1>1, <2>1, <2>2, <2>3 DEF Agreement, Remembered
<1>7. listed' \subseteq addresses'
    <2>1. Pairs(p, models) \subseteq Pairs(p, Written(p, models))
        BY DEF Pairs, Written
    <2>2. QED
        BY <1>3, <1>4, <2>1 DEF Agreement
<1>8. pass' = "collecting" /\ last' = last
    BY <1>1 DEF TakeLive
<1>9. Pending' /\ AddressesAreRows'
    BY <1>8 DEF Pending, AddressesAreRows
<1>10. ListedIsAddressable'
    BY <1>6, <1>8 DEF Agreement, ListedIsAddressable, Remembered
<1>11. QED
    BY <1>5, <1>6, <1>7, <1>9, <1>10 DEF Agreement

LEMMA AgreementTakeNothing ==
    ASSUME Typed, Agreement, NEW p, TakeNothing(p) PROVE Agreement'
<1>1. p \in Providers /\ pass = "collecting" /\ Taking(p) /\ Proceed(p)
    BY TakingType DEF TakeNothing, Taking
<1>2. snapshot[p] = rows[p]
    BY <1>1, TakenGrows DEF Agreement, Collecting, Proceed
<1>3. rows' = [rows EXCEPT ![p] = snapshot[p]]
    BY <1>1, <1>2 DEF TakeNothing, Typed, TypeOK, Rows
<1>4. Collecting'
    BY <1>1, <1>3, CollectingGrows DEF TakeNothing, Agreement
<1>5. listed' \subseteq addresses'
    <2>1. Fallback(p) \subseteq snapshot[p]
        BY <1>1, <1>2 DEF Fallback, Agreement, Remembered
    <2>2. Pairs(p, Fallback(p)) \subseteq Pairs(p, snapshot[p])
        BY <2>1 DEF Pairs
    <2>3. QED
        BY <2>2 DEF TakeNothing, Agreement
<1>6. Pending' /\ Remembered' /\ AddressesAreRows'
    BY <1>1 DEF TakeNothing, Agreement, Pending, Remembered, AddressesAreRows
<1>7. ListedIsAddressable'
    BY DEF TakeNothing, Agreement, ListedIsAddressable
<1>8. QED
    BY <1>4, <1>5, <1>6, <1>7 DEF Agreement

LEMMA AgreementNext == Typed /\ Agreement /\ [Next]_vars => Agreement'
<1> SUFFICES ASSUME Typed, Agreement, [Next]_vars PROVE Agreement'
    OBVIOUS
<1>1. ASSUME NEW r \in Callers, ListModels(r) PROVE Agreement'
    BY <1>1, AgreementAside DEF ListModels, Refresh, progress
<1>2. ASSUME NEW r \in Callers, NEW m \in Models, ResolveModelAddress(r, m) PROVE Agreement'
    BY <1>2, AgreementAside DEF ResolveModelAddress, Refresh, progress
<1>3. ASSUME NEW r \in Callers, Abandon(r) PROVE Agreement'
    BY <1>3, AgreementAside DEF Abandon, progress
<1>4. CASE ReadCache
    <2>1. CASE Abort("cache")
        BY <1>4, <2>1, AgreementAbort DEF ReadCache, Errors
    <2>2. CASE ~Abort("cache")
        <3>1. /\ pass = "reading" /\ snapshot' = rows /\ pass' = "collecting"
              /\ UNCHANGED <<rows, lastGood, place, addresses, listed, last>>
            BY <1>4, <2>2 DEF ReadCache
        <3>2. place = 1 /\ addresses = {}
            BY <3>1 DEF Agreement, Pending
        <3>3. Collected(Taken)' = {}
            BY <3>1, <3>2 DEF Collected, Taken
        <3>4. Collecting'
            BY <3>1, <3>2, <3>3 DEF Collecting
        <3>5. Pending' /\ Remembered' /\ AddressesAreRows' /\ ListedIsAddressable'
              /\ listed' \subseteq addresses'
            BY <3>1 DEF Agreement, Pending, Remembered, AddressesAreRows, ListedIsAddressable
        <3>6. QED
            BY <3>4, <3>5 DEF Agreement
    <2>3. QED
        BY <2>1, <2>2
<1>5. ASSUME NEW p \in Providers, Discover(p) PROVE Agreement'
    BY <1>5, AgreementAside DEF Discover
<1>6. ASSUME NEW p \in Providers, Take(p) PROVE Agreement'
    <2>1. CASE TakeStatic(p)
        BY <2>1, AgreementTakeStatic
    <2>2. CASE TakeError(p)
        BY <2>2, AgreementAbort DEF TakeError, Errors
    <2>3. CASE WriteFails(p)
        BY <2>3, AgreementAbort DEF WriteFails, Errors
    <2>4. CASE TakeLive(p)
        BY <2>4, AgreementTakeLive
    <2>5. CASE TakeNothing(p)
        BY <2>5, AgreementTakeNothing
    <2>6. QED
        BY <1>6, <2>1, <2>2, <2>3, <2>4, <2>5 DEF Take
<1>7. CASE Overdue
    BY <1>7, AgreementAbort DEF Overdue, Errors
<1>8. CASE Conclude
    <2>1. CASE listed = {} /\ tried # {} /\ failing = tried
        BY <1>8, <2>1, AgreementAbort DEF Conclude, Errors
    <2>2. CASE ~(listed = {} /\ tried # {} /\ failing = tried)
        <3>1. Finish("", addresses, listed) /\ UNCHANGED <<rows, lastGood>>
            BY <1>8, <2>2 DEF Conclude
        <3>2. addresses = Collected(Providers)
            BY <1>8, AllTaken DEF Conclude, Agreement, Collecting
        <3>3. addresses = Stored /\ listed \subseteq addresses
            BY <3>2 DEF Collected, Stored, Agreement
        <3>4. QED
            BY <3>1, <3>3, AgreementFinish
    <2>3. QED
        BY <2>1, <2>2
<1>9. CASE RunLate
    BY <1>9, AgreementAside DEF RunLate
<1>10. CASE CoolDown
    BY <1>10, AgreementAside DEF CoolDown, progress
<1>11. CASE Restart
    <2>1. /\ pass' = "none" /\ last' = None /\ place' = 1 /\ addresses' = {} /\ listed' = {}
          /\ rows' = rows /\ lastGood' = [p \in Providers |-> {}]
        BY <1>11 DEF Restart
    <2>2. QED
        BY <2>1 DEF Agreement, Collecting, Pending, Remembered, AddressesAreRows, ListedIsAddressable
<1>12. ASSUME NEW p \in Providers, ForgetLastGood(p) PROVE Agreement'
    <2>1. lastGood' = [lastGood EXCEPT ![p] = {}] /\ UNCHANGED <<rows, pass, progress, last, pc>>
        BY <1>12 DEF ForgetLastGood
    <2>2. Remembered'
        BY <2>1 DEF Agreement, Remembered, Typed, TypeOK, Rows
    <2>3. Collecting' /\ Pending' /\ listed' \subseteq addresses'
        BY <2>1 DEF Agreement, Collecting, Pending, Taken, Collected, Pairs, progress
    <2>4. AddressesAreRows'
        BY <2>1 DEF Agreement, AddressesAreRows, Stored
    <2>5. ListedIsAddressable'
        BY <2>1, <2>2 DEF Agreement, ListedIsAddressable, Remembered
    <2>6. QED
        BY <2>2, <2>3, <2>4, <2>5 DEF Agreement
<1>13. CASE UNCHANGED vars
    BY <1>13, AgreementAside DEF vars, progress
<1>14. QED
    BY <1>1, <1>2, <1>3, <1>4, <1>5, <1>6, <1>7, <1>8, <1>9, <1>10, <1>11, <1>12, <1>13
    DEF Next, PassStep

LEMMA AgreementAlways == Spec => []Agreement
<1>1. Init => Agreement
    BY AgreementInit
<1>2. Typed /\ Agreement /\ [Next]_vars => Agreement'
    BY AgreementNext
<1>3. QED
    BY <1>1, <1>2, TypedAlways, PTL DEF Spec

\* What a listing shows can be routed to, and remembered listings are still stored.
THEOREM ListingRoutable == Spec => []ListedIsAddressable
<1>1. Agreement => ListedIsAddressable
    BY DEF Agreement
<1>2. QED
    BY <1>1, AgreementAlways, PTL

\* A replayed result resolves bare names exactly as the store does, although the pass
\* wrote the rows of each provider at a time of its own.
THEOREM ReplayAgrees == Spec => []AddressesAreRows
<1>1. Agreement => AddressesAreRows
    BY DEF Agreement
<1>2. QED
    BY <1>1, AgreementAlways, PTL
=============================================================================
