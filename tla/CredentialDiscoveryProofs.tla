--------------------- MODULE CredentialDiscoveryProofs ---------------------
(* What CredentialDiscovery guarantees for every number of callers, accounts, *)
(* bearer generations and catalogs: a proof is evidence for its own bearer,   *)
(* is not lost to a transient failure, and the cache keeps count.             *)
EXTENDS CredentialDiscovery, FiniteSetTheorems, TLAPS

Entries == [catalog : Catalogs \cup {None}, age : Nat]
Phases  == {"none", "list", "refresh", "relist", "reject", "write", "publish"}

TypedCache  == cache \in [Keys -> Entries \cup {None}]
TypedFlight ==
    /\ bearer \in [Credentials -> 0 .. MaxGeneration]
    /\ phase \in [Keys -> Phases]
    /\ at \in [Keys -> 0 .. MaxGeneration]
    /\ seen \in [Keys -> Failures \cup Catalogs]
TypedCaller ==
    /\ pc \in [Callers -> {"idle", "observe", "wait", "decide"}]
    /\ fresh \in [Callers -> BOOLEAN]
    /\ holds \in [Callers -> Keys \cup {None}]
    /\ informed \in [Callers -> Keys \cup {None}]

Typed == TypedCache /\ TypedFlight /\ TypedCaller

\* What a flight has seen was said of the bearer it observes now; it has seen nothing
\* but failures as long as that bearer may still be refreshed.
Evidence ==
    \A k \in Keys :
        /\ seen[k] \in Failures \cup Offered[KeyAt(k)]
        /\ phase[k] = "refresh" => seen[k] \in Failures

\* A caller in the discovery holds a key; it was told of that very key or of none.
Informed ==
    \A r \in Callers :
        /\ pc[r] # "idle" => holds[r] \in Keys
        /\ pc[r] # "decide" => informed[r] = None
        /\ informed[r] # None => informed[r] = holds[r]

DiscoveryInv == Typed /\ ProofMatchesBearer /\ Evidence /\ Informed

-----------------------------------------------------------------------------
(* What the cache's operations change. *)

\* Every entry, but perhaps that of the keys in ks, stays or goes.
KeptOrDropped(ks) == \A x \in Keys \ ks : cache'[x] \in {cache[x], None}

LEMMA LookupEffect ==
    ASSUME TypedCache, NEW k \in Keys, Lookup(k)
    PROVE  TypedCache' /\ KeptOrDropped({})
BY DEF TypedCache, Lookup, KeptOrDropped, entries

LEMMA PutEffect ==
    ASSUME TypedCache, NEW k \in Keys, NEW catalog \in Catalogs \cup {None}, NEW preserve,
           Put(k, catalog, preserve)
    PROVE  /\ TypedCache' /\ KeptOrDropped({k})
           /\ cache'[k] = cache[k] \/ cache'[k] = [catalog |-> catalog, age |-> 0]
<1>1. CASE UNCHANGED entries
    BY <1>1 DEF TypedCache, KeptOrDropped, entries
<1>2. CASE \E old \in SUBSET (Present \ {k}) :
             cache' = [x \in Keys |-> IF x = k THEN [catalog |-> catalog, age |-> 0]
                                      ELSE IF x \in old THEN None ELSE cache[x]]
    <2>1. [catalog |-> catalog, age |-> 0] \in Entries
        BY DEF Entries
    <2>2. QED
        BY <1>2, <2>1 DEF TypedCache, KeptOrDropped
<1>3. QED
    BY <1>1, <1>2 DEF Put

\* An entry that stays or goes is no worse evidence than before.
LEMMA EvidenceKept ==
    ASSUME ProofMatchesBearer, NEW ks \in SUBSET Keys, KeptOrDropped(ks),
           \A k \in ks : Known(k)' => cache'[k].catalog \in Offered[k] \ Invalid
    PROVE  ProofMatchesBearer'
<1>1. SUFFICES ASSUME NEW k \in Keys, Known(k)', k \notin ks
               PROVE  cache'[k].catalog \in Offered[k] \ Invalid
    BY DEF ProofMatchesBearer
<1>2. cache'[k] = cache[k]
    BY <1>1 DEF KeptOrDropped, Known, Present
<1>3. Known(k)
    BY <1>1, <1>2 DEF Known, Present
<1>4. QED
    BY <1>2, <1>3 DEF ProofMatchesBearer

-----------------------------------------------------------------------------
(* The count of retained bytes. A content is what the cache holds in some state. *)

\* The count follows every replacement, lookup and eviction, and so the cache stays
\* within its limits of entries and bytes.
WithinLimits ==
    /\ bytes = BytesOf(Present)
    /\ bytes <= MaxBytes
    /\ Cardinality(Present) <= MaxCatalogs

Contents == [Keys -> Entries \cup {None}]
Cells(c, ks) == UNION {{k} \X (1 .. Bytes(c[k])) : k \in ks}
Total(c, ks) == Cardinality(Cells(c, ks))

LEMMA KeysFinite == IsFiniteSet(Keys)
<1>1. IsFiniteSet(0 .. MaxGeneration) /\ IsFiniteSet(Credentials)
    BY FS_Interval, LimitAssumption
<1>2. QED
    BY <1>1, FS_Product, Zenon DEF Keys

LEMMA BytesType ==
    ASSUME NEW entry \in Entries \cup {None}
    PROVE  Bytes(entry) \in 0 .. MaxBytes
BY CatalogAssumption, LimitAssumption DEF Entries, Bytes

LEMMA CellsFinite ==
    ASSUME NEW c \in Contents, NEW ks \in SUBSET Keys
    PROVE  IsFiniteSet(Cells(c, ks)) /\ Total(c, ks) \in Nat
<1>1. IsFiniteSet(Keys \X (1 .. MaxBytes))
    <2>1. IsFiniteSet(1 .. MaxBytes)
        BY FS_Interval, LimitAssumption
    <2>2. QED
        BY <2>1, KeysFinite, FS_Product, Zenon
<1>2. Cells(c, ks) \in SUBSET (Keys \X (1 .. MaxBytes))
    <2>1. ASSUME NEW k \in ks PROVE {k} \X (1 .. Bytes(c[k])) \subseteq Keys \X (1 .. MaxBytes)
        <3>1. Bytes(c[k]) \in 0 .. MaxBytes
            BY BytesType DEF Contents
        <3>2. QED
            BY <3>1, LimitAssumption
    <2>2. QED
        BY <2>1 DEF Cells
<1>3. QED
    BY <1>1, <1>2, FS_Subset, FS_CardinalityType DEF Total

\* Entries that retain the same bytes count the same.
LEMMA TotalSame ==
    ASSUME NEW c, NEW d, NEW ks, \A k \in ks : Bytes(c[k]) = Bytes(d[k])
    PROVE  Total(c, ks) = Total(d, ks)
<1>1. Cells(c, ks) = Cells(d, ks)
    BY DEF Cells
<1>2. QED
    BY <1>1, Zenon DEF Total

LEMMA TotalOfOne ==
    ASSUME NEW c \in Contents, NEW k \in Keys
    PROVE  Total(c, {k}) = Bytes(c[k])
<1> DEFINE n == Bytes(c[k])
<1>1. n \in Nat
    BY BytesType, LimitAssumption DEF Contents
<1>2. Total(c, {k}) = Cardinality({k} \X (1 .. n))
    BY DEF Total, Cells
<1>3. Cardinality(1 .. n) = n /\ IsFiniteSet(1 .. n)
    BY <1>1, FS_Interval
<1>4. Cardinality({k} \X (1 .. n)) = Cardinality({k}) * Cardinality(1 .. n)
    BY <1>3, FS_Singleton, FS_Product, Zenon
<1>5. Total(c, {k}) = 1 * n
    BY <1>2, <1>3, <1>4, FS_Singleton, Zenon
<1>6. QED
    BY <1>1, <1>5

LEMMA TotalOfBoth ==
    ASSUME NEW c \in Contents, NEW ks \in SUBSET Keys, NEW js \in SUBSET Keys, ks \cap js = {}
    PROVE  Total(c, ks \cup js) = Total(c, ks) + Total(c, js)
<1>1. IsFiniteSet(Cells(c, ks)) /\ IsFiniteSet(Cells(c, js))
    BY CellsFinite
<1>2. Cells(c, ks \cup js) = Cells(c, ks) \cup Cells(c, js)
    BY DEF Cells
<1>3. Cells(c, ks) \cap Cells(c, js) = {}
    BY DEF Cells
<1>4. Total(c, ks \cup js) = Cardinality(Cells(c, ks) \cup Cells(c, js))
    BY <1>2, Zenon DEF Total
<1>5. Cardinality(Cells(c, ks) \cup Cells(c, js))
         = Total(c, ks) + Total(c, js) - Cardinality(Cells(c, ks) \cap Cells(c, js))
    BY <1>1, FS_Union, Zenon DEF Total
<1>6. Cardinality(Cells(c, ks) \cap Cells(c, js)) = 0
    BY <1>3, FS_EmptySet, Zenon
<1>7. QED
    BY <1>4, <1>5, <1>6, CellsFinite

LEMMA TotalOfMore ==
    ASSUME NEW c \in Contents, NEW ks \in SUBSET Keys, NEW k \in Keys \ ks
    PROVE  Total(c, ks \cup {k}) = Total(c, ks) + Bytes(c[k])
<1>1. {k} \in SUBSET Keys /\ ks \cap {k} = {}
    OBVIOUS
<1>2. Total(c, ks \cup {k}) = Total(c, ks) + Total(c, {k})
    BY <1>1, TotalOfBoth
<1>3. QED
    BY <1>2, TotalOfOne

LEMMA Accounting ==
    /\ WithinLimits <=> /\ bytes = Total(cache, Present) /\ bytes <= MaxBytes
                        /\ Cardinality(Present) <= MaxCatalogs
    /\ WithinLimits' <=> /\ bytes' = Total(cache', Present') /\ bytes' <= MaxBytes
                         /\ Cardinality(Present') <= MaxCatalogs
BY Zenon DEF WithinLimits, BytesOf, Total, Cells

LEMMA LookupCounts ==
    ASSUME TypedCache, WithinLimits, NEW k \in Keys, Lookup(k)
    PROVE  WithinLimits'
<1>1. CASE UNCHANGED entries
    BY <1>1 DEF WithinLimits, BytesOf, Present, entries
<1>2. CASE k \in Present /\ cache' = [cache EXCEPT ![k] = None] /\ bytes' = bytes - Bytes(cache[k])
    <2>0. PICK rest : rest = Present \ {k}
        OBVIOUS
    <2>1. rest \in SUBSET Keys /\ k \notin rest
        BY <2>0 DEF Present
    <2>2. cache \in Contents /\ cache' \in Contents
        BY <1>2 DEF TypedCache, Contents
    <2>3. Present' = rest /\ \A x \in rest : Bytes(cache'[x]) = Bytes(cache[x])
        BY <1>2, <2>0 DEF Present, TypedCache
    <2>4. Total(cache, Present) = Total(cache, rest) + Bytes(cache[k])
        <3>1. Present = rest \cup {k}
            BY <1>2, <2>0
        <3>2. QED
            BY <2>1, <2>2, <3>1, TotalOfMore
    <2>5. Total(cache', rest) = Total(cache, rest)
        BY <2>3, TotalSame
    <2>6. Cardinality(rest) \in Nat /\ Cardinality(Present) \in Nat
          /\ Cardinality(rest) <= Cardinality(Present)
        <3>1. IsFiniteSet(Present)
            BY KeysFinite, FS_Subset DEF Present
        <3>2. QED
            BY <2>0, <3>1, FS_Subset, FS_CardinalityType
    <2>7. Total(cache, rest) \in Nat /\ Bytes(cache[k]) \in Nat
        BY <2>1, <2>2, CellsFinite, BytesType, LimitAssumption DEF Contents
    <2>8. QED
        BY <1>2, <2>3, <2>4, <2>5, <2>6, <2>7, Accounting, LimitAssumption
<1>3. QED
    BY <1>1, <1>2 DEF Lookup

Stored(k, old, entry) ==
    [x \in Keys |-> IF x = k THEN entry ELSE IF x \in old THEN None ELSE cache[x]]

\* What replacing the entry of k and evicting those in old leaves.
LEMMA StoredBytes ==
    ASSUME TypedCache, NEW k \in Keys, NEW old \in SUBSET (Present \ {k}), NEW entry \in Entries,
           cache' = Stored(k, old, entry)
    PROVE  /\ Present' = ((Present \ {k}) \ old) \cup {k}
           /\ Total(cache', Present')
                = Total(cache, Present) - Bytes(cache[k]) - Total(cache, old) + Bytes(entry)
<1>1. PICK rest \in SUBSET Keys : rest = (Present \ {k}) \ old /\ k \notin rest
    BY DEF Present
<1>2. old \in SUBSET Keys /\ rest \cap old = {} /\ k \notin rest \cup old
    BY <1>1 DEF Present
<1>3. /\ cache \in Contents /\ cache' \in Contents
      /\ cache'[k] = entry /\ \A x \in rest : cache'[x] = cache[x]
    BY <1>1 DEF TypedCache, Contents, Stored
<1>4. Present' = rest \cup {k}
    BY <1>1, CatalogAssumption DEF Present, Stored, Entries
<1>5. Total(cache', rest \cup {k}) = Total(cache, rest) + Bytes(entry)
    <2>1. Total(cache', rest) = Total(cache, rest)
        BY <1>3, TotalSame
    <2>2. QED
        BY <1>1, <1>3, <2>1, TotalOfMore
<1>6. Total(cache, Present) = Total(cache, rest) + Total(cache, old) + Bytes(cache[k])
    <2>1. Total(cache, rest \cup old) = Total(cache, rest) + Total(cache, old)
        BY <1>2, <1>3, TotalOfBoth
    <2>2. CASE k \in Present
        <3>1. Present = (rest \cup old) \cup {k}
            BY <1>1, <2>2
        <3>2. Total(cache, Present) = Total(cache, rest \cup old) + Bytes(cache[k])
            BY <1>2, <1>3, <3>1, TotalOfMore
        <3>3. QED
            BY <2>1, <3>2
    <2>3. CASE k \notin Present
        <3>1. Present = rest \cup old /\ Bytes(cache[k]) = 0
            BY <1>1, <2>3 DEF Present, Bytes
        <3>2. QED
            BY <1>2, <1>3, <2>1, <3>1, CellsFinite
    <2>4. QED
        BY <2>2, <2>3
<1>7. Total(cache, rest) \in Nat /\ Total(cache, old) \in Nat /\ Bytes(cache[k]) \in Nat
      /\ Bytes(entry) \in Nat
    BY <1>2, <1>3, CellsFinite, BytesType, LimitAssumption DEF Contents
<1>8. QED
    BY <1>1, <1>4, <1>5, <1>6, <1>7

LEMMA PutCounts ==
    ASSUME TypedCache, WithinLimits, NEW k \in Keys, NEW catalog \in Catalogs \cup {None},
           NEW preserve, Put(k, catalog, preserve)
    PROVE  WithinLimits'
<1> DEFINE entry == [catalog |-> catalog, age |-> 0]
           others == Present \ {k}
<1>1. CASE UNCHANGED entries
    BY <1>1 DEF WithinLimits, BytesOf, Present, entries
<1>2. ASSUME NEW old \in SUBSET others, MakesRoom(old, k, entry),
             cache' = Stored(k, old, entry),
             bytes' = bytes - Bytes(cache[k]) - BytesOf(old) + Bytes(entry)
      PROVE  WithinLimits'
    <2>1. entry \in Entries
        BY DEF Entries
    <2>2. /\ Present' = (others \ old) \cup {k}
          /\ Total(cache', Present')
               = Total(cache, Present) - Bytes(cache[k]) - Total(cache, old) + Bytes(entry)
        BY <1>2, <2>1, StoredBytes
    <2>3. BytesOf(old) = Total(cache, old)
        BY Zenon DEF BytesOf, Total, Cells
    <2>4. bytes' = Total(cache', Present')
        BY <1>2, <2>2, <2>3, Accounting
    <2>5. /\ Cardinality(others \ old) < MaxCatalogs
          /\ bytes - Bytes(cache[k]) - BytesOf(old) + Bytes(entry) <= MaxBytes
        <3>1. others \ (others \ old) = old
            BY <1>2
        <3>2. QED
            BY <1>2, <3>1, Zenon DEF MakesRoom
    <2>6. Cardinality(Present') <= MaxCatalogs
        <3>1. IsFiniteSet(others \ old) /\ k \notin others \ old
            BY KeysFinite, FS_Subset DEF Present
        <3>2. Cardinality((others \ old) \cup {k}) = Cardinality(others \ old) + 1
            BY <3>1, FS_AddElement
        <3>3. Cardinality(others \ old) \in Nat
            BY <3>1, FS_CardinalityType
        <3>4. QED
            BY <2>2, <2>5, <3>2, <3>3, LimitAssumption
    <2>7. QED
        BY <1>2, <2>4, <2>5, <2>6, Accounting
<1>3. QED
    BY <1>1, <1>2 DEF Put, Stored

\* A store takes a known entry of another key away only if the cache is full.
LEMMA PutEvicts ==
    ASSUME TypedCache, WithinLimits, NEW k \in Keys, NEW catalog \in Catalogs \cup {None},
           NEW preserve, Put(k, catalog, preserve),
           NEW j \in Keys \ {k}, Known(j), cache'[j] # cache[j]
    PROVE  cache'[j] = None /\ Full
<1> DEFINE entry == [catalog |-> catalog, age |-> 0]
           others == Present \ {k}
<1>1. PICK old \in SUBSET others : MakesRoom(old, k, entry) /\ cache' = Stored(k, old, entry)
    <2>1. ~ UNCHANGED entries
        BY DEF entries
    <2>2. QED
        BY <2>1, Zenon DEF Put, Stored
<1>2. j \in old /\ cache'[j] = None
    BY <1>1 DEF Stored
<1>3. PICK a \in old :
           ~ /\ Cardinality((others \ old) \cup {a}) < MaxCatalogs
             /\ bytes - Bytes(cache[k]) - BytesOf(others \ ((others \ old) \cup {a}))
                  + Bytes(entry) <= MaxBytes
    BY <1>1, <1>2, Zenon DEF MakesRoom
<1>4. CASE ~(Cardinality((others \ old) \cup {a}) < MaxCatalogs)
    <2>1. (others \ old) \cup {a} \in SUBSET Present /\ Present \in SUBSET Keys
        BY <1>1 DEF Present
    <2>2. IsFiniteSet(Present)
        BY <2>1, KeysFinite, FS_Subset
    <2>3. Cardinality((others \ old) \cup {a}) <= Cardinality(Present)
          /\ Cardinality(Present) \in Nat /\ Cardinality((others \ old) \cup {a}) \in Nat
        BY <2>1, <2>2, FS_Subset, FS_CardinalityType
    <2>4. QED
        BY <1>2, <1>4, <2>3, LimitAssumption DEF Full
<1>5. CASE ~(bytes - Bytes(cache[k]) - BytesOf(others \ ((others \ old) \cup {a}))
               + Bytes(entry) <= MaxBytes)
    <2> DEFINE gone == others \ ((others \ old) \cup {a})
    <2>1. BytesOf(gone) \in Nat /\ BytesOf(Present) \in Nat
        <3>1. gone \in SUBSET Keys /\ Present \in SUBSET Keys /\ cache \in Contents
            BY DEF Present, TypedCache, Contents
        <3>2. Total(cache, gone) \in Nat /\ Total(cache, Present) \in Nat
            BY <3>1, CellsFinite
        <3>3. BytesOf(gone) = Total(cache, gone) /\ BytesOf(Present) = Total(cache, Present)
            BY Zenon DEF BytesOf, Total, Cells
        <3>4. QED
            BY <3>2, <3>3
    <2>2. Bytes(cache[k]) \in Nat /\ Bytes(entry) \in Nat
        BY BytesType, LimitAssumption DEF TypedCache, Entries
    <2>3. BytesOf(Present) + Bytes(entry) > MaxBytes
        BY <1>5, <2>1, <2>2, LimitAssumption DEF WithinLimits
    <2>4. PICK m \in Catalogs : Bytes(entry) <= Size[m] /\ Size[m] \in Nat
        <3>1. CASE catalog = None
            <4>1. cache[j].catalog \in Catalogs
                BY DEF Known, Present, TypedCache, Entries
            <4>2. QED
                BY <3>1, <4>1, CatalogAssumption DEF Bytes
        <3>2. CASE catalog \in Catalogs
            BY <3>2, CatalogAssumption DEF Bytes
        <3>3. QED
            BY <3>1, <3>2
    <2>5. BytesOf(Present) + Size[m] > MaxBytes
        BY <2>1, <2>2, <2>3, <2>4, LimitAssumption
    <2>6. QED
        BY <1>2, <2>5 DEF Full
<1>6. QED
    BY <1>3, <1>4, <1>5

-----------------------------------------------------------------------------
(* The steps of callers. *)

\* The flights stay as they are.
LEMMA FlightsKept ==
    ASSUME DiscoveryInv, UNCHANGED <<bearer, flights>>
    PROVE  TypedFlight' /\ Evidence'
BY DEF DiscoveryInv, Typed, TypedFlight, Evidence, KeyAt, flights

LEMMA CallersKept ==
    ASSUME DiscoveryInv, UNCHANGED caller
    PROVE  TypedCaller' /\ Informed'
BY DEF DiscoveryInv, Typed, TypedCaller, Informed, caller

LEMMA CacheKept ==
    ASSUME DiscoveryInv, UNCHANGED entries
    PROVE  TypedCache' /\ ProofMatchesBearer'
BY DEF DiscoveryInv, Typed, TypedCache, ProofMatchesBearer, Known, Present, entries

LEMMA CacheLooked ==
    ASSUME DiscoveryInv, NEW k \in Keys, Lookup(k)
    PROVE  TypedCache' /\ ProofMatchesBearer'
BY LookupEffect, EvidenceKept DEF DiscoveryInv, Typed

LEMMA LeaveEffect ==
    ASSUME TypedCaller, Informed, NEW rs \in SUBSET Callers, NEW k \in Keys,
           NEW proof \in {k, None}, \A r \in rs : pc[r] \in {"observe", "wait"}, Leave(rs, k, proof)
    PROVE  TypedCaller' /\ Informed'
<1>1. TypedCaller'
    BY DEF TypedCaller, Leave
<1>2. Informed'
    BY DEF Informed, Leave, TypedCaller
<1>3. QED
    BY <1>1, <1>2

LEMMA StepRequest ==
    ASSUME DiscoveryInv, NEW r \in Callers, Request(r)
    PROVE  DiscoveryInv'
<1>1. PICK c \in Credentials :
           /\ holds' = [holds EXCEPT ![r] = <<c, bearer[c]>>]
           /\ Goto(r, IF Cached(<<c, bearer[c]>>) THEN "decide" ELSE "observe")
           /\ Lookup(<<c, bearer[c]>>)
    BY DEF Request
<1>2. <<c, bearer[c]>> \in Keys
    BY DEF DiscoveryInv, Typed, TypedFlight, Keys
<1>3. TypedCache' /\ ProofMatchesBearer'
    BY <1>1, <1>2, CacheLooked
<1>4. TypedFlight' /\ Evidence'
    BY FlightsKept DEF Request
<1>5. TypedCaller'
    BY <1>1, <1>2 DEF Request, DiscoveryInv, Typed, TypedCaller, Goto
<1>6. Informed'
    BY <1>1, <1>2 DEF Request, DiscoveryInv, Typed, TypedCaller, Informed, Goto
<1>7. QED
    BY <1>3, <1>4, <1>5, <1>6 DEF DiscoveryInv, Typed

LEMMA StepListModels ==
    ASSUME DiscoveryInv, NEW r \in Callers, ListModels(r)
    PROVE  DiscoveryInv'
<1>1. PICK c \in Credentials : holds' = [holds EXCEPT ![r] = <<c, bearer[c]>>]
    BY DEF ListModels
<1>2. <<c, bearer[c]>> \in Keys
    BY DEF DiscoveryInv, Typed, TypedFlight, Keys
<1>3. TypedCaller' /\ Informed'
    BY <1>1, <1>2 DEF ListModels, DiscoveryInv, Typed, TypedCaller, Informed, Goto
<1>4. QED
    BY <1>3, FlightsKept, CacheKept DEF ListModels, DiscoveryInv, Typed

LEMMA StepObserve ==
    ASSUME DiscoveryInv, NEW r \in Callers, Observe(r)
    PROVE  DiscoveryInv'
<1>1. holds[r] \in Keys /\ pc[r] = "observe"
    BY DEF Observe, DiscoveryInv, Informed
<1>2. TypedCache' /\ ProofMatchesBearer'
    BY <1>1, CacheKept, CacheLooked DEF Observe
<1>3. CASE UNCHANGED flights /\ Leave({r}, holds[r], None)
    BY <1>1, <1>2, <1>3, FlightsKept, LeaveEffect DEF Observe, DiscoveryInv, Typed
<1>4. CASE Goto(r, "wait") /\ UNCHANGED <<fresh, holds, informed, at, seen>>
           /\ (UNCHANGED phase \/ Proceed(holds[r], "list"))
    <2>1. TypedCaller' /\ Informed'
        BY <1>1, <1>4 DEF DiscoveryInv, Typed, TypedCaller, Informed, Goto
    <2>2. TypedFlight'
        BY <1>1, <1>4 DEF Observe, DiscoveryInv, Typed, TypedFlight, Proceed, Phases
    <2>3. Evidence'
        BY <1>1, <1>4 DEF DiscoveryInv, Typed, TypedFlight, Evidence, Proceed, KeyAt
    <2>4. QED
        BY <1>2, <2>1, <2>2, <2>3 DEF DiscoveryInv, Typed
<1>5. QED
    BY <1>3, <1>4 DEF Observe, flights

LEMMA StepAbandon ==
    ASSUME DiscoveryInv, NEW r \in Callers, Abandon(r)
    PROVE  DiscoveryInv'
<1>1. holds[r] \in Keys /\ pc[r] = "wait"
    BY DEF Abandon, DiscoveryInv, Informed
<1>2. TypedCaller' /\ Informed'
    BY <1>1, LeaveEffect DEF Abandon, DiscoveryInv, Typed
<1>3. QED
    BY <1>2, FlightsKept, CacheKept DEF Abandon, DiscoveryInv, Typed

LEMMA StepDecide ==
    ASSUME DiscoveryInv, NEW r \in Callers, Decide(r)
    PROVE  DiscoveryInv'
<1>1. holds[r] \in Keys
    BY DEF Decide, DiscoveryInv, Informed
<1>2. TypedCaller' /\ Informed'
    BY <1>1 DEF Decide, DiscoveryInv, Typed, TypedCaller, Informed, Goto
<1>3. QED
    BY <1>1, <1>2, FlightsKept, CacheLooked DEF Decide, DiscoveryInv, Typed

-----------------------------------------------------------------------------
(* The steps of a flight, of a refresh elsewhere, and of time. *)

LEMMA KeyAtIsKey ==
    ASSUME TypedFlight, NEW k \in Keys
    PROVE  KeyAt(k) \in Keys
BY DEF TypedFlight, KeyAt, Keys

\* A flight that goes on with what it was said of its bearer.
LEMMA FlightMoves ==
    ASSUME DiscoveryInv, NEW k \in Keys, NEW l \in Phases, NEW s, Proceed(k, l),
           s \in Failures \cup Offered[KeyAt(k)], l = "refresh" => s \in Failures,
           seen' = [seen EXCEPT ![k] = s], UNCHANGED <<bearer, at>>
    PROVE  TypedFlight' /\ Evidence'
<1>1. TypedFlight'
    <2>1. s \in Failures \cup Catalogs
        BY KeyAtIsKey, CatalogAssumption DEF DiscoveryInv, Typed
    <2>2. QED
        BY <2>1 DEF DiscoveryInv, Typed, TypedFlight, Proceed
<1>2. Evidence'
    BY DEF DiscoveryInv, Typed, TypedFlight, Evidence, Proceed, KeyAt
<1>3. QED
    BY <1>1, <1>2

LEMMA StepListing ==
    ASSUME DiscoveryInv, NEW k \in Keys, Answer(k) \/ Fail(k) \/ Unauthorized(k)
    PROVE  DiscoveryInv'
<1>1. TypedFlight' /\ Evidence'
    <2>1. Listed(k) \in Phases /\ Listed(k) # "refresh"
        BY DEF Listed, Phases
    <2>2. CASE Answer(k)
        BY <2>1, <2>2, FlightMoves DEF Answer
    <2>3. CASE Fail(k)
        BY <2>1, <2>3, FlightMoves DEF Fail
    <2>4. CASE Unauthorized(k)
        BY <2>4, FlightMoves DEF Unauthorized, Failures, Phases
    <2>5. QED
        BY <2>2, <2>3, <2>4
<1>2. QED
    BY <1>1, CallersKept, CacheKept DEF Answer, Fail, Unauthorized, DiscoveryInv, Typed

LEMMA StepRefreshFails ==
    ASSUME DiscoveryInv, NEW k \in Keys, RefreshFails(k)
    PROVE  DiscoveryInv'
<1>1. seen' = [seen EXCEPT ![k] = seen[k]]
    BY DEF RefreshFails, DiscoveryInv, Typed, TypedFlight
<1>2. TypedFlight' /\ Evidence'
    BY <1>1, FlightMoves DEF RefreshFails, DiscoveryInv, Evidence, Phases
<1>3. QED
    BY <1>2, CallersKept, CacheKept DEF RefreshFails, DiscoveryInv, Typed

LEMMA StepRefresh ==
    ASSUME DiscoveryInv, NEW k \in Keys, Refresh(k)
    PROVE  DiscoveryInv'
<1>1. k[1] \in Credentials /\ bearer[k[1]] \in 0 .. MaxGeneration
    BY DEF Keys, DiscoveryInv, Typed, TypedFlight
<1>2. PICK g \in {bearer[k[1]], bearer[k[1]] + 1} :
           /\ g <= MaxGeneration
           /\ bearer' = [bearer EXCEPT ![k[1]] = g]
           /\ at' = [at EXCEPT ![k] = g]
    BY DEF Refresh
<1>3. g \in 0 .. MaxGeneration
    BY <1>1, <1>2, LimitAssumption
<1>4. TypedFlight'
    BY <1>1, <1>2, <1>3 DEF Refresh, DiscoveryInv, Typed, TypedFlight, Proceed, Phases
<1>5. seen[k] \in Failures
    BY DEF Refresh, DiscoveryInv, Evidence
<1>6. Evidence'
    BY <1>2, <1>5 DEF Refresh, DiscoveryInv, Typed, TypedFlight, Evidence, Proceed, KeyAt
<1>7. QED
    BY <1>4, <1>6, CallersKept, CacheKept DEF Refresh, DiscoveryInv, Typed

LEMMA StepRejectOld ==
    ASSUME DiscoveryInv, NEW k \in Keys, RejectOld(k)
    PROVE  DiscoveryInv'
<1>1. /\ TypedCache' /\ KeptOrDropped({k})
      /\ cache'[k] = cache[k] \/ cache'[k] = [catalog |-> None, age |-> 0]
    BY PutEffect DEF RejectOld, DiscoveryInv, Typed
<1>2. ProofMatchesBearer'
    BY <1>1, EvidenceKept DEF DiscoveryInv, ProofMatchesBearer, Known, Present
<1>3. seen' = [seen EXCEPT ![k] = seen[k]]
    BY DEF RejectOld, DiscoveryInv, Typed, TypedFlight
<1>4. TypedFlight' /\ Evidence'
    BY <1>3, FlightMoves DEF RejectOld, DiscoveryInv, Evidence, Phases
<1>5. QED
    BY <1>1, <1>2, <1>4, CallersKept DEF RejectOld, DiscoveryInv, Typed

\* The observation is filed under the bearer it was made with.
LEMMA StepWrite ==
    ASSUME DiscoveryInv, NEW k \in Keys, Write(k)
    PROVE  DiscoveryInv'
<1> DEFINE taken == IF seen[k] \in Catalogs \ Invalid THEN seen[k] ELSE None
           x == KeyAt(k)
<1>1. x \in Keys
    BY KeyAtIsKey DEF DiscoveryInv, Typed
<1>2. taken # None => taken \in Offered[x] \ Invalid
    BY CatalogAssumption DEF DiscoveryInv, Evidence, Failures
<1>3. \E preserve \in BOOLEAN : Put(x, taken, preserve)
    BY DEF Write, WriteKey
<1>4. /\ TypedCache' /\ KeptOrDropped({x})
      /\ cache'[x] = cache[x] \/ cache'[x] = [catalog |-> taken, age |-> 0]
    BY <1>1, <1>3, PutEffect DEF DiscoveryInv, Typed
<1>5. ProofMatchesBearer'
    BY <1>1, <1>2, <1>4, EvidenceKept DEF DiscoveryInv, ProofMatchesBearer, Known, Present
<1>6. seen' = [seen EXCEPT ![k] = seen[k]]
    BY DEF Write, DiscoveryInv, Typed, TypedFlight
<1>7. TypedFlight' /\ Evidence'
    BY <1>6, FlightMoves DEF Write, DiscoveryInv, Evidence, Phases
<1>8. QED
    BY <1>4, <1>5, <1>7, CallersKept DEF Write, DiscoveryInv, Typed

LEMMA StepPublish ==
    ASSUME DiscoveryInv, NEW k \in Keys, Publish(k)
    PROVE  DiscoveryInv'
<1>1. KeyAt(k) \in Keys
    BY KeyAtIsKey DEF DiscoveryInv, Typed
<1>2. TypedCaller' /\ Informed'
    BY <1>1, LeaveEffect DEF Publish, Published, Waiters, DiscoveryInv, Typed
<1>3. k[2] \in 0 .. MaxGeneration
    BY DEF Keys
<1>4. TypedFlight'
    BY <1>3 DEF Publish, Proceed, Phases, Failures, DiscoveryInv, Typed, TypedFlight
<1>5. Evidence'
    BY DEF Publish, Proceed, DiscoveryInv, Typed, TypedFlight, Evidence, KeyAt, Failures
<1>6. QED
    BY <1>2, <1>4, <1>5, CacheKept DEF Publish, DiscoveryInv, Typed

LEMMA StepRotate ==
    ASSUME DiscoveryInv, NEW c \in Credentials, Rotate(c)
    PROVE  DiscoveryInv'
<1>1. bearer[c] + 1 \in 0 .. MaxGeneration
    BY LimitAssumption DEF Rotate, DiscoveryInv, Typed, TypedFlight
<1>2. TypedFlight'
    BY <1>1 DEF Rotate, DiscoveryInv, Typed, TypedFlight, flights
<1>3. Evidence'
    BY DEF Rotate, DiscoveryInv, Evidence, KeyAt, flights
<1>4. QED
    BY <1>2, <1>3, CallersKept, CacheKept DEF Rotate, DiscoveryInv, Typed

LEMMA StepTick ==
    ASSUME DiscoveryInv, Tick
    PROVE  DiscoveryInv'
<1>1. ASSUME NEW k \in Keys
      PROVE  /\ cache'[k] \in Entries \cup {None}
             /\ Known(k)' => Known(k) /\ cache'[k].catalog = cache[k].catalog
    <2>1. CASE cache[k] = None
        BY <2>1 DEF Tick, Present, Known
    <2>2. CASE cache[k] \in Entries
        BY <2>2 DEF Tick, Present, Known, Entries
    <2>3. QED
        BY <2>1, <2>2 DEF DiscoveryInv, Typed, TypedCache
<1>2. TypedCache' /\ ProofMatchesBearer'
    BY <1>1 DEF Tick, TypedCache, ProofMatchesBearer, DiscoveryInv
<1>3. QED
    BY <1>2, CallersKept, FlightsKept DEF Tick, DiscoveryInv, Typed

-----------------------------------------------------------------------------
LEMMA DiscoveryInit ==
    ASSUME Init
    PROVE  DiscoveryInv
<1>1. TypedCache /\ ProofMatchesBearer
    BY DEF Init, TypedCache, ProofMatchesBearer, Known, Present
<1>2. TypedFlight /\ Evidence
    BY LimitAssumption DEF Init, TypedFlight, Evidence, Keys, Phases, Failures
<1>3. TypedCaller /\ Informed
    BY DEF Init, TypedCaller, Informed
<1>4. QED
    BY <1>1, <1>2, <1>3 DEF DiscoveryInv, Typed

LEMMA DiscoveryNext ==
    ASSUME DiscoveryInv, [Next]_vars
    PROVE  DiscoveryInv'
<1>1. CASE UNCHANGED vars
    BY <1>1, FlightsKept, CallersKept, CacheKept DEF vars, DiscoveryInv, Typed
<1>2. ASSUME NEW k \in Keys, FlightStep(k) PROVE DiscoveryInv'
    BY <1>2, StepListing, StepRefreshFails, StepRefresh, StepRejectOld, StepWrite, StepPublish
    DEF FlightStep
<1>3. QED
    BY <1>1, <1>2, StepRequest, StepListModels, StepObserve, StepAbandon, StepDecide,
       StepRotate, StepTick DEF Next

LEMMA DiscoveryAlways == Spec => []DiscoveryInv
<1>1. Init => DiscoveryInv
    BY DiscoveryInit
<1>2. DiscoveryInv /\ [Next]_vars => DiscoveryInv'
    BY DiscoveryNext
<1>3. QED
    BY <1>1, <1>2, PTL DEF Spec

\* A proof is evidence for its own bearer, across refreshes within a flight and whatever
\* is evicted, invalidated or observed beside it.
THEOREM ProofsAreEvidence == Spec => []ProofMatchesBearer
<1>1. DiscoveryInv => ProofMatchesBearer
    BY DEF DiscoveryInv
<1>2. QED
    BY <1>1, DiscoveryAlways, PTL

\* A request whose discovery proved a bearer is served with that bearer's proof.
THEOREM ProvedIsServed == Spec => []DiscoveredBearerIsUsed
<1>1. DiscoveryInv => DiscoveredBearerIsUsed
    BY DEF DiscoveryInv, Informed, DiscoveredBearerIsUsed, Verdict
<1>2. QED
    BY <1>1, DiscoveryAlways, PTL


\* A request asks the upstream only if nothing is known of its bearer at that moment.
LEMMA AsksIfUnknown ==
    ASSUME DiscoveryInv, [Next]_vars, NEW r \in Callers, NEW k \in Keys,
           pc[r] = "observe", pc'[r] = "wait", ~fresh[r], holds[r] = k,
           phase[k] = "none", phase'[k] = "list"
    PROVE  ~Cached(k)
<1>1. CASE Observe(r)
    BY <1>1 DEF Observe, Spared, flights
<1>2. ASSUME NEW j \in Callers \ {r},
             Request(j) \/ ListModels(j) \/ Observe(j) \/ Abandon(j) \/ Decide(j)
      PROVE  FALSE
    <2>1. CASE Request(j) \/ ListModels(j) \/ Decide(j)
        BY <1>2, <2>1 DEF Request, ListModels, Decide, flights
    <2>2. CASE Observe(j)
        <3>1. pc'[r] = pc[r]
            BY <1>2, <2>2 DEF Observe, Goto, Leave, DiscoveryInv, Typed, TypedCaller
        <3>2. QED
            BY <3>1
    <2>3. CASE Abandon(j)
        BY <1>2, <2>3 DEF Abandon, flights
    <2>4. QED
        BY <1>2, <2>1, <2>2, <2>3
<1>3. CASE Request(r) \/ ListModels(r) \/ Abandon(r) \/ Decide(r)
    BY <1>3 DEF Request, ListModels, Abandon, Decide
<1>4. ASSUME NEW f \in Keys, FlightStep(f) PROVE FALSE
    <2>1. CASE UNCHANGED caller
        BY <2>1 DEF caller
    <2>2. CASE Publish(f)
        BY <2>2 DEF Publish, Proceed, DiscoveryInv, Typed, TypedFlight
    <2>3. QED
        BY <1>4, <2>1, <2>2
        DEF FlightStep, Answer, Fail, Unauthorized, RefreshFails, Refresh, RejectOld, Write
<1>5. CASE Tick \/ (\E c \in Credentials : Rotate(c)) \/ UNCHANGED vars
    BY <1>5 DEF Tick, Rotate, vars, caller
<1>6. QED
    BY <1>1, <1>2, <1>3, <1>4, <1>5 DEF Next

\* Observe looks the bearer up again under the lock before it asks, so no request asks the
\* upstream about a bearer of which a proof or a recent failure is known.
THEOREM AskedOnlyIfUnknown == Spec => NoHammering
<1>1. DiscoveryInv /\ [Next]_vars =>
        [\A r \in Callers, k \in Keys :
           pc[r] = "observe" /\ pc'[r] = "wait" /\ ~fresh[r] /\ holds[r] = k
           /\ phase[k] = "none" /\ phase'[k] = "list"
           => ~Cached(k)]_vars
    BY AsksIfUnknown
<1>2. QED
    BY <1>1, DiscoveryAlways, PTL DEF Spec, NoHammering

-----------------------------------------------------------------------------
(* What a step does to the cache: it looks a key up, writes what a flight saw, lets *)
(* time pass, or leaves it alone.                                                   *)

Taken(f) == IF seen[f] \in Catalogs \ Invalid THEN seen[f] ELSE None

LEMMA CacheSteps ==
    ASSUME DiscoveryInv, [Next]_vars
    PROVE  \/ UNCHANGED entries
           \/ \E k \in Keys : Lookup(k)
           \/ Tick
           \/ \E f \in Keys : RejectOld(f) \/ Write(f)
<1>1. ASSUME NEW r \in Callers,
             Request(r) \/ ListModels(r) \/ Observe(r) \/ Abandon(r) \/ Decide(r)
      PROVE  UNCHANGED entries \/ \E k \in Keys : Lookup(k)
    <2>1. \A c \in Credentials : <<c, bearer[c]>> \in Keys
        BY DEF DiscoveryInv, Typed, TypedFlight, Keys
    <2>2. pc[r] # "idle" => holds[r] \in Keys
        BY DEF DiscoveryInv, Informed
    <2>3. CASE Request(r)
        BY <2>1, <2>3 DEF Request
    <2>4. CASE Observe(r) \/ Decide(r)
        BY <2>2, <2>4 DEF Observe, Decide
    <2>5. QED
        BY <1>1, <2>3, <2>4 DEF ListModels, Abandon
<1>2. ASSUME NEW k \in Keys, FlightStep(k)
      PROVE  UNCHANGED entries \/ RejectOld(k) \/ Write(k)
    BY <1>2 DEF FlightStep, Answer, Fail, Unauthorized, RefreshFails, Refresh, Publish
<1>3. CASE UNCHANGED vars
    BY <1>3 DEF vars
<1>4. QED
    BY <1>1, <1>2, <1>3 DEF Next, Rotate

LEMMA WritePuts ==
    ASSUME DiscoveryInv, NEW f \in Keys, Write(f)
    PROVE  /\ KeyAt(f) \in Keys /\ Taken(f) \in Catalogs \cup {None}
           /\ Put(KeyAt(f), Taken(f), seen[f] = "transient")
<1>1. seen[f] \in Catalogs \ Invalid => seen[f] # "transient"
    BY CatalogAssumption
<1>2. QED
    BY <1>1, KeyAtIsKey DEF Write, WriteKey, Taken, DiscoveryInv, Typed

LEMMA LimitsKept ==
    ASSUME DiscoveryInv, WithinLimits, [Next]_vars
    PROVE  WithinLimits'
<1>1. TypedCache
    BY DEF DiscoveryInv, Typed
<1>2. CASE UNCHANGED entries
    BY <1>2 DEF WithinLimits, BytesOf, Present, entries
<1>3. CASE \E k \in Keys : Lookup(k)
    BY <1>1, <1>3, LookupCounts
<1>4. CASE Tick
    <2>1. /\ \A k \in Keys : Bytes(cache'[k]) = Bytes(cache[k])
          /\ Present' = Present
        <3>1. ASSUME NEW k \in Keys
              PROVE  Bytes(cache'[k]) = Bytes(cache[k]) /\ (cache'[k] # None <=> cache[k] # None)
            <4>1. CASE cache'[k] = cache[k]
                BY <4>1
            <4>2. CASE k \in Present /\ cache'[k] = [cache[k] EXCEPT !.age = @ + 1]
                BY <1>1, <4>2, CatalogAssumption DEF TypedCache, Entries, Present, Bytes
            <4>3. QED
                BY <1>4, <4>1, <4>2 DEF Tick
        <3>2. QED
            BY <3>1 DEF Present
    <2>2. Total(cache', Present) = Total(cache, Present)
        BY <2>1, TotalSame DEF Present
    <2>3. QED
        BY <1>4, <2>1, <2>2, Accounting DEF Tick
<1>5. ASSUME NEW f \in Keys, RejectOld(f) PROVE WithinLimits'
    BY <1>1, <1>5, PutCounts DEF RejectOld
<1>6. ASSUME NEW f \in Keys, Write(f) PROVE WithinLimits'
    BY <1>1, <1>6, WritePuts, PutCounts
<1>7. QED
    BY <1>2, <1>3, <1>4, <1>5, <1>6, CacheSteps

LEMMA LimitsInit ==
    ASSUME Init
    PROVE  WithinLimits
<1>1. Present = {} /\ Cells(cache, {}) = {}
    BY DEF Init, Present, Cells
<1>2. Total(cache, Present) = 0 /\ Cardinality(Present) = 0
    BY <1>1, FS_EmptySet, Zenon DEF Total
<1>3. QED
    BY <1>2, Accounting, LimitAssumption DEF Init

LEMMA LimitsAlways == Spec => [](DiscoveryInv /\ WithinLimits)
<1>1. Init => WithinLimits
    BY LimitsInit
<1>2. DiscoveryInv /\ WithinLimits /\ [Next]_vars => WithinLimits'
    BY LimitsKept
<1>3. QED
    BY <1>1, <1>2, DiscoveryAlways, PTL DEF Spec

\* The cache's count of bytes is that of the entries it holds, after any sequence of
\* replacements, lookups and evictions, and it stays within its limits.
THEOREM CacheWithinLimits == Spec => []WithinLimits
BY LimitsAlways, PTL

\* A proof in force changes by age, by what was learnt of its bearer, or by eviction.
LEMMA ProofOutlives ==
    ASSUME DiscoveryInv, WithinLimits, [Next]_vars, NEW k \in Keys, Proven(k),
           cache'[k] # cache[k]
    PROVE  Aged(k) \/ Definite(k) \/ (Full /\ cache'[k] = None)
<1>1. TypedCache /\ k \in Present /\ Known(k) /\ ~Expired(k) /\ cache[k] \in Entries
    BY DEF DiscoveryInv, Typed, TypedCache, Proven, Cached, Present
<1>2. CASE UNCHANGED entries
    BY <1>2 DEF entries
<1>3. ASSUME NEW j \in Keys, Lookup(j) PROVE FALSE
    BY <1>1, <1>3 DEF Lookup, TypedCache, entries
<1>4. CASE Tick
    BY <1>1, <1>4, CatalogAssumption DEF Tick, Aged, Entries
<1>5. ASSUME NEW f \in Keys, RejectOld(f)
      PROVE  Definite(k) \/ (Full /\ cache'[k] = None)
    <2>1. phase[f] = "reject" /\ phase'[f] = "write"
        BY <1>5 DEF RejectOld, Proceed, DiscoveryInv, Typed, TypedFlight
    <2>2. CASE f = k
        BY <2>1, <2>2 DEF Definite
    <2>3. CASE f # k
        BY <1>1, <1>5, <2>3, PutEvicts DEF RejectOld
    <2>4. QED
        BY <2>2, <2>3
<1>6. ASSUME NEW f \in Keys, Write(f)
      PROVE  Definite(k) \/ (Full /\ cache'[k] = None)
    <2>1. phase[f] = "write" /\ phase'[f] = "publish"
        BY <1>6 DEF Write, Proceed, DiscoveryInv, Typed, TypedFlight
    <2>2. CASE KeyAt(f) = k /\ seen[f] # "transient"
        BY <2>1, <2>2 DEF Definite
    <2>3. CASE KeyAt(f) = k /\ seen[f] = "transient"
        <3>1. Put(k, Taken(f), TRUE)
            BY <1>6, <2>3, WritePuts
        <3>2. UNCHANGED entries
            BY <3>1 DEF Put, Preserves
        <3>3. QED
            BY <3>2 DEF entries
    <2>4. CASE KeyAt(f) # k
        BY <1>1, <1>6, <2>4, WritePuts, PutEvicts
    <2>5. QED
        BY <2>2, <2>3, <2>4
<1>7. QED
    BY <1>2, <1>3, <1>4, <1>5, <1>6, CacheSteps

\* store keeps a proof in force from a transient failure: it only ages, is replaced or
\* invalidated by a flight that learnt something definite, or goes as the cache is full.
THEOREM ProofsOutliveFailures == Spec => ProofOutlivesTransientFailure
<1>1. DiscoveryInv /\ WithinLimits /\ [Next]_vars =>
        [\A k \in Keys :
           Proven(k) /\ cache'[k] # cache[k]
           => Aged(k) \/ Definite(k) \/ (Full /\ cache'[k] = None)]_vars
    BY ProofOutlives
<1>2. QED
    BY <1>1, LimitsAlways, PTL DEF Spec, ProofOutlivesTransientFailure
=============================================================================
