SPECIFICATION FairSpec
CONSTANTS
    r1 = r1
    r2 = r2
    a1 = a1
    Callers <- MCTwo
    Credentials = {a1}
    MaxGeneration = 2
    Catalogs = {"small", "other", "empty"}
    Invalid = {"empty"}
    Offered <- MCOffered
    Advertising = {"small"}
    Size <- MCSize
    MaxCatalogs = 1
    MaxBytes = 2
    ProofTTL = 2
    FailureTTL = 1
    None = None
INVARIANTS
    ProofMatchesBearer
    DiscoveredBearerIsUsed
PROPERTIES
    EveryObserverReturns
    ProofOutlivesTransientFailure
    NoHammering
