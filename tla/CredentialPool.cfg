SPECIFICATION Spec
CONSTANTS
    None = None
    Requests <- MCPair
    Routes = {"codex"}
    Tokens = {"t"}
    CredentialOrder <- MCTwo
    RouteOf <- MCPairRoute
    TokenOf <- MCPairToken
    KindOf <- MCPairKind
    Sticky = {"r1"}
    AffinityHash <- MCPairHash
    OAuthRoutes = {"codex"}
    CatalogRoutes = {"codex"}
    Resolvable <- MCWholePool
    UpstreamReplies <- MCReplies
INVARIANTS
    PressureAccounting
    PoolExhaustedBeforeFailure
    FallbackTrail
    RefusalsExplainFallbacks
PROPERTIES
    NoAttemptAfterFirstByte
    FairShare
