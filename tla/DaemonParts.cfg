SPECIFICATION PartsSpec
CONSTANTS
    Logins = {l1, l2}
    Clients = {"console", "other"}
    Console = "console"
    Accounts = {"a"}
    MaxSessions = 1
    MaxPolls = 1
    Background = Background
    None = None
    PoolAccounts = {a1, a2}
    Streams = {"stream"}
    Requested <- AllRequested
    WindowLengths = {1}
    Delays = {1}
    Threshold = 2
    MaxLag = 1
    PoolTime = 3
    Ids = {p1, p2, p3, p4}
    Size <- TwoSizes
    Lifetime = 1
    MaxEntries = 3
    CacheBytes = 4
    MaxSequence = 4
    PingAccounts = {"first", "second"}
    ProviderOf <- TwoProviders
    Clock <- ClockBack
    Schedule = {"07:00", "07:01"}
    PingTime = 4
    MaxRestarts = 1
    Catalogs <- TiedOnly
    Configured = None
    Bodies = {0, 1, 5}
    MaxBody = 3
    FileBytes = 3
    MaxFiles = 3
    MaxRecords = 4
    Processes = {"one", "two"}
    Releases = {9, 16}
    Inodes = {1, 2, 3}
INVARIANTS
    SessionsBounded
    SingleUse
    ShownCodeIsAwaited
    HeaderTellsTruth
    OncePerSlot
    LogIsBoundedTail
    SchemaAsVersioned
    ReachedAtPath
PROPERTIES
    ImplementsRecencyCache
CHECK_DEADLOCK FALSE
