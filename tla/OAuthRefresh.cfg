SPECIFICATION Spec
CONSTANTS
    c1 = c1
    c2 = c2
    Callers <- MCTwo
    Cancellable <- MCOne
    Credentials = {1}
    Provider = Provider
    None = None
    MarkTries = 2
    MaxFailures = 1
    MaxIssued = 2
    MaxLogins = 0
INVARIANTS
    LockedOutOnlyByLoss
    RefusedTokenNotPresented
PROPERTIES
    TerminalUntilReauth
    RefusedBearerOnly
