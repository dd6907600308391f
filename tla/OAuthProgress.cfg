SPECIFICATION FairSpec
CONSTANTS
    c1 = c1
    c2 = c2
    Callers <- MCTwo
    Cancellable <- MCOne
    Credentials = {1}
    Provider = Provider
    None = None
    MarkTries = 2
    MaxFailures = 1
    MaxIssued = 0
    MaxLogins = 1
PROPERTIES
    EveryCallReturns
