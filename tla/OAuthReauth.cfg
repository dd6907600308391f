SPECIFICATION Spec
CONSTANTS
    c1 = c1
    c2 = c2
    Callers <- MCTwo
    Cancellable = {}
    Credentials = {1}
    Provider = Provider
    None = None
    MarkTries = 2
    MaxFailures = 1
    MaxIssued = 1
    MaxLogins = 1
SYMMETRY Symmetry
INVARIANT
    ReauthClearsFailure
