SPECIFICATION FairSpec
CONSTANTS
    None = None
    Callers = {r1, r2}
    Registry <- MCRegistry
    Accounts <- MCAccounts
    Discovering = {"codex", "plain"}
    Codex = {"codex"}
    Offered <- MCOffered
INVARIANTS
    ListedIsAddressable
    AddressesAreRows
PROPERTIES
    HintsLostOnlyIfDisowned
    EveryCallerReturns
