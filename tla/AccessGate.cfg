SPECIFICATION FairSpec
CONSTANTS
    long = long
    short = short
    alice = alice
    Requests = {q1, q2}
    Tokens <- MCTokens
    NoToken = none
    Accounts <- MCAccounts
    Account <- MCAccount
    Expiry <- MCExpiry
    CheckTimeout = 1
    RecheckInterval = 2
    Horizon = 6
    MaxChanges = 2
INVARIANTS WithinToken RevocationTotal
PROPERTIES OpenedOnPermission StreamsEnd
