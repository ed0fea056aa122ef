SPECIFICATION FairSpec
CONSTANTS
    alice = alice
    bob = bob
    a1 = a1
    a2 = a2
    b1 = b1
    None = none
    Users <- MCUsers
    Tokens <- MCTokens
    Owner <- MCOwner
    MaxDisturbances = 3
PROPERTIES EndsSignedIn
