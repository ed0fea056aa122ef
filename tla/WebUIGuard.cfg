SPECIFICATION Spec
CONSTANTS
    alice = alice
    bob = bob
    a1 = a1
    a2 = a2
    b1 = b1
    None = none
    Users <- MCUsers
    Tokens <- MCTokens
    Owner <- MCOwner
    Sids = {s1, s2}
    Tasks = {k1, k2}
    Callers <- MCCallers
    MaxEvents = 3
INVARIANTS ActsAsVerified SessionBound IdentityArrives
SYMMETRY Symmetry
