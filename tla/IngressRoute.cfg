SPECIFICATION FairSpec
CONSTANTS
    h1 = h1
    h2 = h2
    t1 = t1
    t2 = t2
    Hosts <- MCHosts
    Elsewhere = elsewhere
    Secrets <- MCSecrets
    NoSecret = noSecret
    Extras <- MCExtras
    None = none
    MaxEdits = 3
INVARIANTS RouteExact
PROPERTIES ForeignKept RouteSettles
