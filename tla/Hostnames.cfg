SPECIFICATION FairSpec
CONSTANTS
    Slots = {s1, s2}
    u1 = u1
    u2 = u2
    u3 = u3
    ha = ha
    hb = hb
    Uids = {u1, u2, u3}
    Hosts <- Hosts2
    Wild = wild
    Covered <- Covered1
    Policies <- Policies2
    None = None
    Other = Other
    MaxFaults = 4
INVARIANTS OwnHostsDistinct
PROPERTIES IncarnationsApart RoutesSettle
CHECK_DEADLOCK FALSE
