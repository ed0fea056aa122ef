SPECIFICATION FairSpecFromOne
CONSTANTS
    Revs = {r1, r2}
    Legacy = legacy
    Unapproved = unapproved
    None = none
    Slots = {s1}
    Replicas = {0, 2}
    MaxFaults = 2
PROPERTIES Converges
CHECK_DEADLOCK FALSE
