SPECIFICATION Spec
CONSTANTS
    Revs = {r1, r2}
    Legacy = legacy
    Unapproved = unapproved
    None = none
    Slots = {s1, s2}
    Replicas = {0, 2}
    MaxFaults = 2
INVARIANTS NeverOverScaled
CHECK_DEADLOCK FALSE
SYMMETRY Symmetry
