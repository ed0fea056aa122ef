SPECIFICATION Spec
CONSTANTS
    Revs = {r1, r2}
    Legacy = legacy
    Unapproved = unapproved
    None = none
    Slots = {s1, s2}
    Replicas = {0, 2}
    MaxFaults = 2
INVARIANTS NoMixedWorkload ReadyEarned NeverAbandoned
PROPERTIES CutoverClean ForeignUntouched ImplementsRollout
CHECK_DEADLOCK FALSE
SYMMETRY Symmetry
