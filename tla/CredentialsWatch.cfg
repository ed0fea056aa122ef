SPECIFICATION FairSpec
CONSTANTS
    Insts = {i1, i2}
    Secrets = {s1, s2}
    Data <- RotatedVal
    None = None
    MaxChanges = 2
    MaxFaults = 1
INVARIANTS SumOfReference NeverForgotten
PROPERTIES CredentialsApplied
CHECK_DEADLOCK FALSE
