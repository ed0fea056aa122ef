SPECIFICATION FairSpec
CONSTANTS
    w1 = w1
    w2 = w2
    large = large
    Wanted <- MCWanted
    Foreign = foreign
    Sizes <- MCSizes
    Unsized = unsized
    None = none
    MaxEdits = 3
INVARIANTS AcceptedExact
PROPERTIES PlatformKept NoSpuriousCutover TemplateSettles
