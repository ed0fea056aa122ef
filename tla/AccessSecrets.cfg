SPECIFICATION SpecFromOne
CONSTANTS
    Bundles = {b1, b2, b3}
    Session = session
    None = none
    MaxAccessBundles = 2
    MaxFaults = 2
    MaxRotations = 3
INVARIANTS HistoryBounded PinsMinted LiveMountKept
PROPERTIES SessionPinPermanent ForgottenOnlyWhenGone ImplementsRegistry RolloutCompletes
