SPECIFICATION MCSpec
CONSTANTS
    u1 = u1
    u2 = u2
    d1 = d1
    d2 = d2
    old = old
    older = older
    Uids <- MCUids
    Identities = {x, y}
    Slugs <- MCSlugs
    Reserved <- MCReserved
    Digest <- MCDigest
    TooLong <- MCTooLong
    Blank = blank
    Malformed = malformed
    MaxEntries = 2
    Paths = {p, q}
    SourceUids = {v, w}
INVARIANTS ParseExact NamesDistinct NeverInherited MappingExact ProxyStarts
CHECK_DEADLOCK FALSE
