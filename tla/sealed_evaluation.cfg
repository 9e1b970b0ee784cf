SPECIFICATION FairSpec
CONSTANTS
    Stewards = {s1, s2}
    Scorers = {k1, k2}
    Splitter = splitter
    Finalizer = finalizer
    Plans = {p1, p2}
    None = None
    NoCall = NoCall
    MaxTombstones = 2
    MaxTroubles = 3
INVARIANTS ReturnedStands
PROPERTIES ImplementsOneShot ClaimsConclude
CHECK_DEADLOCK FALSE
