SPECIFICATION Spec
CONSTANTS
    Publishers = {p1, p2}
    Digests = {d1, d2}
    NoDigest = NoDigest
    MaxTrustRevision = 2
    MaxSequence = 3
    MaxRevision = 5
    Validity = 1
    MaxStaleness = 1
    ClockSkew = 0
    MaxClock = 1
    MaxFaults = 2
    MaxSyncFaults = 1
    MaxBoots = 2
SYMMETRY Symmetry
INVARIANTS
    NewerStateNewerSequence
    HighWaterCoversNetwork
    PublishedIsPinned
