SPECIFICATION Spec
CONSTANTS
    Publishers = {p1}
    Digests = {d1}
    NoDigest = NoDigest
    MaxTrustRevision = 2
    MaxSequence = 3
    MaxRevision = 6
    Validity = 1
    MaxStaleness = 1
    ClockSkew = 0
    MaxClock = 2
    MaxFaults = 2
    MaxSyncFaults = 1
    MaxBoots = 2
INVARIANT SequenceNeverReused
