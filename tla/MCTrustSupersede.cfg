SPECIFICATION RestartedTrustSpec
CONSTANTS
    Publishers = {svc}
    Digests = {d1}
    Content = d1
    NoDigest = NoDigest
    MaxTrustRevision = 6
    MaxSequence = 4
    MaxRevision = 8
    Validity = 1
    MaxStaleness = 1
    ClockSkew = 0
    MaxClock = 0
    MaxFaults = 1
    MaxSyncFaults = 0
    MaxBoots = 1
PROPERTY OutboxDrained
