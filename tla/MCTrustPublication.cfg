SPECIFICATION FairTrustSpec
CONSTANTS
    Publishers = {svc}
    Digests = {d1}
    Content = d1
    NoDigest = NoDigest
    MaxTrustRevision = 6
    MaxSequence = 10
    MaxRevision = 20
    Validity = 1
    MaxStaleness = 1
    ClockSkew = 0
    MaxClock = 1
    MaxFaults = 1
    MaxSyncFaults = 2
    MaxBoots = 2
INVARIANTS
    AcknowledgedIsPublished
    DrainedIsCurrent
PROPERTIES
    UndisturbedDrainEmpties
