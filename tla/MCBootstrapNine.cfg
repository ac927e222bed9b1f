SPECIFICATION FairSpec
CONSTANTS
    Coordinators = {c1}
    TxIDs = {t1}
    Digests = {d1}
    None = None
    NumSteps = 9
    PreparedStep = 5
    ApplyStep = 8
    NumComponents = 5
    MaxRevision = 32
    MaxAttempts = 5
    MaxFaults = 2
    MaxBoots = 2
PROPERTIES
    EventuallyComplete
    PreparedRepublished
