SPECIFICATION Spec
CONSTANTS
    t1 = t1
    t2 = t2
    sa = sa
    sb = sb
    Services = {sa}
    Threads = {t1, t2}
    Host <- OneHost
    Principals = {alice}
    Grants = {g1, g2, g3, g4}
    Domains = {remote}
    None = None
    MaxSerial = 3
    MaxGeneration = 2
    MaxRevision = 8
    MaxRetries = 2
    MaxFaults = 1
    MaxBoots = 1
SYMMETRY Symmetry
INVARIANTS
    RevocationSticks
    WithdrawalsReachOutbox
