SPECIFICATION Spec
CONSTANTS
    t1 = t1
    t2 = t2
    sa = sa
    sb = sb
    Services = {sa, sb}
    Threads = {t1, t2}
    Host <- TwoHosts
    Principals = {alice, bob}
    Grants = {g1, g2, g3}
    Domains = {remote}
    None = None
    MaxSerial = 2
    MaxGeneration = 1
    MaxRevision = 6
    MaxRetries = 2
    MaxFaults = 1
    MaxBoots = 2
SYMMETRY Symmetry
INVARIANTS
    CertificatesAccounted
    GrantUsedOnce
