SPECIFICATION Spec
CONSTANTS
    c1 = c1
    c2 = c2
    identity = identity
    ca = ca
    h1 = h1
    h2 = h2
    h3 = h3
    None = None
    Processes = {c1, c2}
    Roles = {identity, ca}
    Lifetime = {identity}
    Handles = {h1, h2, h3}
    Pool <- MCPool
    MaxGeneration = 2
    MaxRevision = 8
    MaxKeys = 4
    MaxForeign = 1
    MaxFaults = 2
    MaxBoots = 2
INVARIANTS
    Recoverable
    NoOrphans
    IdentityIsForever
    SignerUnchanged
PROPERTIES
    LeftoversCleared
