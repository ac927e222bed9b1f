SPECIFICATION Spec
CONSTANTS
    Processes = {p1, p2}
    Values = {v1, v2}
    None = None
    MaxRevision = 4
    MaxFaults = 3
    MaxRestores = 1
    MaxBoots = 3
SYMMETRY Symmetry
INVARIANTS
    Recoverable
    MonotonicReads
PROPERTIES
    ImplementsStore
