SPECIFICATION Spec
CONSTANTS
    Focus = {"libp2p", "ipfs", "discovery"}
    Processes = {p1, p2}
    NoProcess = NoProcess
    Keys = {k1, k2}
    NoKey = NoKey
    RuntimeDirs = {d1, d2}
    MaxIdentityFaults = 3
    Instances = {i1, i2}
    NoInstance = NoInstance
    ServiceDirs = {e1, e2}
    MaxServiceFaults = 2
    Servers = {s1, s2}
    Sessions = {b1}
    NoHandle = NoHandle
INVARIANTS
    IdentityForLife
    ReadyIsComplete
    ReadinessHeld
    NoOrphanRegistration
PROPERTIES
    EndpointKept
    KuboDeathWithdraws
    StoppedDrains
