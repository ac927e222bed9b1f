SPECIFICATION Spec
CONSTANTS
    Coordinators = {c1, c2}
    TxIDs = {t1, t2}
    Digests = {d1, d2}
    None = None
    NumSteps = 3
    PreparedStep = 1
    ApplyStep = 2
    NumComponents = 2
    MaxRevision = 8
    MaxAttempts = 2
    MaxFaults = 2
    MaxBoots = 2
SYMMETRY Symmetry
INVARIANTS
    RevisionIdentifiesContent
    IntentBeforeAction
    CommittedStepsVerified
    PreparedSound
    NeverRefusedAsInvalid
PROPERTIES
    ImplementsTransaction
