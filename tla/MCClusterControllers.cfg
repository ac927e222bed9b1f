SPECIFICATION Spec
CONSTANTS
    Focus = {"shipcrew", "signers"}
    Backend = be
    Crew = cr
    CrewRuns = {r1}
    MaxCrewEdits = 1
    MaxCrewFaults = 1
    Requests = {q1, q2}
    MaxPolicyEdits = 1
    MaxSignerFaults = 1
INVARIANTS
    ExecutionsJustified
    ReadyHasRunner
PROPERTIES
    TerminalIsFinal
    RunsFinish
    CertificateWriteOnce
    DecisionKept
    ApprovedIsSigned
CHECK_DEADLOCK FALSE
