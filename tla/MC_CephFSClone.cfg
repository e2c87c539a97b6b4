CONSTANTS
    Ops <- MC_Ops
    BackendStates <- MC_KnownStates
    ParentSize = 1
    RequestedSize = 2
    MaxCrashes = 3
SPECIFICATION Spec
CHECK_DEADLOCK FALSE
INVARIANTS
    TypeOK
    CloneSucceeded
    NoLeakAfterCompensation
PROPERTIES
    RetryKeepsProgress
    RequestSpec
