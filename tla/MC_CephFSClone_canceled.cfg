CONSTANTS
    Ops <- MC_OnlySubvolume
    BackendStates <- MC_AllStates
    ParentSize = 1
    RequestedSize = 2
    MaxCrashes = 1
SPECIFICATION Spec
CHECK_DEADLOCK FALSE
INVARIANT CloneSucceeded
