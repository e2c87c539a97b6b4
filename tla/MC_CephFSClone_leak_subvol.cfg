CONSTANTS
    Ops <- MC_OnlySubvolume
    BackendStates <- MC_KnownStates
    ParentSize = 1
    RequestedSize = 2
    MaxCrashes = 0
SPECIFICATION Spec
CHECK_DEADLOCK FALSE
INVARIANT NoLeakOnTerminal
