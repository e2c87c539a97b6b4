CONSTANTS
    Ops <- MC_OnlySnapshot
    BackendStates <- MC_KnownStates
    ParentSize = 1
    RequestedSize = 2
    MaxCrashes = 1
SPECIFICATION Spec
CHECK_DEADLOCK FALSE
INVARIANT NoLeakOnTerminal
