CONSTANTS
    N = 2
    Sync <- EverySync
    MaxCalls = 1
SPECIFICATION Spec
INVARIANT NeverThrows
CHECK_DEADLOCK FALSE
