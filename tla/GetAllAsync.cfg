CONSTANTS
    N = 4
    Sync <- LastMaybeSync
    MaxCalls = 2
SPECIFICATION FairSpec
INVARIANTS TypeOK OneCompleteReply
PROPERTY GetAllAnswered
CHECK_DEADLOCK FALSE
