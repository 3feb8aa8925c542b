CONSTANTS
    shared = shared
    own = own
    Requests = {r1, r2, r3}
    Keys = {a, b, c}
    Signalling = {a, b}
    Hashes = {shared, own}
    HashOf <- Hash
    MaxLosses = 1
    MaxRenewals = 1
    None = None
SPECIFICATION FairSpec
INVARIANTS TypeOK RuleKept LatestHears
PROPERTIES Retrieved Resubscribed KeepsContract
CHECK_DEADLOCK FALSE
