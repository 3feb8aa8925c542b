CONSTANTS
    c1 = c1
    c2 = c2
    c3 = c3
    Calls = {c1, c2, c3}
    NoCall = NoCall
    TimeoutOf <- OneOfEach
    BadArguments = TRUE
SPECIFICATION FairSpec
INVARIANTS TypeOK CallBackOnce LiveData NoLeak
PROPERTIES NoSendAfterDisconnect CallAnswered KeepsContract
CHECK_DEADLOCK FALSE
